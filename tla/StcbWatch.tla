------------------------------ MODULE StcbWatch ------------------------------
(***************************************************************************)
(* The Watch streams of one Driver process (plugin/driver.go: Watch,       *)
(* deviceIDsFor, sendSnapshot, syncAll, emitObservations, subscribe and    *)
(* publish), the freshness of the boards that they report on               *)
(* (device.online and the lines that the RX loop parses, plugin/device.go) *)
(* and the events that the RX loops push into the streams.                 *)
(*                                                                         *)
(* A handle is one *device value: one opening of a device id.  A Watch     *)
(* looks its device ids up again and again and may still hold a handle     *)
(* that was closed meanwhile.  Time is abstracted: a frame is fresh until  *)
(* it is 30 s old, and a ticker may fire whenever Watch waits for it.      *)
(*                                                                         *)
(* External: the boards, and the consumer of a stream, which may take any  *)
(* time to accept a message, or refuse it.  What syncAll sends is the      *)
(* sendCommand of StcbCommand; here it only takes its time.                *)
(***************************************************************************)
EXTENDS Naturals, Sequences, FiniteSets

CONSTANTS
  Watches,      \* Watch streams
  Instances, DevIds,
  Handles,      \* openings of a device
  KeyOf,        \* KeyOf[h]: the instance and device id that h is an opening of
  Firmware,     \* Firmware[h]: "v1" or "legacy"
  Configured,   \* handles opened with protocol "v1" (the others detect it)
  InstOf,       \* InstOf[w]: the instance of the request
  Asked,        \* Asked[w]: the device ids of the request, in order
  Default,      \* Default[i]: the device id of the instance configuration, or NoDev
  NoDev,
  QueueCap,     \* capacity of a subscription's channel (64 in the code)
  MaxMessages,  \* bound: messages published
  Faults,       \* which environment faults may happen
  None

Keys == [inst: Instances, dev: DevIds]
FaultKinds == {"cancel", "sendfail", "lapse", "dies", "close", "reopen", "shutdown"}

ASSUME HandlesAssumption == /\ KeyOf \in [Handles -> Keys]
                            /\ Firmware \in [Handles -> {"v1", "legacy"}]
                            /\ Configured \subseteq Handles
ASSUME WatchAssumption   == /\ DevIds \subseteq Nat
                            /\ InstOf \in [Watches -> Instances]
                            /\ Asked \in [Watches -> Seq(DevIds)]
                            /\ Default \in [Instances -> DevIds \cup {NoDev}]
ASSUME BoundsAssumption  == QueueCap \in Nat \ {0} /\ MaxMessages \in Nat /\ Faults \subseteq FaultKinds
ASSUME NoneAssumption    == None \notin Handles /\ NoDev \notin DevIds

VARIABLES
  initialized, shutdown,                 \* under Driver.mu
  table,                                 \* under devMu
  opened, v1, full, sensor, dead,        \* a device, under device.mu
  polled, event,                         \* a board was polled; RX has an event line
  subs, queue,                           \* under subsMu
  published,                             \* how many messages were published
  pc, ids, todo, cur, saw, lastOnline, ctxDone, ret,  \* a Watch goroutine
  told, got, observed                    \* what the consumer of a stream knows

driverVars == <<initialized, shutdown, table>>
boardVars  == <<opened, v1, full, sensor, dead, polled>>
pubVars    == <<event, published>>
subVars    == <<subs, queue>>
watchVars  == <<pc, ids, todo, cur, saw, lastOnline, ctxDone, ret>>
viewVars   == <<told, got, observed>>
worldVars  == <<driverVars, boardVars, pubVars>>
vars == <<worldVars, subVars, watchVars, viewVars>>

PCs == {"enter", "ids", "snap", "upsert", "entities", "compare", "sync", "syncing", "loop",
        "request", "settle", "check", "changed", "report", "leave", "end"}
Age == {"never", "fresh", "stale"}
Messages == [key: Keys, n: 1..MaxMessages]

TypeOK ==
  /\ initialized \in BOOLEAN /\ shutdown \in BOOLEAN
  /\ table \in [Keys -> Handles \cup {None}]
  /\ opened \in [Handles -> BOOLEAN] /\ v1 \in [Handles -> BOOLEAN]
  /\ full \in [Handles -> Age] /\ sensor \in [Handles -> Age] /\ dead \in [Handles -> BOOLEAN]
  /\ polled \in [Handles -> BOOLEAN] /\ event \in [Handles -> BOOLEAN]
  /\ subs \subseteq Watches
  /\ queue \in [Watches -> Seq(Messages)] /\ \A w \in Watches : Len(queue[w]) <= QueueCap
  /\ published \in 0..MaxMessages
  /\ pc \in [Watches -> PCs]
  /\ ids \in [Watches -> Seq(DevIds)] /\ todo \in [Watches -> Seq(DevIds)]
  /\ cur \in [Watches -> Handles \cup {None}]
  /\ saw \in [Watches -> BOOLEAN] /\ ctxDone \in [Watches -> BOOLEAN]
  /\ lastOnline \in [Watches -> [DevIds -> BOOLEAN]]
  /\ ret \in [Watches -> {"none", "unavailable", "precondition", "invalid", "ctx", "send"}]
  /\ told \in [Watches -> [DevIds -> {"none", "online", "unavailable"}]]
  /\ got \in [Watches -> Seq(Messages)]
  /\ observed \in [Watches -> [DevIds -> BOOLEAN]]

Init ==
  /\ initialized = FALSE /\ shutdown = FALSE
  /\ table = [k \in Keys |-> None]
  /\ opened = [h \in Handles |-> FALSE]
  /\ v1 = [h \in Handles |-> h \in Configured]
  /\ full = [h \in Handles |-> "never"] /\ sensor = [h \in Handles |-> "never"]
  /\ dead = [h \in Handles |-> FALSE]
  /\ polled = [h \in Handles |-> FALSE] /\ event = [h \in Handles |-> FALSE]
  /\ subs = {} /\ queue = [w \in Watches |-> <<>>] /\ published = 0
  /\ pc = [w \in Watches |-> "enter"]
  /\ ids = [w \in Watches |-> <<>>] /\ todo = [w \in Watches |-> <<>>]
  /\ cur = [w \in Watches |-> None] /\ saw = [w \in Watches |-> FALSE]
  /\ lastOnline = [w \in Watches |-> [d \in DevIds |-> FALSE]]
  /\ ctxDone = [w \in Watches |-> FALSE] /\ ret = [w \in Watches |-> "none"]
  /\ told = [w \in Watches |-> [d \in DevIds |-> "none"]]
  /\ got = [w \in Watches |-> <<>>]
  /\ observed = [w \in Watches |-> [d \in DevIds |-> FALSE]]

Key(w, d) == [inst |-> InstOf[w], dev |-> d]
Device(w, d) == table[Key(w, d)]
Watched(w) == {ids[w][i] : i \in DOMAIN ids[w]}

\* device.online: alive, and a sensor or state frame within 30 s.
Online(h) == h # None /\ ~dead[h] /\ (full[h] = "fresh" \/ sensor[h] = "fresh")

-----------------------------------------------------------------------------
(* The Driver around the streams; StcbRegistry has the whole of it. *)

Initialize ==
  /\ ~initialized /\ ~shutdown
  /\ initialized' = TRUE
  /\ UNCHANGED <<shutdown, table, boardVars, pubVars, subVars, watchVars, viewVars>>

OpenDevice(h) ==
  /\ ~shutdown /\ ~opened[h] /\ table[KeyOf[h]] = None
  /\ "reopen" \in Faults \/ \A g \in Handles : KeyOf[g] = KeyOf[h] => ~opened[g]
  /\ opened' = [opened EXCEPT ![h] = TRUE]
  /\ table' = [table EXCEPT ![KeyOf[h]] = h]
  /\ UNCHANGED <<initialized, shutdown, v1, full, sensor, dead, polled, pubVars, subVars,
                 watchVars, viewVars>>

\* The device leaves the table; its RX loop ends a little later (Dies).
CloseDevice(k) ==
  /\ "close" \in Faults /\ table[k] # None
  /\ table' = [table EXCEPT ![k] = None]
  /\ UNCHANGED <<initialized, shutdown, boardVars, pubVars, subVars, watchVars, viewVars>>

Shutdown ==
  /\ "shutdown" \in Faults /\ ~shutdown
  /\ shutdown' = TRUE
  /\ table' = [k \in Keys |-> None]
  /\ UNCHANGED <<initialized, boardVars, pubVars, subVars, watchVars, viewVars>>

-----------------------------------------------------------------------------
(* The boards and their RX loops. *)

Running(h) == opened[h] /\ ~dead[h]

\* The greeting of a v1 board: no frame, but it is known to need no polling.
HelloLine(h) ==
  /\ Running(h) /\ Firmware[h] = "v1" /\ ~v1[h]
  /\ v1' = [v1 EXCEPT ![h] = TRUE]
  /\ UNCHANGED <<driverVars, opened, full, sensor, dead, polled, pubVars, subVars, watchVars, viewVars>>

\* A state line of Protocol v1, which the board sends by itself.
StateLine(h) ==
  /\ Running(h) /\ Firmware[h] = "v1"
  /\ full' = [full EXCEPT ![h] = "fresh"]
  /\ v1' = [v1 EXCEPT ![h] = TRUE]
  /\ UNCHANGED <<driverVars, opened, sensor, dead, polled, pubVars, subVars, watchVars, viewVars>>

\* A legacy board only answers V.
SensorLine(h) ==
  /\ Running(h) /\ Firmware[h] = "legacy" /\ polled[h]
  /\ sensor' = [sensor EXCEPT ![h] = "fresh"]
  /\ polled' = [polled EXCEPT ![h] = FALSE]
  /\ UNCHANGED <<driverVars, opened, v1, full, dead, pubVars, subVars, watchVars, viewVars>>

\* 30 s without a frame.
Lapse(h) ==
  /\ "lapse" \in Faults
  /\ full[h] = "fresh" \/ sensor[h] = "fresh"
  /\ full' = [full EXCEPT ![h] = IF @ = "fresh" THEN "stale" ELSE @]
  /\ sensor' = [sensor EXCEPT ![h] = IF @ = "fresh" THEN "stale" ELSE @]
  /\ UNCHANGED <<driverVars, opened, v1, dead, polled, pubVars, subVars, watchVars, viewVars>>

\* The RX loop ends: its device was closed, or its port failed.
Dies(h) ==
  /\ Running(h)
  /\ "dies" \in Faults \/ table[KeyOf[h]] # h
  /\ dead' = [dead EXCEPT ![h] = TRUE]
  /\ UNCHANGED <<driverVars, opened, v1, full, sensor, polled, pubVars, subVars, watchVars, viewVars>>

\* Messages that were published or are about to be.
Room == published + Cardinality({h \in Handles : event[h]}) < MaxMessages

\* The RX loop has parsed an event line and calls onEvent.
EventLine(h) ==
  /\ Running(h) /\ ~event[h] /\ Room
  /\ event' = [event EXCEPT ![h] = TRUE]
  /\ UNCHANGED <<driverVars, boardVars, published, subVars, watchVars, viewVars>>

-----------------------------------------------------------------------------
(* publish, under subsMu. *)

AnyInstance(w, k) == k.dev \in Watched(w)   \* mutant: instances are not told apart
Subscribed(w, k)  == InstOf[w] = k.inst /\ k.dev \in Watched(w)

Waits(k)   == \A w \in subs : Subscribed(w, k) => Len(queue[w]) < QueueCap  \* mutant: a send without default
MayEnqueue(k) == TRUE

\* A full channel drops the message, for its stream only.
Enqueue(k, msg) ==
  /\ MayEnqueue(k)
  /\ queue' = [w \in Watches |->
                 IF w \in subs /\ Subscribed(w, k) /\ Len(queue[w]) < QueueCap
                 THEN Append(queue[w], msg) ELSE queue[w]]

Publish(k) ==
  /\ published' = published + 1
  /\ Enqueue(k, [key |-> k, n |-> published + 1])

\* pushEvent, from the RX loop of h.
PushEvent(h) ==
  /\ event[h]
  /\ event' = [event EXCEPT ![h] = FALSE]
  /\ Publish(KeyOf[h])
  /\ UNCHANGED <<driverVars, boardVars, subs, watchVars, viewVars>>

\* pushProgress, from an Execute whose command has returned.
PushProgress(k) ==
  /\ Room /\ \E h \in Handles : opened[h] /\ KeyOf[h] = k
  /\ Publish(k)
  /\ UNCHANGED <<driverVars, boardVars, event, subs, watchVars, viewVars>>

-----------------------------------------------------------------------------
(* A Watch goroutine. *)

Goto(w, label) == pc' = [pc EXCEPT ![w] = label]

\* A return: the deferred unsubscribe comes first, once there is a subscription.
NoDefer(w, code) ==                        \* mutant: the deferred call is forgotten
  Goto(w, "end") /\ ret' = [ret EXCEPT ![w] = code]
Return(w, code) ==
  Goto(w, IF w \in subs THEN "leave" ELSE "end") /\ ret' = [ret EXCEPT ![w] = code]

Watch(w) ==
  /\ pc[w] = "enter"
  /\ \/ shutdown /\ Return(w, "unavailable")
     \/ ~shutdown /\ ~initialized /\ Return(w, "precondition")
     \/ ~shutdown /\ initialized /\ Goto(w, "ids") /\ UNCHANGED ret
  /\ UNCHANGED <<worldVars, subVars, ids, todo, cur, saw, lastOnline, ctxDone, viewVars>>

\* deviceIDsFor: the request, else the instance configuration, else whatever is
\* open now, sorted.
AlsoEmpty(w) ==                            \* mutant: an empty default is used
  {IF Asked[w] # <<>> THEN Asked[w] ELSE <<Default[InstOf[w]]>>}
Sorted(S) == {s \in [1..Cardinality(S) -> S] : \A i, j \in DOMAIN s : i < j => s[i] < s[j]}
DeviceIdsFor(w) ==
  CASE Asked[w] # <<>>              -> {Asked[w]}
    [] Asked[w] = <<>> /\ Default[InstOf[w]] # NoDev -> {<<Default[InstOf[w]]>>}
    [] OTHER -> Sorted({d \in DevIds : Device(w, d) # None})

ResolveIds(w) ==
  /\ pc[w] = "ids"
  /\ \E found \in DeviceIdsFor(w) :
       /\ ids' = [ids EXCEPT ![w] = found]
       /\ todo' = [todo EXCEPT ![w] = found]
       /\ IF found = <<>> THEN Return(w, "invalid") ELSE Goto(w, "snap") /\ UNCHANGED ret
  /\ UNCHANGED <<worldVars, subVars, cur, saw, lastOnline, ctxDone, viewVars>>

\* The next device of the first snapshot is looked up ...
SnapLookup(w) ==
  /\ pc[w] = "snap" /\ todo[w] # <<>>
  /\ cur' = [cur EXCEPT ![w] = Device(w, Head(todo[w]))]
  /\ Goto(w, "upsert")
  /\ UNCHANGED <<worldVars, subVars, ids, todo, saw, lastOnline, ctxDone, ret, viewVars>>

\* ... and sendSnapshot sends its status, read at that moment ...
SendFails(w) == "sendfail" \in Faults /\ Return(w, "send")

SendUpsert(w) ==
  /\ pc[w] = "upsert"
  /\ \/ /\ told' = [told EXCEPT ![w][Head(todo[w])] =
                      IF Online(cur[w]) THEN "online" ELSE "unavailable"]
        /\ Goto(w, "entities") /\ UNCHANGED ret
     \/ SendFails(w) /\ UNCHANGED told
  /\ UNCHANGED <<worldVars, subVars, ids, todo, cur, saw, lastOnline, ctxDone, got, observed>>

\* ... and then its 16 entities.
SendEntities(w) ==
  /\ pc[w] = "entities"
  /\ \/ Goto(w, IF w \in subs THEN "changed" ELSE "compare") /\ UNCHANGED ret
     \/ SendFails(w)
  /\ UNCHANGED <<worldVars, subVars, ids, todo, cur, saw, lastOnline, ctxDone, viewVars>>

\* The status that later changes are compared with is read again.
RememberOnline(w) ==
  /\ pc[w] = "compare"
  /\ lastOnline' = [lastOnline EXCEPT ![w][Head(todo[w])] = Online(cur[w])]
  /\ todo' = [todo EXCEPT ![w] = Tail(@)]
  /\ Goto(w, "snap")
  /\ UNCHANGED <<worldVars, subVars, ids, cur, saw, ctxDone, ret, viewVars>>

Subscribe(w) ==
  /\ pc[w] = "snap" /\ todo[w] = <<>>
  /\ subs' = subs \cup {w}
  /\ todo' = [todo EXCEPT ![w] = ids[w]]
  /\ Goto(w, "sync")
  /\ UNCHANGED <<worldVars, queue, ids, cur, saw, lastOnline, ctxDone, ret, viewVars>>

\* syncAll: one device after the other, each for as long as its command takes.
SyncAll(w) ==
  /\ pc[w] = "sync"
  /\ IF todo[w] = <<>>
     THEN Goto(w, "loop") /\ UNCHANGED todo
     ELSE \/ Device(w, Head(todo[w])) # None /\ Goto(w, "syncing") /\ UNCHANGED todo
          \/ Device(w, Head(todo[w])) = None /\ todo' = [todo EXCEPT ![w] = Tail(@)] /\ UNCHANGED pc
  /\ UNCHANGED <<worldVars, subVars, ids, cur, saw, lastOnline, ctxDone, ret, viewVars>>

SyncReturns(w) ==
  /\ pc[w] = "syncing"
  /\ todo' = [todo EXCEPT ![w] = Tail(@)]
  /\ Goto(w, "sync")
  /\ UNCHANGED <<worldVars, subVars, ids, cur, saw, lastOnline, ctxDone, ret, viewVars>>

-----------------------------------------------------------------------------
(* The select of the loop: a random one of the cases that are ready. *)

OnlyOnTick(w) == pc[w] = "settle" /\ ctxDone[w]    \* mutant: no such case in the outer select
Noticed(w)    == pc[w] \in {"loop", "settle"} /\ ctxDone[w]

ContextEnds(w) ==
  /\ Noticed(w)
  /\ Return(w, "ctx")
  /\ UNCHANGED <<worldVars, subVars, ids, todo, cur, saw, lastOnline, ctxDone, viewVars>>

Tick(w, label) ==
  /\ pc[w] = "loop"
  /\ Goto(w, label)
  /\ todo' = [todo EXCEPT ![w] = ids[w]]
  /\ UNCHANGED <<worldVars, subVars, ids, cur, saw, lastOnline, ctxDone, ret, viewVars>>

PollTick(w) == Tick(w, "request")
SyncTick(w) == Tick(w, "sync")

\* A message is forwarded; when the stream refuses it, it is gone.
Forward(w) ==
  /\ pc[w] = "loop" /\ queue[w] # <<>>
  /\ queue' = [queue EXCEPT ![w] = Tail(@)]
  /\ \/ got' = [got EXCEPT ![w] = Append(@, Head(queue[w]))]
     \/ "sendfail" \in Faults /\ UNCHANGED got
  /\ UNCHANGED <<worldVars, subs, watchVars, told, observed>>

\* reqFrame: only a legacy board is asked for a frame.
NotAsked(h) == FALSE                       \* mutant: no board is polled
NeedsPoll(h) == h # None /\ ~v1[h] /\ ~dead[h]

RequestFrame(w) ==
  /\ pc[w] = "request"
  /\ IF todo[w] = <<>>
     THEN Goto(w, "settle") /\ UNCHANGED <<todo, polled>>
     ELSE /\ LET h == Device(w, Head(todo[w])) IN
             IF NeedsPoll(h) THEN polled' = [polled EXCEPT ![h] = TRUE] ELSE UNCHANGED polled
          /\ todo' = [todo EXCEPT ![w] = Tail(@)]
          /\ UNCHANGED pc
  /\ UNCHANGED <<driverVars, opened, v1, full, sensor, dead, pubVars, subVars, ids, cur, saw,
                 lastOnline, ctxDone, ret, viewVars>>

\* The 200 ms in which an answer may come.
Settle(w) ==
  /\ pc[w] = "settle"
  /\ todo' = [todo EXCEPT ![w] = ids[w]]
  /\ Goto(w, "check")
  /\ UNCHANGED <<worldVars, subVars, ids, cur, saw, lastOnline, ctxDone, ret, viewVars>>

OnlyGood(w, online) == ~lastOnline[w][Head(todo[w])] /\ online   \* mutant: going offline is no news
Changed(w, online)  == lastOnline[w][Head(todo[w])] # online

Check(w) ==
  /\ pc[w] = "check"
  /\ IF todo[w] = <<>>
     THEN Goto(w, "loop") /\ UNCHANGED <<cur, saw, observed>>
     ELSE LET h == Device(w, Head(todo[w])) IN
          /\ cur' = [cur EXCEPT ![w] = h]
          /\ observed' = [observed EXCEPT ![w][Head(todo[w])] = FALSE]
          /\ saw' = [saw EXCEPT ![w] = Online(h)]
          /\ Goto(w, IF Changed(w, Online(h)) THEN "upsert" ELSE "report")
  /\ UNCHANGED <<worldVars, subVars, ids, todo, lastOnline, ctxDone, ret, told, got>>

\* After the snapshot: the status that Check saw is the one to compare with.
RememberChange(w) ==
  /\ pc[w] = "changed"
  /\ lastOnline' = [lastOnline EXCEPT ![w][Head(todo[w])] = saw[w]]
  /\ Goto(w, "report")
  /\ UNCHANGED <<worldVars, subVars, ids, todo, cur, saw, ctxDone, ret, viewVars>>

\* emitObservations and emitDiagnostic, for a board that was online; they look
\* again, and errors of the stream are ignored.
StateOnly(w) == saw[w] /\ Online(cur[w]) /\ full[cur[w]] # "never"  \* mutant: no legacy branch
Reports(w)   == saw[w] /\ Online(cur[w])

Report(w) ==
  /\ pc[w] = "report"
  /\ \/ Reports(w) /\ observed' = [observed EXCEPT ![w][Head(todo[w])] = TRUE]
     \/ (~Reports(w) \/ "sendfail" \in Faults) /\ UNCHANGED observed
  /\ todo' = [todo EXCEPT ![w] = Tail(@)]
  /\ Goto(w, "check")
  /\ UNCHANGED <<worldVars, subVars, ids, cur, saw, lastOnline, ctxDone, ret, told, got>>

Unsubscribe(w) ==
  /\ pc[w] = "leave"
  /\ subs' = subs \ {w}
  /\ Goto(w, "end")
  /\ UNCHANGED <<worldVars, queue, ids, todo, cur, saw, lastOnline, ctxDone, ret, viewVars>>

\* The consumer leaves, or its connection breaks.
Cancel(w) ==
  /\ "cancel" \in Faults /\ ~ctxDone[w] /\ pc[w] # "end"
  /\ ctxDone' = [ctxDone EXCEPT ![w] = TRUE]
  /\ UNCHANGED <<worldVars, subVars, pc, ids, todo, cur, saw, lastOnline, ret, viewVars>>

\* The steps that hand a message to the consumer, and the steps between them.
Sends(w) == SendUpsert(w) \/ SendEntities(w) \/ Report(w)
Computes(w) ==
  \/ Watch(w) \/ ResolveIds(w) \/ SnapLookup(w) \/ RememberOnline(w) \/ Subscribe(w)
  \/ SyncAll(w) \/ SyncReturns(w) \/ RequestFrame(w) \/ Settle(w) \/ Check(w)
  \/ RememberChange(w) \/ Unsubscribe(w)
Selects(w) == ContextEnds(w) \/ PollTick(w) \/ SyncTick(w) \/ Forward(w)

\* Every Watch has returned.
Quiet == (\A w \in Watches : pc[w] = "end") /\ UNCHANGED vars

Next ==
  \/ \E w \in Watches : Sends(w) \/ Computes(w) \/ Selects(w) \/ Cancel(w)
  \/ \E h \in Handles : \/ OpenDevice(h) \/ HelloLine(h) \/ StateLine(h) \/ SensorLine(h) \/ Lapse(h) \/ Dies(h)
                        \/ EventLine(h) \/ PushEvent(h)
  \/ \E k \in Keys : PushProgress(k) \/ CloseDevice(k)
  \/ Initialize \/ Shutdown \/ Quiet

Spec == Init /\ [][Next]_vars

(***************************************************************************)
(* The Driver's own goroutines are scheduled, a command that syncAll sends *)
(* returns (CallsReturn of StcbCommand), and a select that finds the       *)
(* context done again and again takes that case at last, since it picks at *)
(* random.  A stream.Send whose context is done returns.  Nothing is       *)
(* assumed of a consumer whose context is not.                             *)
(***************************************************************************)
Fairness ==
  /\ \A w \in Watches : /\ WF_vars(Computes(w)) /\ SF_vars(ContextEnds(w))
                        /\ WF_vars(ctxDone[w] /\ Sends(w))
  /\ \A h \in Handles : WF_vars(PushEvent(h))

FairSpec == Spec /\ Fairness

\* The consumer takes what it is sent, both tickers fire again and again, and a
\* legacy board answers when it is polled.
LiveSpec ==
  /\ FairSpec
  /\ \A w \in Watches : WF_vars(Sends(w)) /\ SF_vars(PollTick(w)) /\ SF_vars(Forward(w))
  /\ \A h \in Handles : WF_vars(SensorLine(h))

-----------------------------------------------------------------------------
(* Properties. *)

\* A stream gets the events and the progress of its own instance and of its own
\* devices only, each once, in the order they were published, and never before
\* the snapshot of their device, although RX loops, commands and several streams
\* publish and read at the same time (driver.go:269, driver.go:315, driver.go:651).
EventsInOrder ==
  \A w \in Watches :
    /\ \A i, j \in DOMAIN got[w] : i < j => got[w][i].n < got[w][j].n
    /\ \A i \in DOMAIN got[w] :
         /\ got[w][i].key.inst = InstOf[w] /\ got[w][i].key.dev \in Watched(w)
         /\ told[w][got[w][i].key.dev] # "none"

\* Nothing is left behind: a Watch that has returned, for whatever reason, has no
\* subscription (driver.go:693-694).
NothingLeftBehind ==
  \A w \in Watches : pc[w] = "end" => w \notin subs

\* The RX loop of a board is never held up by a stream: whatever the consumers
\* do, an event that was parsed is published (driver.go:324-328).  The RX loop
\* also delivers the ACKs, so a stuck one would fail every command of the board.
RxNeverStuck == \A h \in Handles : event[h] ~> ~event[h]

\* A Watch whose context is done returns, even if its consumer had stopped
\* reading, while it syncs, and with a full channel (driver.go:712-724).
WatchReturns == \A w \in Watches : ctxDone[w] ~> pc[w] = "end"

\* In the loop of w, device d being online or not for good.
Steady(w, d, v) == w \in subs /\ d \in Watched(w) /\ Online(Device(w, d)) = v
Label(v) == IF v THEN "online" ELSE "unavailable"
Agrees(w, d) == pc[w] = "loop" => told[w][d] = Label(lastOnline[w][d])

\* The stream learns every lasting change of the status of a device, closed and
\* reopened ones included, as long as what Watch compares with is what it told
\* (driver.go:725-733).
StatusSettles ==
  \A w \in Watches, d \in DevIds, v \in BOOLEAN :
    (<>[]Steady(w, d, v) /\ <>[]Agrees(w, d)) => <>[](told[w][d] = Label(v))

\* The observations of a board that stays online keep coming, whichever protocol
\* it talks and whatever was told of its status (driver.go:734-737).
ObservationsFlow ==
  \A w \in Watches, d \in DevIds :
    <>[]Steady(w, d, TRUE) => []<>(observed[w][d])

\* A running legacy board is polled and so comes online, again after every lapse
\* (driver.go:703-710).
LegacyComesOnline ==
  \A w \in Watches, d \in DevIds, h \in Handles :
    <>[](w \in subs /\ d \in Watched(w) /\ Device(w, d) = h /\ ~dead[h] /\ Firmware[h] = "legacy" /\ ~v1[h])
      => []<>(Online(h))

\* A board whose frames are fresh is reported online, one whose frames are not
\* is reported unavailable (device_status_test.go:13).
StatusFollowsFreshness ==
  \A w \in Watches, d \in DevIds, v \in BOOLEAN :
    <>[]Steady(w, d, v) => <>[](told[w][d] = Label(v))
=============================================================================
