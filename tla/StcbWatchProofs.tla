--------------------------- MODULE StcbWatchProofs ---------------------------
(***************************************************************************)
(* Theorems about StcbWatch, for every set of streams, of instances, of    *)
(* device ids and of handles, every request and every capacity.            *)
(***************************************************************************)
EXTENDS StcbWatchInv, FiniteSetTheorems, SequenceTheorems, TLAPS

\* A key of a stream, and a message, are what they should be.
LEMMA KeyFacts ==
  /\ \A w \in Watches, d \in DevIds : Key(w, d) \in Keys
  /\ \A k \in Keys, n \in 1..MaxMessages : [key |-> k, n |-> n] \in Messages
  BY WatchAssumption DEF WatchAssumption, Key, Keys, Messages

\* What deviceIDsFor returns.
LEMMA IdsType ==
  ASSUME TypeOK, TableInv, NEW w \in Watches, NEW found \in DeviceIdsFor(w)
  PROVE  found \in Seq(DevIds)
<1> DEFINE S == {d \in DevIds : Device(w, d) # None}
<1>1. CASE found = Asked[w]
  BY <1>1, WatchAssumption DEF WatchAssumption
<1>2. CASE found = <<Default[InstOf[w]]>> /\ Default[InstOf[w]] # NoDev
  BY <1>2, WatchAssumption DEF WatchAssumption
<1>3. CASE found \in Sorted(S)
  <2>1. S = OpenIds(InstOf[w]) /\ InstOf[w] \in Instances
    BY WatchAssumption DEF WatchAssumption, OpenIds, Device, Key
  <2>2. Cardinality(S) \in Nat
    BY <2>1, FS_CardinalityType DEF TableInv
  <2>3. S \subseteq DevIds
    OBVIOUS
  <2> HIDE DEF S
  <2>4. found \in [1..Cardinality(S) -> S]
    BY <1>3 DEF Sorted
  <2>5. found \in [1..Cardinality(S) -> DevIds]
    BY <2>3, <2>4
  <2> QED
    BY <2>2, <2>5
<1> QED
  BY <1>1, <1>2, <1>3 DEF DeviceIdsFor

-----------------------------------------------------------------------------
(* The table of the driver and the room for events. *)

LEMMA TableInit == Init => TableInv /\ RoomInv
<1> SUFFICES ASSUME Init PROVE TableInv /\ RoomInv
  OBVIOUS
<1>1. \A i \in Instances : OpenIds(i) = {}
  BY DEF Init, OpenIds, Keys
<1>2. Pending = {}
  BY DEF Init, Pending
<1>3. MaxMessages \in Nat /\ published = 0
  BY BoundsAssumption DEF BoundsAssumption, Init
<1> QED
  BY <1>1, <1>2, <1>3, FS_EmptySet DEF TableInv, RoomInv

LEMMA TableNext == TypeOK /\ TableInv /\ [Next]_vars => TableInv'
<1> SUFFICES ASSUME TypeOK, TableInv, [Next]_vars, NEW i \in Instances PROVE IsFiniteSet(OpenIds(i))'
  BY DEF TableInv
<1>0. IsFiniteSet(OpenIds(i))
  BY DEF TableInv
<1>1. ASSUME NEW h \in Handles, OpenDevice(h) PROVE IsFiniteSet(OpenIds(i))'
  <2>1. OpenIds(i)' \subseteq OpenIds(i) \cup {KeyOf[h].dev}
    BY <1>1 DEF OpenDevice, OpenIds, TypeOK
  <2>2. IsFiniteSet(OpenIds(i) \cup {KeyOf[h].dev})
    BY <1>0, FS_AddElement
  <2> QED
    BY <2>1, <2>2, FS_Subset
<1>2. ASSUME OpenIds(i)' \subseteq OpenIds(i) PROVE IsFiniteSet(OpenIds(i))'
  BY <1>0, <1>2, FS_Subset
<1>3. ASSUME NEW k \in Keys, CloseDevice(k) PROVE OpenIds(i)' \subseteq OpenIds(i)
  BY <1>3 DEF CloseDevice, OpenIds, TypeOK
<1>4. ASSUME Shutdown PROVE OpenIds(i)' \subseteq OpenIds(i)
  BY <1>4 DEF Shutdown, OpenIds, Keys
<1>5. ASSUME UNCHANGED table PROVE OpenIds(i)' \subseteq OpenIds(i)
  BY <1>5 DEF OpenIds
<1>6. ASSUME NEW h \in Handles,
             HelloLine(h) \/ StateLine(h) \/ SensorLine(h) \/ Lapse(h) \/ Dies(h) \/ EventLine(h) \/ PushEvent(h)
      PROVE  UNCHANGED table
  BY <1>6 DEF HelloLine, StateLine, SensorLine, Lapse, Dies, EventLine, PushEvent, driverVars
<1>7. ASSUME NEW w \in Watches, Sends(w) \/ Computes(w) \/ Selects(w) \/ Cancel(w) PROVE UNCHANGED table
  <2> USE DEF worldVars, driverVars
  <2>1. CASE Sends(w)
    BY <2>1 DEF Sends, SendUpsert, SendEntities, Report
  <2>2. CASE Selects(w) \/ Cancel(w)
    BY <2>2 DEF Selects, Cancel, ContextEnds, PollTick, SyncTick, Tick, Forward
  <2>3. CASE Computes(w)
    BY <2>3 DEF Computes, Watch, ResolveIds, SnapLookup, RememberOnline, Subscribe, SyncAll, SyncReturns,
                RequestFrame, Settle, Check, RememberChange, Unsubscribe
  <2> QED
    BY <1>7, <2>1, <2>2, <2>3
<1>8. ASSUME (\E k \in Keys : PushProgress(k)) \/ Initialize \/ Quiet \/ UNCHANGED vars PROVE UNCHANGED table
  BY <1>8 DEF PushProgress, Initialize, Quiet, vars, worldVars, driverVars
<1> QED
  BY <1>1, <1>2, <1>3, <1>4, <1>5, <1>6, <1>7, <1>8 DEF Next

\* A step of a stream neither publishes nor finds an event.
LEMMA StreamsPublishNothing ==
  ASSUME NEW w \in Watches, Sends(w) \/ Computes(w) \/ Selects(w) \/ Cancel(w)
  PROVE  UNCHANGED <<event, published>>
<1> USE DEF worldVars, pubVars
<1>1. CASE Sends(w)
  BY <1>1 DEF Sends, SendUpsert, SendEntities, Report
<1>2. CASE Selects(w) \/ Cancel(w)
  BY <1>2 DEF Selects, Cancel, ContextEnds, PollTick, SyncTick, Tick, Forward
<1>3. CASE Computes(w)
  BY <1>3 DEF Computes, Watch, ResolveIds, SnapLookup, RememberOnline, Subscribe, SyncAll, SyncReturns,
              RequestFrame, Settle, Check, RememberChange, Unsubscribe
<1> QED
  BY <1>1, <1>2, <1>3

LEMMA RoomNext == TypeOK /\ RoomInv /\ [Next]_vars => RoomInv' /\ published' \in 0..MaxMessages
<1> SUFFICES ASSUME TypeOK, RoomInv, [Next]_vars PROVE RoomInv' /\ published' \in 0..MaxMessages
  OBVIOUS
<1>0. /\ IsFiniteSet(Pending) /\ Cardinality(Pending) \in Nat /\ published \in Nat /\ MaxMessages \in Nat
      /\ published + Cardinality(Pending) <= MaxMessages
  <2>1. IsFiniteSet(Pending)
    BY DEF RoomInv
  <2> QED
    BY <2>1, FS_CardinalityType, BoundsAssumption DEF RoomInv, BoundsAssumption, TypeOK
<1>1. ASSUME NEW P, IsFiniteSet(P), Pending' = P, published' \in Nat, published' + Cardinality(P) <= MaxMessages
      PROVE  RoomInv' /\ published' \in 0..MaxMessages
  <2>1. Cardinality(P) \in Nat
    BY <1>1, FS_CardinalityType
  <2> QED
    BY <1>0, <1>1, <2>1 DEF RoomInv
<1>2. ASSUME UNCHANGED <<event, published>> PROVE RoomInv' /\ published' \in 0..MaxMessages
  <2>1. Pending' = Pending
    BY <1>2 DEF Pending
  <2> QED
    BY <1>0, <1>1, <1>2, <2>1
<1>3. ASSUME NEW h \in Handles, EventLine(h) PROVE RoomInv' /\ published' \in 0..MaxMessages
  <2>1. Pending' = Pending \cup {h} /\ h \notin Pending /\ published' = published
    BY <1>3 DEF EventLine, Pending, TypeOK
  <2>2. published + Cardinality(Pending) < MaxMessages
    BY <1>3 DEF EventLine, Room, Pending
  <2>3. IsFiniteSet(Pending \cup {h}) /\ Cardinality(Pending \cup {h}) = Cardinality(Pending) + 1
    BY <1>0, <2>1, FS_AddElement
  <2> QED
    BY <1>0, <1>1, <2>1, <2>2, <2>3
<1>4. ASSUME NEW h \in Handles, PushEvent(h) PROVE RoomInv' /\ published' \in 0..MaxMessages
  <2>1. Pending' = Pending \ {h} /\ h \in Pending /\ published' = published + 1
    BY <1>4 DEF PushEvent, Publish, Pending, TypeOK
  <2>2. IsFiniteSet(Pending \ {h}) /\ Cardinality(Pending \ {h}) = Cardinality(Pending) - 1
    BY <1>0, <2>1, FS_RemoveElement
  <2> QED
    BY <1>0, <1>1, <2>1, <2>2
<1>5. ASSUME NEW k \in Keys, PushProgress(k) PROVE RoomInv' /\ published' \in 0..MaxMessages
  <2>1. Pending' = Pending /\ published' = published + 1 /\ published + Cardinality(Pending) < MaxMessages
    BY <1>5 DEF PushProgress, Publish, Room, Pending
  <2> QED
    BY <1>0, <1>1, <2>1
<1>6. ASSUME NEW h \in Handles,
             OpenDevice(h) \/ HelloLine(h) \/ StateLine(h) \/ SensorLine(h) \/ Lapse(h) \/ Dies(h)
      PROVE  UNCHANGED <<event, published>>
  BY <1>6 DEF OpenDevice, HelloLine, StateLine, SensorLine, Lapse, Dies, pubVars
<1>7. ASSUME (\E k \in Keys : CloseDevice(k)) \/ Initialize \/ Shutdown \/ Quiet \/ UNCHANGED vars
      PROVE  UNCHANGED <<event, published>>
  BY <1>7 DEF CloseDevice, Initialize, Shutdown, Quiet, vars, worldVars, pubVars
<1> QED
  BY <1>2, <1>3, <1>4, <1>5, <1>6, <1>7, StreamsPublishNothing DEF Next

-----------------------------------------------------------------------------
(* Typing. *)

LEMMA TypeInit == Init => TypeOK
<1> SUFFICES ASSUME Init PROVE TypeOK
  OBVIOUS
<1>1. QueueCap \in Nat /\ MaxMessages \in Nat
  BY BoundsAssumption DEF BoundsAssumption
<1>2. /\ initialized \in BOOLEAN /\ shutdown \in BOOLEAN
      /\ table \in [Keys -> Handles \cup {None}]
      /\ opened \in [Handles -> BOOLEAN]
      /\ full \in [Handles -> Age] /\ sensor \in [Handles -> Age] /\ dead \in [Handles -> BOOLEAN]
      /\ polled \in [Handles -> BOOLEAN] /\ event \in [Handles -> BOOLEAN]
  BY DEF Init, Age
<1>5. v1 \in [Handles -> BOOLEAN]
  BY DEF Init
<1>3. /\ subs \subseteq Watches /\ published \in 0..MaxMessages
      /\ queue \in [Watches -> Seq(Messages)] /\ \A w \in Watches : Len(queue[w]) <= QueueCap
      /\ got \in [Watches -> Seq(Messages)]
      /\ ids \in [Watches -> Seq(DevIds)] /\ todo \in [Watches -> Seq(DevIds)]
  BY <1>1 DEF Init
<1>4. /\ pc \in [Watches -> PCs]
      /\ cur \in [Watches -> Handles \cup {None}]
      /\ saw \in [Watches -> BOOLEAN] /\ ctxDone \in [Watches -> BOOLEAN]
      /\ lastOnline \in [Watches -> [DevIds -> BOOLEAN]]
      /\ ret \in [Watches -> {"none", "unavailable", "precondition", "invalid", "ctx", "send"}]
      /\ told \in [Watches -> [DevIds -> {"none", "online", "unavailable"}]]
      /\ observed \in [Watches -> [DevIds -> BOOLEAN]]
  BY DEF Init, PCs
<1> QED
  BY <1>2, <1>3, <1>4, <1>5 DEF TypeOK

\* A publication keeps the channels in their type.
LEMMA PublishType ==
  ASSUME TypeOK, NEW k \in Keys, Publish(k), published + 1 \in 1..MaxMessages
  PROVE  queue' \in [Watches -> Seq(Messages)] /\ \A w \in Watches : Len(queue'[w]) <= QueueCap
<1> DEFINE msg == [key |-> k, n |-> published + 1]
<1>1. msg \in Messages
  BY KeyFacts
<1>2. QueueCap \in Nat
  BY BoundsAssumption DEF BoundsAssumption
<1> HIDE DEF msg
<1>3. queue' = [w \in Watches |-> IF w \in subs /\ Subscribed(w, k) /\ Len(queue[w]) < QueueCap
                                  THEN Append(queue[w], msg) ELSE queue[w]]
  BY DEF Publish, Enqueue, msg
<1>4. ASSUME NEW w \in Watches PROVE queue'[w] \in Seq(Messages) /\ Len(queue'[w]) <= QueueCap
  <2>1. queue[w] \in Seq(Messages) /\ Len(queue[w]) <= QueueCap
    BY DEF TypeOK
  <2>2. CASE queue'[w] = queue[w]
    BY <2>1, <2>2
  <2>3. CASE queue'[w] = Append(queue[w], msg) /\ Len(queue[w]) < QueueCap
    BY <1>1, <1>2, <2>1, <2>3
  <2> QED
    BY <1>3, <2>2, <2>3
<1> QED
  BY <1>3, <1>4

LEMMA ReturnType ==
  ASSUME TypeOK, NEW w \in Watches, NEW code \in {"unavailable", "precondition", "invalid", "ctx", "send"}, Return(w, code)
  PROVE  /\ pc' \in [Watches -> PCs]
         /\ ret' \in [Watches -> {"none", "unavailable", "precondition", "invalid", "ctx", "send"}]
  BY DEF Return, Goto, TypeOK, PCs

\* A device of a stream that was looked up.
LEMMA DeviceType ==
  ASSUME TypeOK, NEW w \in Watches, NEW d \in DevIds
  PROVE  Device(w, d) \in Handles \cup {None} /\ Online(Device(w, d)) \in BOOLEAN
  BY KeyFacts DEF Device, TypeOK, Online

\* The first of what is left to do.
LEMMA TodoType ==
  ASSUME TypeOK, NEW w \in Watches, todo[w] # <<>>
  PROVE  Head(todo[w]) \in DevIds /\ Tail(todo[w]) \in Seq(DevIds)
<1>1. todo[w] \in Seq(DevIds)
  BY DEF TypeOK
<1> QED
  BY <1>1

LEMMA WorldType ==
  ASSUME TypeOK, RoomInv,
         \/ Initialize \/ Shutdown \/ \E k \in Keys : PushProgress(k) \/ CloseDevice(k)
         \/ \E h \in Handles : \/ OpenDevice(h) \/ HelloLine(h) \/ StateLine(h) \/ SensorLine(h) \/ Lapse(h) \/ Dies(h)
                               \/ EventLine(h) \/ PushEvent(h),
         published' \in 0..MaxMessages
  PROVE  TypeOK'
<1> USE DEF driverVars, boardVars, pubVars, subVars, watchVars, viewVars
<1>1. CASE Initialize \/ Shutdown
  BY <1>1 DEF Initialize, Shutdown, TypeOK
<1>2. ASSUME NEW k \in Keys, CloseDevice(k) PROVE TypeOK'
  BY <1>2 DEF CloseDevice, TypeOK
<1>3. ASSUME NEW h \in Handles, OpenDevice(h) PROVE TypeOK'
  BY <1>3, HandlesAssumption DEF OpenDevice, TypeOK, HandlesAssumption
<1>4. ASSUME NEW h \in Handles, HelloLine(h) \/ Dies(h) PROVE TypeOK'
  BY <1>4 DEF HelloLine, Dies, TypeOK
<1>5. ASSUME NEW h \in Handles, StateLine(h) \/ SensorLine(h) \/ Lapse(h) PROVE TypeOK'
  <2>1. full' \in [Handles -> Age] /\ sensor' \in [Handles -> Age]
    BY <1>5 DEF StateLine, SensorLine, Lapse, TypeOK, Age
  <2>2. v1' \in [Handles -> BOOLEAN] /\ polled' \in [Handles -> BOOLEAN]
    BY <1>5 DEF StateLine, SensorLine, Lapse, TypeOK
  <2>3. UNCHANGED <<driverVars, opened, dead, pubVars, subVars, watchVars, viewVars>>
    BY <1>5 DEF StateLine, SensorLine, Lapse
  <2> QED
    BY <2>1, <2>2, <2>3 DEF TypeOK
<1>6. ASSUME NEW h \in Handles, EventLine(h) PROVE TypeOK'
  BY <1>6 DEF EventLine, TypeOK
<1>7. published \in Nat /\ (published' = published + 1 => published + 1 \in 1..MaxMessages)
  BY BoundsAssumption DEF TypeOK, BoundsAssumption
<1>8. ASSUME NEW h \in Handles, PushEvent(h) PROVE TypeOK'
  <2>1. KeyOf[h] \in Keys /\ Publish(KeyOf[h]) /\ published' = published + 1
    BY <1>8, HandlesAssumption DEF PushEvent, Publish, HandlesAssumption
  <2>2. queue' \in [Watches -> Seq(Messages)] /\ \A w \in Watches : Len(queue'[w]) <= QueueCap
    BY <1>7, <2>1, PublishType
  <2>3. event' \in [Handles -> BOOLEAN]
    BY <1>8 DEF PushEvent, TypeOK
  <2> QED
    BY <1>8, <2>2, <2>3 DEF PushEvent, TypeOK
<1>9. ASSUME NEW k \in Keys, PushProgress(k) PROVE TypeOK'
  <2>1. queue' \in [Watches -> Seq(Messages)] /\ \A w \in Watches : Len(queue'[w]) <= QueueCap
    BY <1>7, <1>9, PublishType DEF PushProgress, Publish
  <2> QED
    BY <1>9, <2>1 DEF PushProgress, TypeOK
<1> QED
  BY <1>1, <1>2, <1>3, <1>4, <1>5, <1>6, <1>8, <1>9

\* What is kept for a device of a stream is changed.
LEMMA UpdateType ==
  ASSUME NEW V, NEW f \in [Watches -> [DevIds -> V]], NEW w \in Watches, NEW d, NEW v \in V
  PROVE  [f EXCEPT ![w][d] = v] \in [Watches -> [DevIds -> V]]
<1>1. [f[w] EXCEPT ![d] = v] \in [DevIds -> V]
  OBVIOUS
<1> QED
  BY <1>1

LEMMA SendsType ==
  ASSUME TypeOK, NEW w \in Watches, PhaseInv(w), Sends(w)
  PROVE  TypeOK'
<1> USE DEF worldVars, driverVars, boardVars, pubVars, subVars
<1>1. Return(w, "send") => /\ pc' \in [Watches -> PCs]
                           /\ ret' \in [Watches -> {"none", "unavailable", "precondition", "invalid", "ctx", "send"}]
  BY ReturnType
<1>2. CASE SendUpsert(w)
  <2>1. /\ pc' \in [Watches -> PCs]
        /\ ret' \in [Watches -> {"none", "unavailable", "precondition", "invalid", "ctx", "send"}]
    BY <1>1, <1>2 DEF SendUpsert, SendFails, Goto, TypeOK, PCs
  <2>2. told' \in [Watches -> [DevIds -> {"none", "online", "unavailable"}]]
    <3> DEFINE said == IF Online(cur[w]) THEN "online" ELSE "unavailable"
    <3>1. said \in {"none", "online", "unavailable"}
      OBVIOUS
    <3> HIDE DEF said
    <3>2. told' = [told EXCEPT ![w][Head(todo[w])] = said] \/ told' = told
      BY <1>2 DEF SendUpsert, said
    <3>3. told \in [Watches -> [DevIds -> {"none", "online", "unavailable"}]]
      BY DEF TypeOK
    <3> QED
      BY <3>1, <3>2, <3>3, UpdateType
  <2> QED
    BY <1>2, <2>1, <2>2 DEF SendUpsert, TypeOK
<1>3. CASE SendEntities(w)
  <2>1. /\ pc' \in [Watches -> PCs]
        /\ ret' \in [Watches -> {"none", "unavailable", "precondition", "invalid", "ctx", "send"}]
    BY <1>1, <1>3 DEF SendEntities, SendFails, Goto, TypeOK, PCs
  <2> QED
    BY <1>3, <2>1 DEF SendEntities, TypeOK, viewVars
<1>4. CASE Report(w)
  <2>1. todo[w] # <<>>
    BY <1>4 DEF Report, PhaseInv, Holding
  <2>2. pc' \in [Watches -> PCs] /\ todo' \in [Watches -> Seq(DevIds)]
    BY <1>4, <2>1, TodoType DEF Report, Goto, TypeOK, PCs
  <2>3. observed' \in [Watches -> [DevIds -> BOOLEAN]]
    <3>1. observed' = [observed EXCEPT ![w][Head(todo[w])] = TRUE] \/ observed' = observed
      BY <1>4 DEF Report
    <3>2. observed \in [Watches -> [DevIds -> BOOLEAN]] /\ TRUE \in BOOLEAN
      BY DEF TypeOK
    <3>3. [observed EXCEPT ![w][Head(todo[w])] = TRUE] \in [Watches -> [DevIds -> BOOLEAN]]
      BY <3>2, UpdateType
    <3> QED
      BY <3>1, <3>2, <3>3
  <2> QED
    BY <1>4, <2>2, <2>3 DEF Report, TypeOK
<1> QED
  BY <1>2, <1>3, <1>4 DEF Sends

LEMMA SelectsType ==
  ASSUME TypeOK, NEW w \in Watches, Selects(w) \/ Cancel(w)
  PROVE  TypeOK'
<1> USE DEF worldVars, driverVars, boardVars, pubVars, subVars, viewVars
<1>1. CASE ContextEnds(w)
  <2>1. /\ pc' \in [Watches -> PCs]
        /\ ret' \in [Watches -> {"none", "unavailable", "precondition", "invalid", "ctx", "send"}]
    BY <1>1, ReturnType DEF ContextEnds
  <2> QED
    BY <1>1, <2>1 DEF ContextEnds, TypeOK
<1>2. CASE PollTick(w) \/ SyncTick(w)
  <2>1. pc' \in [Watches -> PCs] /\ todo' \in [Watches -> Seq(DevIds)]
    <3>1. PICK label \in {"request", "sync"} : Tick(w, label)
      BY <1>2 DEF PollTick, SyncTick
    <3>2. label \in PCs
      BY DEF PCs
    <3>3. pc' = [pc EXCEPT ![w] = label] /\ todo' = [todo EXCEPT ![w] = ids[w]]
      BY <3>1 DEF Tick, Goto
    <3> QED
      BY <3>2, <3>3 DEF TypeOK
  <2>2. UNCHANGED <<worldVars, subVars, ids, cur, saw, lastOnline, ctxDone, ret, viewVars>>
    BY <1>2 DEF PollTick, SyncTick, Tick
  <2> QED
    BY <2>1, <2>2 DEF TypeOK
<1>3. CASE Forward(w)
  <2>1. queue[w] \in Seq(Messages) /\ queue[w] # <<>> /\ got[w] \in Seq(Messages) /\ Len(queue[w]) <= QueueCap
    BY <1>3 DEF Forward, TypeOK
  <2>2. /\ Tail(queue[w]) \in Seq(Messages) /\ Len(Tail(queue[w])) <= QueueCap
        /\ Append(got[w], Head(queue[w])) \in Seq(Messages)
    BY <2>1, BoundsAssumption DEF BoundsAssumption
  <2>3. queue' \in [Watches -> Seq(Messages)] /\ \A v \in Watches : Len(queue'[v]) <= QueueCap
    BY <1>3, <2>2 DEF Forward, TypeOK
  <2>4. got' \in [Watches -> Seq(Messages)]
    BY <1>3, <2>2 DEF Forward, TypeOK
  <2> QED
    BY <1>3, <2>3, <2>4 DEF Forward, TypeOK, watchVars
<1>4. CASE Cancel(w)
  BY <1>4 DEF Cancel, TypeOK
<1> QED
  BY <1>1, <1>2, <1>3, <1>4 DEF Selects

LEMMA ComputesType ==
  ASSUME TypeOK, TableInv, NEW w \in Watches, PhaseInv(w), Computes(w)
  PROVE  TypeOK'
<1> USE DEF worldVars, driverVars, boardVars, pubVars, subVars, viewVars
<1>1. CASE Watch(w)
  <2>1. /\ pc' \in [Watches -> PCs]
        /\ ret' \in [Watches -> {"none", "unavailable", "precondition", "invalid", "ctx", "send"}]
    <3>1. CASE Return(w, "unavailable") \/ Return(w, "precondition")
      BY <3>1, ReturnType
    <3>2. CASE Goto(w, "ids") /\ UNCHANGED ret
      BY <3>2 DEF Goto, TypeOK, PCs
    <3> QED
      BY <1>1, <3>1, <3>2 DEF Watch
  <2> QED
    BY <1>1, <2>1 DEF Watch, TypeOK
<1>2. CASE ResolveIds(w)
  <2>1. PICK found \in DeviceIdsFor(w) :
          /\ ids' = [ids EXCEPT ![w] = found]
          /\ todo' = [todo EXCEPT ![w] = found]
          /\ Return(w, "invalid") \/ (Goto(w, "snap") /\ UNCHANGED ret)
    BY <1>2 DEF ResolveIds
  <2>2. ids' \in [Watches -> Seq(DevIds)] /\ todo' \in [Watches -> Seq(DevIds)]
    BY <2>1, IdsType DEF TypeOK
  <2>3. /\ pc' \in [Watches -> PCs]
        /\ ret' \in [Watches -> {"none", "unavailable", "precondition", "invalid", "ctx", "send"}]
    <3>1. CASE Return(w, "invalid")
      BY <3>1, ReturnType
    <3>2. CASE Goto(w, "snap") /\ UNCHANGED ret
      BY <3>2 DEF Goto, TypeOK, PCs
    <3> QED
      BY <2>1, <3>1, <3>2
  <2> QED
    BY <1>2, <2>2, <2>3 DEF ResolveIds, TypeOK
<1>3. CASE SnapLookup(w)
  <2>1. cur' \in [Watches -> Handles \cup {None}] /\ pc' \in [Watches -> PCs]
    BY <1>3, TodoType, DeviceType DEF SnapLookup, Goto, TypeOK, PCs
  <2> QED
    BY <1>3, <2>1 DEF SnapLookup, TypeOK
<1>4. CASE RememberOnline(w)
  <2>1. todo[w] # <<>> /\ Online(cur[w]) \in BOOLEAN
    BY <1>4 DEF RememberOnline, PhaseInv, Holding, Online, TypeOK
  <2>2. pc' \in [Watches -> PCs] /\ todo' \in [Watches -> Seq(DevIds)]
    BY <1>4, <2>1, TodoType DEF RememberOnline, Goto, TypeOK, PCs
  <2>3. lastOnline' \in [Watches -> [DevIds -> BOOLEAN]]
    BY <1>4, <2>1 DEF RememberOnline, TypeOK
  <2> QED
    BY <1>4, <2>2, <2>3 DEF RememberOnline, TypeOK
<1>5. CASE Subscribe(w)
  BY <1>5 DEF Subscribe, Goto, TypeOK, PCs
<1>6. CASE SyncAll(w)
  <2>1. pc' \in [Watches -> PCs] /\ todo' \in [Watches -> Seq(DevIds)]
    BY <1>6, TodoType DEF SyncAll, Goto, TypeOK, PCs
  <2> QED
    BY <1>6, <2>1 DEF SyncAll, TypeOK
<1>7. CASE SyncReturns(w)
  <2>1. todo[w] # <<>>
    BY <1>7 DEF SyncReturns, PhaseInv, Holding
  <2>2. pc' \in [Watches -> PCs] /\ todo' \in [Watches -> Seq(DevIds)]
    BY <1>7, <2>1, TodoType DEF SyncReturns, Goto, TypeOK, PCs
  <2> QED
    BY <1>7, <2>2 DEF SyncReturns, TypeOK
<1>8. CASE RequestFrame(w)
  <2>1. pc' \in [Watches -> PCs] /\ todo' \in [Watches -> Seq(DevIds)]
    BY <1>8, TodoType DEF RequestFrame, Goto, TypeOK, PCs
  <2>2. polled' \in [Handles -> BOOLEAN]
    BY <1>8 DEF RequestFrame, TypeOK
  <2> QED
    BY <1>8, <2>1, <2>2 DEF RequestFrame, TypeOK
<1>9. CASE Settle(w)
  BY <1>9 DEF Settle, Goto, TypeOK, PCs
<1>10. CASE Check(w)
  <2>1. pc' \in [Watches -> PCs]
    BY <1>10 DEF Check, Goto, TypeOK, PCs
  <2>2. /\ cur' \in [Watches -> Handles \cup {None}] /\ saw' \in [Watches -> BOOLEAN]
        /\ observed' \in [Watches -> [DevIds -> BOOLEAN]]
    <3>1. CASE todo[w] = <<>>
      BY <1>10, <3>1 DEF Check, TypeOK
    <3>2. CASE todo[w] # <<>>
      <4>1. Device(w, Head(todo[w])) \in Handles \cup {None} /\ Online(Device(w, Head(todo[w]))) \in BOOLEAN
        BY <3>2, TodoType, DeviceType
      <4>2. observed' = [observed EXCEPT ![w][Head(todo[w])] = FALSE]
        BY <1>10, <3>2 DEF Check
      <4>3. observed \in [Watches -> [DevIds -> BOOLEAN]] /\ FALSE \in BOOLEAN
        BY DEF TypeOK
      <4>4. observed' \in [Watches -> [DevIds -> BOOLEAN]]
        BY <4>2, <4>3, UpdateType
      <4>5. cur' \in [Watches -> Handles \cup {None}] /\ saw' \in [Watches -> BOOLEAN]
        BY <1>10, <3>2, <4>1 DEF Check, TypeOK
      <4> QED
        BY <4>4, <4>5
    <3> QED
      BY <3>1, <3>2
  <2> QED
    BY <1>10, <2>1, <2>2 DEF Check, TypeOK
<1>11. CASE RememberChange(w)
  BY <1>11 DEF RememberChange, Goto, TypeOK, PCs
<1>12. CASE Unsubscribe(w)
  BY <1>12 DEF Unsubscribe, Goto, TypeOK, PCs
<1> QED
  BY <1>1, <1>2, <1>3, <1>4, <1>5, <1>6, <1>7, <1>8, <1>9, <1>10, <1>11, <1>12 DEF Computes

-----------------------------------------------------------------------------
(* One stream. *)

Stream(w) == PhaseInv(w) /\ ToldInv(w) /\ OrderInv(w)

\* What a step leaves alone of stream w.
Same(w) ==
  /\ pc'[w] = pc[w] /\ ids'[w] = ids[w] /\ todo'[w] = todo[w] /\ told'[w] = told[w]
  /\ got'[w] = got[w] /\ queue'[w] = queue[w] /\ (w \in subs' <=> w \in subs)

LEMMA StreamInit == Init => \A w \in Watches : Stream(w)
<1> SUFFICES ASSUME Init, NEW w \in Watches PROVE Stream(w)
  OBVIOUS
<1>1. pc[w] = "enter" /\ queue[w] = <<>> /\ got[w] = <<>> /\ subs = {}
  BY DEF Init
<1>2. PhaseInv(w)
  BY <1>1 DEF PhaseInv, Before, Looping, Holding
<1>3. ToldInv(w)
  BY <1>1 DEF ToldInv
<1>4. OrderInv(w)
  BY <1>1 DEF OrderInv, Increasing, Mine
<1> QED
  BY <1>2, <1>3, <1>4 DEF Stream

LEMMA StreamKept ==
  ASSUME NEW w \in Watches, Stream(w), Same(w), published' = published
  PROVE  Stream(w)'
<1>1. PhaseInv(w)'
  BY DEF Stream, Same, PhaseInv
<1>2. ToldInv(w)'
  BY DEF Stream, Same, ToldInv, Told, Rest, Watched
<1>3. OrderInv(w)'
  BY DEF Stream, Same, OrderInv, Increasing, Mine, Subscribed, Watched
<1> QED
  BY <1>1, <1>2, <1>3 DEF Stream

\* A step of stream w leaves every other stream alone.
LEMMA StreamsApart ==
  ASSUME TypeOK, NEW w \in Watches, Sends(w) \/ Computes(w) \/ Selects(w) \/ Cancel(w), NEW v \in Watches \ {w}
  PROVE  Same(v)
<1> USE DEF TypeOK, Same, Goto, Return, subVars, watchVars, viewVars
<1>1. CASE Sends(w)
  <2>1. CASE SendUpsert(w)
    BY <2>1 DEF SendUpsert, SendFails
  <2>2. CASE SendEntities(w)
    BY <2>2 DEF SendEntities, SendFails
  <2>3. CASE Report(w)
    BY <2>3 DEF Report
  <2> QED
    BY <1>1, <2>1, <2>2, <2>3 DEF Sends
<1>2. CASE Selects(w) \/ Cancel(w)
  <2>1. CASE ContextEnds(w) \/ Cancel(w)
    BY <2>1 DEF ContextEnds, Cancel
  <2>2. CASE PollTick(w)
    BY <2>2 DEF PollTick, Tick
  <2>3. CASE SyncTick(w)
    BY <2>3 DEF SyncTick, Tick
  <2>4. CASE Forward(w)
    BY <2>4 DEF Forward
  <2> QED
    BY <1>2, <2>1, <2>2, <2>3, <2>4 DEF Selects
<1>3. CASE Computes(w)
  <2>1. CASE Watch(w)
    BY <2>1 DEF Watch
  <2>2. CASE ResolveIds(w)
    BY <2>2 DEF ResolveIds
  <2>3. CASE SnapLookup(w) \/ RememberOnline(w)
    BY <2>3 DEF SnapLookup, RememberOnline
  <2>4. CASE Subscribe(w) \/ Unsubscribe(w)
    BY <2>4 DEF Subscribe, Unsubscribe
  <2>5. CASE SyncAll(w)
    BY <2>5 DEF SyncAll
  <2>6. CASE SyncReturns(w) \/ Settle(w) \/ RememberChange(w)
    BY <2>6 DEF SyncReturns, Settle, RememberChange
  <2>7. CASE RequestFrame(w)
    BY <2>7 DEF RequestFrame
  <2>8. CASE Check(w)
    BY <2>8 DEF Check
  <2> QED
    BY <1>3, <2>1, <2>2, <2>3, <2>4, <2>5, <2>6, <2>7, <2>8 DEF Computes
<1> QED
  BY <1>1, <1>2, <1>3

\* A publication puts its message behind all others of a stream that wants it.
LEMMA PublishKeeps ==
  ASSUME TypeOK, NEW w \in Watches, Stream(w), NEW k \in Keys, Publish(k),
         UNCHANGED <<subs, watchVars, viewVars>>
  PROVE  Stream(w)'
<1> DEFINE msg == [key |-> k, n |-> published + 1]
<1> USE DEF watchVars, viewVars
<1>1. published \in Nat /\ published' = published + 1
  BY DEF TypeOK, Publish
<1>2. msg.key = k /\ msg.n = published + 1
  OBVIOUS
<1> HIDE DEF msg
<1>3. queue' = [v \in Watches |-> IF v \in subs /\ Subscribed(v, k) /\ Len(queue[v]) < QueueCap
                                  THEN Append(queue[v], msg) ELSE queue[v]]
  BY DEF Publish, Enqueue, msg
<1>4. /\ queue[w] \in Seq(Messages) /\ got[w] \in Seq(Messages)
      /\ \A i \in DOMAIN queue[w] : queue[w][i].n \in Nat
      /\ \A i \in DOMAIN got[w] : got[w][i].n \in Nat
  <2>1. \A m \in Messages : m.n \in Nat
    BY DEF Messages
  <2>2. queue[w] \in Seq(Messages) /\ got[w] \in Seq(Messages)
    BY DEF TypeOK
  <2> QED
    BY <2>1, <2>2
<1>5. CASE queue'[w] = queue[w]
  <2>1. PhaseInv(w)'
    BY <1>5 DEF Stream, PhaseInv
  <2>2. ToldInv(w)'
    BY <1>5 DEF Stream, ToldInv, Told, Rest, Watched
  <2>3. OrderInv(w)'
    BY <1>1, <1>4, <1>5 DEF Stream, OrderInv, Increasing, Mine, Subscribed, Watched
  <2> QED
    BY <2>1, <2>2, <2>3 DEF Stream
<1>6. CASE w \in subs /\ Subscribed(w, k) /\ queue'[w] = Append(queue[w], msg)
  <2>1. PhaseInv(w)'
    BY <1>6 DEF Stream, PhaseInv
  <2>2. ToldInv(w)'
    BY <1>6 DEF Stream, ToldInv, Told, Rest, Watched
  <2>3. /\ DOMAIN queue'[w] = DOMAIN queue[w] \cup {Len(queue[w]) + 1}
        /\ \A i \in DOMAIN queue[w] : queue'[w][i] = queue[w][i] /\ i < Len(queue[w]) + 1 /\ i \in Nat
        /\ queue'[w][Len(queue[w]) + 1] = msg /\ Len(queue[w]) \in Nat
    BY <1>4, <1>6
  <2>4. Increasing(queue[w])' /\ Increasing(got[w])'
    BY <1>1, <1>2, <1>4, <2>3 DEF Stream, OrderInv, Increasing
  <2>5. /\ \A i \in DOMAIN got'[w], j \in DOMAIN queue'[w] : got'[w][i].n < queue'[w][j].n
        /\ \A i \in DOMAIN got'[w] : got'[w][i].n <= published'
        /\ \A j \in DOMAIN queue'[w] : queue'[w][j].n <= published'
    BY <1>1, <1>2, <1>4, <2>3 DEF Stream, OrderInv
  <2>6. Mine(w, got[w])' /\ Mine(w, queue[w])'
    BY <1>2, <1>6, <2>3 DEF Stream, OrderInv, Mine, Subscribed, Watched
  <2>7. OrderInv(w)'
    BY <2>4, <2>5, <2>6 DEF OrderInv
  <2> QED
    BY <2>1, <2>2, <2>7 DEF Stream
<1> QED
  BY <1>3, <1>5, <1>6

\* What a stream was told of its devices is not taken back.
LEMMA ToldStays ==
  ASSUME TypeOK, NEW w \in Watches, Sends(w) \/ Computes(w) \/ Selects(w) \/ Cancel(w), NEW d \in DevIds, Told(w, d)
  PROVE  Told(w, d)'
<1> USE DEF viewVars
<1>1. CASE Sends(w)
  <2>1. CASE told' = told
    BY <2>1 DEF Told
  <2>2. CASE told' = [told EXCEPT ![w][Head(todo[w])] = IF Online(cur[w]) THEN "online" ELSE "unavailable"]
    <3>1. told[w] \in [DevIds -> {"none", "online", "unavailable"}]
      BY DEF TypeOK
    <3>2. told'[w] = [told[w] EXCEPT ![Head(todo[w])] = IF Online(cur[w]) THEN "online" ELSE "unavailable"]
      BY <2>2 DEF TypeOK
    <3>3. told'[w][d] = told[w][d] \/ told'[w][d] \in {"online", "unavailable"}
      BY <3>1, <3>2
    <3> QED
      BY <3>3 DEF Told
  <2> QED
    BY <1>1, <2>1, <2>2 DEF Sends, SendUpsert, SendEntities, Report
<1>2. CASE Selects(w) \/ Cancel(w)
  BY <1>2 DEF Selects, Cancel, ContextEnds, PollTick, SyncTick, Tick, Forward, Told
<1>3. CASE Computes(w)
  BY <1>3 DEF Computes, Watch, ResolveIds, SnapLookup, RememberOnline, Subscribe, SyncAll, SyncReturns,
              RequestFrame, Settle, Check, RememberChange, Unsubscribe, Told
<1> QED
  BY <1>1, <1>2, <1>3

\* The messages of a stream that does not forward one.
LEMMA OrderKept ==
  ASSUME NEW w \in Watches, OrderInv(w), published' = published, queue'[w] = queue[w], got'[w] = got[w],
         ids'[w] = ids[w] \/ (queue[w] = <<>> /\ got[w] = <<>>)
  PROVE  OrderInv(w)'
<1>1. CASE ids'[w] = ids[w]
  BY <1>1 DEF OrderInv, Increasing, Mine, Subscribed, Watched
<1>2. CASE queue[w] = <<>> /\ got[w] = <<>>
  BY <1>2 DEF OrderInv, Increasing, Mine
<1> QED
  BY <1>1, <1>2

\* The devices of a stream are ids, and one is done at a time.
LEMMA RestFacts ==
  ASSUME TypeOK, NEW w \in Watches
  PROVE  /\ Watched(w) \subseteq DevIds
         /\ todo[w] = <<>> => Rest(w) = {}
         /\ todo[w] # <<>> => \A d \in Rest(w) : d = Head(todo[w]) \/ \E i \in DOMAIN Tail(todo[w]) : Tail(todo[w])[i] = d
<1>1. ids[w] \in Seq(DevIds) /\ todo[w] \in Seq(DevIds)
  BY DEF TypeOK
<1>2. Watched(w) \subseteq DevIds
  BY <1>1 DEF Watched
<1>3. todo[w] = <<>> => Rest(w) = {}
  BY DEF Rest
<1>4. ASSUME todo[w] # <<>>, NEW i \in DOMAIN todo[w]
      PROVE  todo[w][i] = Head(todo[w]) \/ \E j \in DOMAIN Tail(todo[w]) : Tail(todo[w])[j] = todo[w][i]
  <2>1. CASE i = 1
    BY <1>1, <1>4, <2>1
  <2>2. CASE i # 1
    <3>1. i - 1 \in DOMAIN Tail(todo[w]) /\ Tail(todo[w])[i - 1] = todo[w][i]
      BY <1>1, <1>4, <2>2
    <3> QED
      BY <3>1
  <2> QED
    BY <2>1, <2>2
<1> QED
  BY <1>2, <1>3, <1>4 DEF Rest

\* A step within the loop, or within the first snapshot, that leads on with the
\* same devices and messages.
LEMMA StreamMoves ==
  ASSUME TypeOK, NEW w \in Watches, Stream(w), Sends(w) \/ Computes(w) \/ Selects(w) \/ Cancel(w),
         ids'[w] = ids[w], queue'[w] = queue[w], got'[w] = got[w], subs' = subs,
         PhaseInv(w)',
         pc'[w] \in {"entities", "compare"} => Told(w, Head(todo[w]))' ,
         (w \notin subs /\ pc'[w] \in {"snap", "upsert", "entities", "compare"}) =>
             \A d \in Watched(w) : Told(w, d)' \/ d \in Rest(w)'
  PROVE  Stream(w)'
<1>1. published' = published
  BY StreamsPublishNothing
<1>2. OrderInv(w)'
  BY <1>1, OrderKept DEF Stream
<1>3. \A d \in Watched(w) : Told(w, d) => Told(w, d)'
  BY RestFacts, ToldStays
<1>4. Watched(w)' = Watched(w)
  BY DEF Watched
<1>5. ToldInv(w)'
  BY <1>3, <1>4 DEF Stream, ToldInv
<1> QED
  BY <1>2, <1>5 DEF Stream

\* Where a return leads to.
LEMMA Returns ==
  ASSUME TypeOK, NEW w \in Watches, NEW code, Return(w, code), PhaseInv(w), subs' = subs, queue'[w] = queue[w], got'[w] = got[w]
  PROVE  pc'[w] \in {"leave", "end"} /\ PhaseInv(w)'
<1>1. pc'[w] = IF w \in subs THEN "leave" ELSE "end"
  BY DEF Return, Goto, TypeOK
<1> QED
  BY <1>1 DEF PhaseInv, Before, Looping, Holding

LEMMA SendsOwn ==
  ASSUME TypeOK, NEW w \in Watches, Stream(w), Sends(w)
  PROVE  Stream(w)'
<1> USE DEF subVars, viewVars
<1>0. PhaseInv(w) /\ ToldInv(w)
  BY DEF Stream
<1>1. CASE SendUpsert(w)
  <2>1. pc[w] = "upsert" /\ todo[w] # <<>> /\ Head(todo[w]) \in DevIds
    BY <1>0, <1>1, TodoType DEF SendUpsert, PhaseInv, Holding
  <2>2. ids' = ids /\ queue' = queue /\ got' = got /\ subs' = subs /\ todo' = todo
    BY <1>1 DEF SendUpsert
  <2>3. CASE Return(w, "send")
    BY <1>0, <1>1, <2>2, <2>3, Returns, StreamMoves
  <2>4. CASE /\ told' = [told EXCEPT ![w][Head(todo[w])] = IF Online(cur[w]) THEN "online" ELSE "unavailable"]
             /\ Goto(w, "entities")
    <3>1. pc'[w] = "entities"
      BY <2>4 DEF Goto, TypeOK
    <3>2. PhaseInv(w)'
      BY <1>0, <2>1, <2>2, <3>1 DEF PhaseInv, Before, Looping, Holding
    <3>3. Told(w, Head(todo[w]))'
      <4>1. told[w] \in [DevIds -> {"none", "online", "unavailable"}]
        BY DEF TypeOK
      <4>2. told'[w] = [told[w] EXCEPT ![Head(todo[w])] = IF Online(cur[w]) THEN "online" ELSE "unavailable"]
        BY <2>4 DEF TypeOK
      <4>3. told'[w][Head(todo[w])] \in {"online", "unavailable"}
        BY <2>1, <4>1, <4>2
      <4> QED
        BY <2>2, <4>3 DEF Told
    <3>4. ASSUME w \notin subs, NEW d \in Watched(w) PROVE Told(w, d)' \/ d \in Rest(w)'
      <4>1. Told(w, d) \/ d \in Rest(w)
        BY <1>0, <2>1, <3>4 DEF ToldInv
      <4>2. d \in DevIds
        BY <3>4, RestFacts
      <4> QED
        BY <2>2, <4>1, <4>2, ToldStays DEF Rest
    <3> QED
      BY <2>2, <3>2, <3>3, <3>4, StreamMoves
  <2> QED
    BY <1>1, <2>3, <2>4 DEF SendUpsert, SendFails
<1>2. CASE SendEntities(w)
  <2>1. ids' = ids /\ queue' = queue /\ got' = got /\ subs' = subs /\ todo' = todo /\ told' = told /\ pc[w] = "entities"
    BY <1>2 DEF SendEntities
  <2>2. CASE Return(w, "send")
    BY <1>0, <1>2, <2>1, <2>2, Returns, StreamMoves
  <2>3. CASE Goto(w, IF w \in subs THEN "changed" ELSE "compare")
    <3>1. pc'[w] = IF w \in subs THEN "changed" ELSE "compare"
      BY <2>3 DEF Goto, TypeOK
    <3>2. PhaseInv(w)'
      BY <1>0, <2>1, <3>1 DEF PhaseInv, Before, Looping, Holding
    <3>3. Told(w, Head(todo[w]))'
      BY <1>0, <2>1 DEF ToldInv, Told
    <3>4. w \notin subs => \A d \in Watched(w) : Told(w, d)' \/ d \in Rest(w)'
      BY <1>0, <2>1 DEF ToldInv, Told, Rest
    <3> QED
      BY <2>1, <3>2, <3>3, <3>4, StreamMoves
  <2> QED
    BY <1>2, <2>2, <2>3 DEF SendEntities, SendFails
<1>3. CASE Report(w)
  <2>1. ids' = ids /\ queue' = queue /\ got' = got /\ subs' = subs /\ pc[w] = "report" /\ pc'[w] = "check"
    BY <1>3 DEF Report, Goto, TypeOK
  <2>2. PhaseInv(w)'
    BY <1>0, <2>1 DEF PhaseInv, Before, Looping, Holding
  <2> QED
    BY <2>1, <2>2, StreamMoves
<1> QED
  BY <1>1, <1>2, <1>3 DEF Sends

LEMMA SelectsOwn ==
  ASSUME TypeOK, NEW w \in Watches, Stream(w), Selects(w) \/ Cancel(w)
  PROVE  Stream(w)'
<1> USE DEF subVars, viewVars, watchVars
<1>0. PhaseInv(w) /\ ToldInv(w) /\ OrderInv(w)
  BY DEF Stream
<1>1. CASE ContextEnds(w)
  <2>1. Return(w, "ctx") /\ ids' = ids /\ queue' = queue /\ got' = got /\ subs' = subs
    BY <1>1 DEF ContextEnds
  <2> QED
    BY <1>0, <2>1, Returns, StreamMoves
<1>2. ASSUME NEW label \in {"request", "sync"}, Tick(w, label) PROVE Stream(w)'
  <2>1. ids' = ids /\ queue' = queue /\ got' = got /\ subs' = subs /\ pc[w] = "loop" /\ pc'[w] = label
    BY <1>2 DEF Tick, Goto, TypeOK
  <2>2. PhaseInv(w)'
    BY <1>0, <1>2, <2>1 DEF PhaseInv, Before, Looping, Holding
  <2>3. PollTick(w) \/ SyncTick(w) \/ Selects(w) \/ Cancel(w)
    OBVIOUS
  <2> QED
    BY <1>2, <2>1, <2>2, StreamMoves
<1>3. CASE Forward(w)
  <2>1. /\ pc[w] = "loop" /\ queue[w] # <<>> /\ queue'[w] = Tail(queue[w])
        /\ got'[w] = Append(got[w], Head(queue[w])) \/ got'[w] = got[w]
        /\ UNCHANGED <<subs, pc, ids, todo, told>> /\ published' = published
    BY <1>3 DEF Forward, TypeOK, worldVars, pubVars
  <2>2. /\ queue[w] \in Seq(Messages) /\ got[w] \in Seq(Messages)
        /\ \A m \in Messages : m.n \in Nat
    <3>1. \A m \in Messages : m.n \in Nat
      BY DEF Messages
    <3> QED
      BY <3>1 DEF TypeOK
  <2>3. w \in subs
    BY <1>0, <2>1 DEF PhaseInv, Looping
  <2>4. PhaseInv(w)'
    BY <1>0, <2>1, <2>3 DEF PhaseInv
  <2>5. ToldInv(w)'
    BY <1>0, <2>1, <2>3 DEF ToldInv, Told, Rest, Watched
  <2>6. /\ DOMAIN Tail(queue[w]) = 1..(Len(queue[w]) - 1) /\ Len(queue[w]) \in Nat \ {0}
        /\ \A i \in DOMAIN Tail(queue[w]) : Tail(queue[w])[i] = queue[w][i + 1] /\ i + 1 \in DOMAIN queue[w] /\ i \in Nat \ {0}
        /\ Head(queue[w]) = queue[w][1] /\ 1 \in DOMAIN queue[w] /\ DOMAIN queue[w] = 1..Len(queue[w])
        /\ \A i \in DOMAIN queue[w] : queue[w][i].n \in Nat
    BY <2>1, <2>2
  <2>7. /\ Increasing(queue[w])'
        /\ \A i \in DOMAIN got[w], j \in DOMAIN queue'[w] : got[w][i].n < queue'[w][j].n
        /\ \A j \in DOMAIN queue'[w] : queue[w][1].n < queue'[w][j].n
        /\ \A j \in DOMAIN queue'[w] : queue'[w][j].n <= published'
        /\ Mine(w, queue[w])'
    BY <1>0, <2>1, <2>6 DEF OrderInv, Increasing, Mine, Subscribed, Watched
  <2>8. CASE got'[w] = got[w]
    <3>1. OrderInv(w)'
      BY <1>0, <2>1, <2>7, <2>8 DEF OrderInv, Increasing, Mine, Subscribed, Watched
    <3> QED
      BY <2>4, <2>5, <3>1 DEF Stream
  <2>9. CASE got'[w] = Append(got[w], Head(queue[w]))
    <3>1. /\ DOMAIN got'[w] = DOMAIN got[w] \cup {Len(got[w]) + 1}
          /\ \A i \in DOMAIN got[w] : got'[w][i] = got[w][i] /\ i < Len(got[w]) + 1 /\ i \in Nat
          /\ got'[w][Len(got[w]) + 1] = queue[w][1] /\ Len(got[w]) \in Nat
      BY <2>2, <2>6, <2>9
    <3>2. Increasing(got[w])'
      BY <1>0, <2>6, <3>1 DEF OrderInv, Increasing
    <3>3. \A i \in DOMAIN got'[w], j \in DOMAIN queue'[w] : got'[w][i].n < queue'[w][j].n
      BY <2>7, <3>1
    <3>4. \A i \in DOMAIN got'[w] : got'[w][i].n <= published'
      BY <1>0, <2>1, <2>6, <3>1 DEF OrderInv
    <3>5. Mine(w, got[w])'
      <4>1. \A i \in DOMAIN got[w] : Subscribed(w, got[w][i].key)
        BY <1>0 DEF OrderInv, Mine
      <4>2. Subscribed(w, queue[w][1].key)
        BY <1>0, <2>6 DEF OrderInv, Mine
      <4>3. \A i \in DOMAIN got'[w] : Subscribed(w, got'[w][i].key)
        BY <3>1, <4>1, <4>2
      <4>4. ids'[w] = ids[w]
        BY <2>1
      <4> QED
        BY <4>3, <4>4 DEF Mine, Subscribed, Watched
    <3>6. OrderInv(w)'
      BY <2>7, <3>2, <3>3, <3>4, <3>5 DEF OrderInv
    <3> QED
      BY <2>4, <2>5, <3>6 DEF Stream
  <2> QED
    BY <2>1, <2>8, <2>9
<1>4. CASE Cancel(w)
  <2>1. Same(w)
    BY <1>4 DEF Cancel, Same
  <2> QED
    BY <1>4, <2>1, StreamKept, StreamsPublishNothing
<1> QED
  BY <1>1, <1>2, <1>3, <1>4 DEF Selects, PollTick, SyncTick

LEMMA ComputesOwn ==
  ASSUME TypeOK, NEW w \in Watches, Stream(w), Computes(w)
  PROVE  Stream(w)'
<1> USE DEF subVars, viewVars
<1>0. PhaseInv(w) /\ ToldInv(w) /\ OrderInv(w)
  BY DEF Stream
<1>1. CASE Watch(w)
  <2>1. ids' = ids /\ queue' = queue /\ got' = got /\ subs' = subs /\ pc[w] = "enter"
    BY <1>1 DEF Watch
  <2>2. CASE Return(w, "unavailable") \/ Return(w, "precondition")
    BY <1>0, <1>1, <2>1, <2>2, Returns, StreamMoves
  <2>3. CASE Goto(w, "ids")
    <3>1. pc'[w] = "ids"
      BY <2>3 DEF Goto, TypeOK
    <3>2. PhaseInv(w)'
      BY <1>0, <2>1, <3>1 DEF PhaseInv, Before, Looping, Holding
    <3> QED
      BY <2>1, <3>1, <3>2, StreamMoves
  <2> QED
    BY <1>1, <2>2, <2>3 DEF Watch
<1>2. CASE ResolveIds(w)
  <2>1. PICK found \in DeviceIdsFor(w) :
          /\ ids' = [ids EXCEPT ![w] = found]
          /\ todo' = [todo EXCEPT ![w] = found]
          /\ Return(w, "invalid") \/ (Goto(w, "snap") /\ UNCHANGED ret)
    BY <1>2 DEF ResolveIds
  <2>2. /\ pc[w] = "ids" /\ w \notin subs /\ queue[w] = <<>> /\ got[w] = <<>>
        /\ UNCHANGED <<queue, got, subs, told>> /\ ids'[w] = found /\ todo'[w] = found
        /\ published' = published
    BY <1>0, <1>2, <2>1 DEF ResolveIds, PhaseInv, Before, TypeOK, worldVars, pubVars
  <2>3. pc'[w] \in {"end", "snap"}
    BY <2>1, <2>2 DEF Return, Goto, TypeOK
  <2>4. PhaseInv(w)'
    BY <2>2, <2>3 DEF PhaseInv, Before, Looping, Holding
  <2>5. ToldInv(w)'
    BY <2>2, <2>3 DEF ToldInv, Rest, Watched
  <2>6. OrderInv(w)'
    BY <1>0, <2>2, OrderKept
  <2> QED
    BY <2>4, <2>5, <2>6 DEF Stream
<1>3. CASE SnapLookup(w)
  <2>1. /\ ids' = ids /\ queue' = queue /\ got' = got /\ subs' = subs /\ todo' = todo /\ told' = told
        /\ pc[w] = "snap" /\ pc'[w] = "upsert" /\ todo[w] # <<>>
    BY <1>3 DEF SnapLookup, Goto, TypeOK
  <2>2. PhaseInv(w)'
    BY <1>0, <2>1 DEF PhaseInv, Before, Looping, Holding
  <2>3. w \notin subs => \A d \in Watched(w) : Told(w, d)' \/ d \in Rest(w)'
    BY <1>0, <2>1 DEF ToldInv, Told, Rest
  <2> QED
    BY <2>1, <2>2, <2>3, StreamMoves
<1>4. CASE RememberOnline(w)
  <2>1. /\ ids' = ids /\ queue' = queue /\ got' = got /\ subs' = subs /\ told' = told
        /\ pc[w] = "compare" /\ pc'[w] = "snap" /\ todo'[w] = Tail(todo[w])
    BY <1>4 DEF RememberOnline, Goto, TypeOK
  <2>2. todo[w] # <<>> /\ Told(w, Head(todo[w]))
    BY <1>0, <2>1 DEF PhaseInv, Holding, ToldInv
  <2>3. PhaseInv(w)'
    BY <1>0, <2>1 DEF PhaseInv, Before, Looping, Holding
  <2>4. ASSUME w \notin subs, NEW d \in Watched(w) PROVE Told(w, d)' \/ d \in Rest(w)'
    <3>1. Told(w, d) \/ d \in Rest(w)
      BY <1>0, <2>1, <2>4 DEF ToldInv
    <3>2. CASE Told(w, d) \/ d = Head(todo[w])
      BY <2>1, <2>2, <3>2 DEF Told
    <3>3. CASE \E i \in DOMAIN Tail(todo[w]) : Tail(todo[w])[i] = d
      BY <2>1, <3>3 DEF Rest
    <3> QED
      BY <2>2, <3>1, <3>2, <3>3, RestFacts
  <2> QED
    BY <2>1, <2>3, <2>4, StreamMoves
<1>5. CASE Subscribe(w)
  <2>1. /\ UNCHANGED <<ids, queue, got, told>> /\ w \in subs' /\ pc[w] = "snap" /\ pc'[w] = "sync" /\ todo[w] = <<>>
        /\ published' = published
    BY <1>5 DEF Subscribe, Goto, TypeOK, worldVars, pubVars
  <2>2. PhaseInv(w)'
    BY <1>0, <2>1 DEF PhaseInv, Before, Looping, Holding
  <2>3. w \notin subs
    BY <1>0, <2>1 DEF PhaseInv, Before
  <2>4. \A d \in Watched(w) : Told(w, d)
    BY <1>0, <2>1, <2>3, RestFacts DEF ToldInv
  <2>5. ToldInv(w)'
    BY <2>1, <2>4 DEF ToldInv, Told, Watched
  <2>6. OrderInv(w)'
    BY <1>0, <2>1, OrderKept
  <2> QED
    BY <2>2, <2>5, <2>6 DEF Stream
<1>6. ASSUME UNCHANGED <<ids, queue, got, subs>>, pc[w] \in Looping, pc'[w] \in Looping \cup {"upsert"},
             pc'[w] \in Holding => todo'[w] # <<>>
      PROVE  Stream(w)'
  <2>1. w \in subs
    BY <1>0, <1>6 DEF PhaseInv
  <2>2. PhaseInv(w)'
    BY <1>6, <2>1 DEF PhaseInv, Before, Looping
  <2>3. pc'[w] \notin {"entities", "compare"}
    BY <1>6 DEF Looping
  <2> QED
    BY <1>6, <2>1, <2>2, <2>3, StreamMoves
<1>7. CASE SyncAll(w) \/ SyncReturns(w)
  <2>1. pc[w] \in {"sync", "syncing"} /\ UNCHANGED <<ids, queue, got, subs>>
    BY <1>7 DEF SyncAll, SyncReturns
  <2>2. pc'[w] \in {"sync", "loop"} \/ (pc'[w] = "syncing" /\ todo'[w] # <<>>)
    BY <1>7 DEF SyncAll, SyncReturns, Goto, TypeOK
  <2> QED
    BY <1>6, <2>1, <2>2 DEF Looping, Holding
<1>8. CASE RequestFrame(w) \/ Settle(w)
  <2>1. pc[w] \in {"request", "settle"} /\ UNCHANGED <<ids, queue, got, subs>>
    BY <1>8 DEF RequestFrame, Settle
  <2>2. pc'[w] \in {"request", "settle", "check"}
    BY <1>8 DEF RequestFrame, Settle, Goto, TypeOK
  <2> QED
    BY <1>6, <2>1, <2>2 DEF Looping, Holding
<1>9. CASE Check(w)
  <2>1. pc[w] = "check" /\ UNCHANGED <<ids, queue, got, subs, todo>>
    BY <1>9 DEF Check
  <2>2. pc'[w] = "loop" \/ (pc'[w] \in {"upsert", "report"} /\ todo[w] # <<>>)
    <3>1. CASE todo[w] = <<>>
      BY <1>9, <3>1 DEF Check, Goto, TypeOK
    <3>2. CASE todo[w] # <<>>
      BY <1>9, <3>2 DEF Check, Goto, TypeOK
    <3> QED
      BY <3>1, <3>2
  <2> QED
    BY <1>6, <2>1, <2>2 DEF Looping, Holding
<1>10. CASE RememberChange(w)
  <2>1. pc[w] = "changed" /\ pc'[w] = "report" /\ UNCHANGED <<ids, queue, got, subs, todo>>
    BY <1>10 DEF RememberChange, Goto, TypeOK
  <2> QED
    BY <1>0, <1>6, <2>1 DEF Looping, Holding, PhaseInv
<1>11. CASE Unsubscribe(w)
  <2>1. /\ UNCHANGED <<ids, queue, got, told>> /\ w \notin subs' /\ pc[w] = "leave" /\ pc'[w] = "end"
        /\ published' = published
    BY <1>11 DEF Unsubscribe, Goto, TypeOK, worldVars, pubVars
  <2>2. PhaseInv(w)'
    BY <2>1 DEF PhaseInv, Before, Looping, Holding
  <2>3. w \in subs
    BY <1>0, <2>1 DEF PhaseInv, Looping
  <2>4. ToldInv(w)'
    BY <1>0, <2>1, <2>3 DEF ToldInv, Told, Watched
  <2>5. OrderInv(w)'
    BY <1>0, <2>1, OrderKept
  <2> QED
    BY <2>2, <2>4, <2>5 DEF Stream
<1> QED
  BY <1>1, <1>2, <1>3, <1>4, <1>5, <1>7, <1>8, <1>9, <1>10, <1>11 DEF Computes

-----------------------------------------------------------------------------
(* The theorems. *)

LEMMA WatchInvInit == Init => WatchInv
  BY TypeInit, TableInit, StreamInit DEF WatchInv, Stream

LEMMA WatchInvNext == WatchInv /\ [Next]_vars => WatchInv'
<1> SUFFICES ASSUME WatchInv, [Next]_vars PROVE WatchInv'
  OBVIOUS
<1>1. TypeOK /\ TableInv /\ RoomInv /\ \A w \in Watches : Stream(w)
  BY DEF WatchInv, Stream
<1>2. TableInv' /\ RoomInv' /\ published' \in 0..MaxMessages
  BY <1>1, TableNext, RoomNext
<1>3. SUFFICES TypeOK' /\ \A v \in Watches : Stream(v)'
  BY <1>2 DEF WatchInv, Stream
<1>4. ASSUME NEW w \in Watches, Sends(w) \/ Computes(w) \/ Selects(w) \/ Cancel(w)
      PROVE  TypeOK' /\ \A v \in Watches : Stream(v)'
  <2>1. TypeOK'
    BY <1>1, <1>4, SendsType, ComputesType, SelectsType DEF Stream
  <2>2. Stream(w)'
    BY <1>1, <1>4, SendsOwn, ComputesOwn, SelectsOwn
  <2>3. ASSUME NEW v \in Watches \ {w} PROVE Stream(v)'
    BY <1>1, <1>4, StreamsApart, StreamsPublishNothing, StreamKept
  <2> QED
    BY <2>1, <2>2, <2>3
<1>5. ASSUME NEW k \in Keys, Publish(k), UNCHANGED <<subs, watchVars, viewVars>>
      PROVE  \A v \in Watches : Stream(v)'
  BY <1>1, <1>5, PublishKeeps
<1>6. ASSUME UNCHANGED <<subVars, watchVars, viewVars, published>>
      PROVE  \A v \in Watches : Stream(v)'
  <2>1. ASSUME NEW v \in Watches PROVE Same(v)
    BY <1>6 DEF Same, subVars, watchVars, viewVars
  <2> QED
    BY <1>1, <1>6, <2>1, StreamKept
<1>7. ASSUME NEW h \in Handles,
             \/ OpenDevice(h) \/ HelloLine(h) \/ StateLine(h) \/ SensorLine(h) \/ Lapse(h) \/ Dies(h)
             \/ EventLine(h) \/ PushEvent(h)
      PROVE  TypeOK' /\ \A v \in Watches : Stream(v)'
  <2>1. TypeOK'
    BY <1>1, <1>2, <1>7, WorldType
  <2>2. CASE PushEvent(h)
    BY <1>5, <2>1, <2>2, HandlesAssumption DEF PushEvent, HandlesAssumption
  <2>3. CASE EventLine(h)
    BY <1>6, <2>1, <2>3 DEF EventLine
  <2>4. CASE OpenDevice(h) \/ HelloLine(h) \/ StateLine(h) \/ SensorLine(h) \/ Lapse(h) \/ Dies(h)
    BY <1>6, <2>1, <2>4 DEF OpenDevice, HelloLine, StateLine, SensorLine, Lapse, Dies, pubVars
  <2> QED
    BY <1>7, <2>2, <2>3, <2>4
<1>8. ASSUME NEW k \in Keys, PushProgress(k) \/ CloseDevice(k)
      PROVE  TypeOK' /\ \A v \in Watches : Stream(v)'
  <2>1. TypeOK'
    BY <1>1, <1>2, <1>8, WorldType
  <2>2. CASE PushProgress(k)
    BY <1>5, <2>1, <2>2 DEF PushProgress
  <2>3. CASE CloseDevice(k)
    BY <1>6, <2>1, <2>3 DEF CloseDevice, pubVars
  <2> QED
    BY <1>8, <2>2, <2>3
<1>9. CASE Initialize \/ Shutdown
  <2>1. TypeOK'
    BY <1>1, <1>2, <1>9, WorldType
  <2> QED
    BY <1>6, <1>9, <2>1 DEF Initialize, Shutdown, pubVars
<1>10. CASE UNCHANGED vars
  <2>1. TypeOK'
    BY <1>1, <1>10 DEF TypeOK, vars, worldVars, driverVars, boardVars, pubVars, subVars, watchVars, viewVars
  <2> QED
    BY <1>6, <1>10, <2>1 DEF vars, worldVars, pubVars
<1> QED
  BY <1>4, <1>7, <1>8, <1>9, <1>10 DEF Next, Quiet

\* The inductive invariant of the streams holds in every reachable state.
THEOREM WatchHolds == Spec => []WatchInv
<1>1. Init => WatchInv
  BY WatchInvInit
<1>2. WatchInv /\ [Next]_vars => WatchInv'
  BY WatchInvNext
<1> QED
  BY <1>1, <1>2, PTL DEF Spec

\* Every variable of the streams keeps its type; the channel of a subscription
\* never holds more than its capacity.
THEOREM WatchTyping == Spec => []TypeOK
<1>1. WatchInv => TypeOK
  BY DEF WatchInv
<1> QED
  BY <1>1, WatchHolds, PTL

\* A stream gets its own messages only, each once, in the order they were
\* published, and none before the snapshot of the device (driver.go:269,
\* driver.go:315, driver.go:651).
THEOREM EventsInOrderHolds == Spec => []EventsInOrder
<1>1. WatchInv => EventsInOrder
  <2> SUFFICES ASSUME WatchInv, NEW w \in Watches
               PROVE  /\ \A i, j \in DOMAIN got[w] : i < j => got[w][i].n < got[w][j].n
                      /\ \A i \in DOMAIN got[w] :
                           /\ got[w][i].key.inst = InstOf[w] /\ got[w][i].key.dev \in Watched(w)
                           /\ told[w][got[w][i].key.dev] # "none"
    BY DEF EventsInOrder
  <2>1. ToldInv(w) /\ OrderInv(w)
    BY DEF WatchInv
  <2>2. ASSUME NEW i \in DOMAIN got[w]
        PROVE  /\ got[w][i].key.inst = InstOf[w] /\ got[w][i].key.dev \in Watched(w)
               /\ told[w][got[w][i].key.dev] # "none"
    <3>1. got[w][i].key.inst = InstOf[w] /\ got[w][i].key.dev \in Watched(w)
      BY <2>1, <2>2 DEF OrderInv, Mine, Subscribed
    <3>2. got[w] # <<>>
      BY <2>2
    <3> QED
      BY <2>1, <3>1, <3>2 DEF ToldInv, Told
  <2> QED
    BY <2>1, <2>2 DEF OrderInv, Increasing
<1> QED
  BY <1>1, WatchHolds, PTL

\* A Watch that has returned has no subscription (driver.go:693-694).
THEOREM NothingLeftBehindHolds == Spec => []NothingLeftBehind
<1>1. WatchInv => NothingLeftBehind
  BY DEF WatchInv, PhaseInv, NothingLeftBehind
<1> QED
  BY <1>1, WatchHolds, PTL

=============================================================================
