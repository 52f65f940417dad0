----------------------------- MODULE StcbWatchInv -----------------------------
(***************************************************************************)
(* Why EventsInOrder and NothingLeftBehind hold: the inductive invariant   *)
(* of StcbWatch.                                                           *)
(*                                                                         *)
(* A stream gets messages only through its channel, the channel is filled  *)
(* only while the stream is subscribed, and Watch subscribes when it has   *)
(* sent the snapshot of its last device.  What is in the channel is newer  *)
(* than all that was forwarded, since publish numbers and appends under    *)
(* one lock and Watch takes from the head.                                 *)
(***************************************************************************)
EXTENDS StcbWatch

\* Instance i has finitely many open devices.
OpenIds(i) == {d \in DevIds : table[[inst |-> i, dev |-> d]] # None}
TableInv == \A i \in Instances : IsFiniteSet(OpenIds(i))

\* The events in the hands of the RX loops will still find room.
Pending == {h \in Handles : event[h]}
RoomInv == IsFiniteSet(Pending) /\ published + Cardinality(Pending) <= MaxMessages

\* Where a stream is subscribed, and where it has a device in hand.
Before  == {"enter", "ids", "snap", "compare"}
Looping == {"sync", "syncing", "loop", "request", "settle", "check", "changed", "report", "leave"}
Holding == {"upsert", "entities", "compare", "syncing", "changed", "report"}

PhaseInv(w) ==
  /\ w \in subs => pc[w] \notin Before \cup {"end"}
  /\ w \notin subs => pc[w] \notin Looping
  /\ w \notin subs /\ pc[w] # "end" => queue[w] = <<>> /\ got[w] = <<>>
  /\ pc[w] \in Holding => todo[w] # <<>>

\* A stream that has subscribed was told of each of its devices; until then of
\* those that it has been through.
Told(w, d) == told[w][d] # "none"
Rest(w) == {todo[w][i] : i \in DOMAIN todo[w]}

ToldInv(w) ==
  /\ w \in subs \/ queue[w] # <<>> \/ got[w] # <<>> => \A d \in Watched(w) : Told(w, d)
  /\ w \notin subs /\ pc[w] \in {"snap", "upsert", "entities", "compare"} =>
       \A d \in Watched(w) : Told(w, d) \/ d \in Rest(w)
  /\ pc[w] \in {"entities", "compare"} => Told(w, Head(todo[w]))

\* Oldest first: what was forwarded, what waits in the channel, what is to come.
Increasing(s) == \A i, j \in DOMAIN s : i < j => s[i].n < s[j].n
Mine(w, s)    == \A i \in DOMAIN s : Subscribed(w, s[i].key)

OrderInv(w) ==
  /\ Increasing(got[w]) /\ Increasing(queue[w])
  /\ \A i \in DOMAIN got[w], j \in DOMAIN queue[w] : got[w][i].n < queue[w][j].n
  /\ \A i \in DOMAIN got[w] : got[w][i].n <= published
  /\ \A j \in DOMAIN queue[w] : queue[w][j].n <= published
  /\ Mine(w, got[w]) /\ Mine(w, queue[w])

\* The inductive invariant of the streams.
WatchInv == /\ TypeOK /\ TableInv /\ RoomInv
            /\ \A w \in Watches : PhaseInv(w) /\ ToldInv(w) /\ OrderInv(w)
=============================================================================
