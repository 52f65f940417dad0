--------------------------- MODULE StcbRegistryInv ---------------------------
(***************************************************************************)
(* Why the device table tells the truth: the inductive invariant of        *)
(* StcbRegistry.                                                           *)
(*                                                                         *)
(* A device has one owner at a time.  The request that opens it owns it    *)
(* while it holds devMu; then the table does; then the one request that    *)
(* took it out.  Only an owner opens or closes its port, and the key of a  *)
(* device that is being opened stays free in the table because nobody      *)
(* else gets devMu meanwhile.                                              *)
(***************************************************************************)
EXTENDS StcbRegistry

Op(t) == req[t].op

\* The steps of an OpenDevice between Lock and Unlock of devMu.
Holding == {"port", "timeout", "insert", "fail"}

\* Which handler runs which step, and what it knows there.
Control(t) ==
  /\ pc[t] # "idle" => req[t] \in Requests
  /\ pc[t] = "resolve" => Op(t) \in {"open", "discover"}
  /\ pc[t] \in {"report", "finish"} => Op(t) = "discover"
  /\ pc[t] = "lookup" => Op(t) \in {"open", "close", "execute"}
  /\ pc[t] \in Holding => Op(t) = "open"
  /\ pc[t] = "swap" => Op(t) = "shutdown"
  /\ pc[t] \in {"closing", "portclose"} => Op(t) \in {"close", "shutdown"}
  /\ (pc[t] = "lookup" /\ Op(t) = "open") \/ pc[t] \in Holding => Complete(asked[t])
  /\ resp[t] # "none" => pc[t] = "end" \/ (pc[t] = "finish" /\ resp[t] = "FOUND")
  /\ resp[t] = "FOUND" => Op(t) = "discover" /\ Complete(asked[t])

ControlInv == \A t \in Threads : Control(t)

\* devMu is held by the request that opens a port, for the key it found free.
LockInv ==
  /\ \A t \in Threads : pc[t] \in Holding =>
       /\ devMu = t
       /\ devices[Key(req[t], asked[t].dev)] = None
  /\ devMu # None => pc[devMu] \in Holding

\* The deviceConfig and instance that an OpenDevice asked for.
Asked(t) == [inst |-> req[t].inst, dev |-> asked[t].dev, port |-> asked[t].port, attr |-> asked[t].attr]

\* The device was opened with what its request asked for.
Made(h) == Op(h) = "open" /\ binding[h] = Asked(h) /\ Complete(asked[h])

\* A device that is being opened is nobody else's yet.
OpeningInv ==
  \A t \in Threads : pc[t] \in {"timeout", "insert"} => Made(t) /\ portOpen[t]

\* One in the table was handed over by a request that has returned.
TableInv ==
  \A k \in Keys : devices[k] # None => pc[devices[k]] = "end" /\ Made(devices[k])

\* So was one that left the table, and who took it out is closing it.
ClosingInv ==
  \A t \in Threads :
    /\ \A h \in toClose[t] : pc[h] = "end" /\ Made(h)
    /\ toClose[t] # {} => pc[t] \in {"closing", "portclose"}
    /\ pc[t] = "portclose" => target[t] \in toClose[t]

\* An OpenDevice that answered OK answered for a device that was handed over.
AnswerInv ==
  \A t \in Threads : (pc[t] = "end" /\ Op(t) = "open" /\ resp[t] = "OK") =>
    target[t] \in Threads /\ pc[target[t]] = "end"

OwnerInv == OpeningInv /\ TableInv /\ ClosingInv /\ AnswerInv

\* The devices in the table are finitely many, however many requests there are.
TableFinite == IsFiniteSet({h \in Threads : \E k \in Keys : devices[k] = h})

\* The inductive invariant of the device table.
RegistryInv == /\ TypeOK /\ ControlInv /\ LockInv /\ OwnerInv /\ TableFinite
               /\ NoPortLeaked /\ TableTruth /\ ClosesItsOwn /\ OpenOkMeansBound
=============================================================================
