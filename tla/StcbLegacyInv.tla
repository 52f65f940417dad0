---------------------------- MODULE StcbLegacyInv ----------------------------
(***************************************************************************)
(* Why the answers of the legacy path are true: the inductive invariant of *)
(* StcbLegacy.                                                             *)
(*                                                                         *)
(* A call knows how far its frame is, and that is all it knows.  What the  *)
(* board has in its buffer follows from it only as long as nothing was     *)
(* lost and nobody else came between: then the buffer is empty, or holds   *)
(* what the one call that is halfway has sent.                             *)
(***************************************************************************)
EXTENDS StcbLegacy

Running == {"write", "pace", "wait", "claim"}

\* How far call c is.
CallOk(c) ==
  /\ pc[c] = "enter" => req[c] = None /\ sent[c] = 0 /\ told[c] = Nothing
  /\ pc[c] # "enter" => req[c] # None
  /\ pc[c] \in Running => ~Refused(req[c]) /\ told[c] = Nothing
  /\ pc[c] = "write" => sent[c] < Len(Frame(req[c])) /\ (req[c].action \in Paced \/ sent[c] = 0)
  /\ pc[c] = "pace" => sent[c] \in 1..Len(Frame(req[c])) /\ req[c].action \in Paced
  /\ pc[c] \in {"wait", "claim"} => sent[c] = Len(Frame(req[c]))
  /\ pc[c] = "claim" => HasFresh(c)
CallInv == \A c \in Calls : CallOk(c)

\* Somebody was asked to send the letter of a command without its arguments.
BareLetter == \E c \in Calls : req[c] # None /\ req[c].action = "raw" /\ ArgBytes[req[c].text] # 0

\* What the board has when all that c sent, and nothing else, has arrived.
Part(c) == [i \in 1..sent[c] |-> [by |-> c, ch |-> Frame(req[c])[i]]]

\* With nothing lost or mixed, the buffer of a board in service is in step.
InStep == \/ Halfway = {} /\ line = <<>>
          \/ \E c \in Calls : Halfway = {c} /\ line = Part(c)
LineInv == blame \/ BareLetter \/ isp \/ InStep

\* The bytes of a sync that had the line to itself, some perhaps lost.
OwnSync(c, buf) == \A i \in DOMAIN buf : buf[i] = [by |-> c, ch |-> IF i = 1 THEN "T" ELSE "x"]

\* While a sync has the line to itself, every frame since is of its own clock.
AloneInv ==
  \A c \in Calls \ disturbed : (pc[c] \in Running /\ req[c].action = "sync") =>
    /\ OwnSync(c, line) /\ (sent[c] = 0 => line = <<>>)
    /\ \A i \in DOMAIN air : air[i] = c
    /\ sensor.at > before[c] => sensor.clock = c

\* The inductive invariant of the legacy path.
LegacyInv == /\ TypeOK /\ CallInv /\ LineInv /\ AloneInv
             /\ ClaimsAreNew /\ SyncConfirmed /\ SentWhole /\ OnlyOverlapMisreads
=============================================================================
