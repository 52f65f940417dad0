--------------------------- MODULE CommandContract ---------------------------
(***************************************************************************)
(* What one board promises to the callers of Execute, without locks,       *)
(* bytes, replies or timers: the board performs things, and every call is  *)
(* reported once.  A failed call may still be performed, even later; a     *)
(* call reported SUCCEEDED has been performed whole.  A tone-sequence is   *)
(* either one native song or one unbroken run of notes, never both.  All   *)
(* this is promised to the calls in Own, those with an id that no other    *)
(* call uses; of the others only that they are reported once.              *)
(***************************************************************************)
EXTENDS Naturals, Sequences

CONSTANTS
  Calls, Kind, NoteCount, MaxNotes,
  Own         \* the calls to which the board's answers are told apart

VARIABLES
  performed,  \* what the board has carried out: a sequence of [call, idx]
  report      \* the outcome told to the caller: "none", "SUCCEEDED", "FAILED"

Unit(c, i) == [call |-> c, idx |-> i]
Has(c, i)  == \E k \in DOMAIN performed : performed[k] = Unit(c, i)

\* Nothing of call c has been performed yet.
Untouched(c) == \A k \in DOMAIN performed : performed[k].call # c

Init == performed = <<>> /\ report = [c \in Calls |-> "none"]

\* A single command, or the native song of a sequence.
PerformWhole(c) ==
  /\ Kind[c] # "notes" /\ Untouched(c)
  /\ performed' = Append(performed, Unit(c, 0))
  /\ UNCHANGED report

PerformFirstNote(c) ==
  /\ Kind[c] # "cmd" /\ Untouched(c)
  /\ performed' = Append(performed, Unit(c, 1))
  /\ UNCHANGED report

\* The next note follows its predecessor immediately.
PerformNextNote(c) ==
  \E i \in 1..NoteCount[c] :
    /\ i > 1 /\ performed # <<>>
    /\ performed[Len(performed)] = Unit(c, i - 1)
    /\ performed' = Append(performed, Unit(c, i))
    /\ UNCHANGED report

\* The board may carry out a frame of a call that shares its id at any time.
PerformShared(c) ==
  /\ c \notin Own
  /\ \E i \in 0..MaxNotes : performed' = Append(performed, Unit(c, i))
  /\ UNCHANGED report

Complete(c) ==
  \/ Kind[c] # "notes" /\ Has(c, 0)
  \/ Kind[c] # "cmd" /\ \A i \in 1..NoteCount[c] : Has(c, i)

Succeed(c) ==
  /\ report[c] = "none" /\ (c \in Own => Complete(c))
  /\ report' = [report EXCEPT ![c] = "SUCCEEDED"]
  /\ UNCHANGED performed

Fail(c) ==
  /\ report[c] = "none"
  /\ report' = [report EXCEPT ![c] = "FAILED"]
  /\ UNCHANGED performed

Next == \E c \in Calls : \/ PerformWhole(c) \/ PerformFirstNote(c) \/ PerformNextNote(c)
                         \/ PerformShared(c) \/ Succeed(c) \/ Fail(c)

Spec == Init /\ [][Next]_<<performed, report>>
=============================================================================
