---------------------------- MODULE MCStcbCommand ----------------------------
(***************************************************************************)
(* Instances of StcbCommand for TLC: up to three calls on one board.       *)
(***************************************************************************)
EXTENDS StcbCommandInv, TLC

CONSTANTS a, b, c

\* Plain commands only.
MCKindCmd   == [x \in Calls |-> "cmd"]
MCNoNotes   == [x \in Calls |-> 0]

\* Two sequences of two notes: a matches a native song, b matches none.
MCKindTwo   == [x \in Calls |-> IF x = a THEN "song" ELSE "notes"]
MCTwoEach   == [x \in Calls |-> 2]

\* Sequences that match no song, and a plain command b.
MCKindNotes == [x \in Calls |-> IF x = b THEN "cmd" ELSE "notes"]
MCTwoNotes  == [x \in Calls |-> IF x = b THEN 0 ELSE 2]

\* One wire id for each call, whatever the frame: the ids are long, so that
\* cutting them to 11 bytes removes the "-<n>" of the notes.
MCWireIds     == {"A", "B", "C"}
MCIdPerCall   == [f \in Frames |-> CASE f.call = a -> "A" [] f.call = b -> "B" [] OTHER -> "C"]

\* The syncs b and c of a Watch have one id, and the command a its own.
MCIdSyncs   == [f \in Frames |-> IF f.call = a THEN "A" ELSE "B"]

\* Ids that differ only after their 11th byte.
MCIdCollision == [f \in Frames |-> "A"]
=============================================================================
