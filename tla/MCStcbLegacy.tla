----------------------------- MODULE MCStcbLegacy -----------------------------
(***************************************************************************)
(* An instance of StcbLegacy for TLC: two commands and a stream that polls *)
(* the same board.                                                         *)
(***************************************************************************)
EXTENDS StcbLegacyInv

CONSTANTS c1, c2, w1

\* Fewer argument bytes than on the wire: a command can still be cut between two
\* arguments (L) and be completed by a foreign byte (T).
MCArgBytes == [l \in Letters |-> CASE l \in {"T", "B", "M", "N"} -> 1 [] l = "L" -> 2 [] OTHER -> 0]

Plain(a) == [action |-> a, valid |-> TRUE]
MCRequests == [c \in Calls |->
  IF c = c1 THEN {Plain("sync"), Plain("isp"), [action |-> "sync", valid |-> FALSE]}
  ELSE {Plain("led"), Plain("sensor"), Plain("diag"), [action |-> "raw", valid |-> TRUE, text |-> "D"]}]
=============================================================================
