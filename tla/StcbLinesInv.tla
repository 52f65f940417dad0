----------------------------- MODULE StcbLinesInv -----------------------------
(***************************************************************************)
(* Why no line is lost and every answer arrives: the inductive invariant   *)
(* of StcbLines.                                                           *)
(*                                                                         *)
(* The wire and the buffer are pieces of the stream, one behind the other; *)
(* what lies between the last line taken and the buffer was dropped, all   *)
(* of it more than FloodLimit bytes without an end of line.                *)
(***************************************************************************)
EXTENDS StcbLines

\* How many bytes have been read, and where the buffer begins in the stream.
Heard == Len(stream) - Len(wire)
Start == Heard - Len(buf) + 1

PlaceInv ==
  /\ Len(wire) + Len(buf) <= Len(stream)
  /\ \A i \in 1..Len(wire) : wire[i] = stream[Heard + i]
  /\ \A i \in 1..Len(buf) : buf[i] = stream[Start + i - 1]

\* What was dropped since the last line.
DroppedInv == Start = From(Len(handled) + 1) \/ Start - From(Len(handled) + 1) > FloodLimit

\* The channel of the waiter holds the first line that answers it, and the board
\* answers with the id that it was given.
ReplyInv ==
  /\ waiter = None => answer = None /\ reply = None
  /\ waiter # None =>
       /\ verdict # None /\ verdict.since \in 0..Len(handled)
       /\ waiter \in Seq(Tokens) /\ IdOk(waiter)
       /\ \E word \in {"ACK", "ERR"}, detail \in {"ok", "badarg"} :
            answer = <<word, ":">> \o waiter \o <<":", detail, "CR">>
       /\ \/ reply = None /\ \A k \in DOMAIN handled : ~Answers(k)
          \/ \E k \in DOMAIN handled : /\ Answers(k) /\ reply = DeviceAck(Said(k))
                                       /\ \A j \in DOMAIN handled : Answers(j) => k <= j

\* Nothing is published that no line said.
EventsInv == events \in Seq({EventEntity(EventBody(Said(k))) : k \in Told})

\* The inductive invariant of the lines of a board.
LinesInv == /\ TypeOK /\ PlaceInv /\ DroppedInv /\ ReplyInv /\ EventsInv
            /\ LinesComplete /\ IdsSurvive /\ StoredInRange /\ ViewOfLines
=============================================================================
