------------------------------ MODULE StcbLines ------------------------------
(***************************************************************************)
(* The bytes between the driver and one board: the RX loop that cuts them  *)
(* into lines (plugin/device.go: rxLoop) and what handleLine makes of each *)
(* line, with the parsers of StcbCodec; and one command on its way out,    *)
(* with the encoders of StcbEncode and the check of its id, until the      *)
(* board's answer is back at the waiter.  How commands share a board, time *)
(* out and lose replies is StcbCommand's.                                  *)
(*                                                                         *)
(* External: the board writes lines of its own at any time and answers a   *)
(* command with the id that it reads in it, up to the next colon.          *)
(***************************************************************************)
EXTENDS StcbCodec, StcbEncode

CONSTANTS
  Tokens,       \* what a text is made of
  Requests,     \* Requests[a]: requests of action a
  Ids,          \* the ids of requests
  BoardTexts,   \* what the board writes by itself, ends of line included
  IdLen,        \* the id is cut to this length (code: 11 bytes)
  FloodLimit,   \* code: 200 bytes
  MaxChunk,     \* what one Read returns at most (code: 256 bytes)
  Chunks,       \* bound: Read returns this many bytes, or all that are there
  Plain,        \* bound: the request that goes with each of Ids; the others go
  PlainId,      \* with this id, on a device that has heard nothing yet
  MaxTexts,     \* bound: texts the board writes, its answer included
  None

ASSUME BoundsAssumption == /\ IdLen \in Nat \ {0} /\ MaxChunk \in Nat \ {0}
                           /\ FloodLimit \in Nat /\ MaxTexts \in Nat /\ Chunks \subseteq 1..MaxChunk

ASSUME TextsAssumption ==
  /\ {LF, "CR", ":", "ACK", "ERR", "ok", "badarg"} \subseteq Tokens
  /\ BoardTexts \subseteq Seq(Tokens) /\ Ids \subseteq Seq(Tokens) /\ PlainId \in Seq(Tokens)

\* None is no answer and no verdict.
ASSUME NoneAssumption ==
  /\ None \notin Seq(Tokens) /\ None \notin [id : Seq(Tokens), ok : BOOLEAN]
  /\ None \notin [accepted : BOOLEAN, due : BOOLEAN, promised : BOOLEAN, plain : BOOLEAN, fits : BOOLEAN, since : Nat]

ASSUME RequestsAssumption == IsRequest(Plain) /\ \A a \in DOMAIN Requests : \A r \in Requests[a] : IsRequest(r)

VARIABLES
  wire, buf,                          \* bytes on their way to rxLoop, and its buffer
  v1, full, sensor, diag, events,     \* device: what handleLine keeps and publishes
  waiter, reply,                      \* the id that waits, and what its channel holds
  stream, handled, texts, answer,     \* history: bytes and lines so far, the board's answer
  verdict                             \* history: what became of the request, and when it came

view == <<v1, full, sensor, diag, events, reply>>
vars == <<wire, buf, view, waiter, stream, handled, texts, answer, verdict>>

Init ==
  /\ wire = <<>> /\ buf = <<>>
  /\ v1 = FALSE /\ full = None /\ sensor = None /\ diag = FALSE /\ events = <<>>
  /\ waiter = None /\ reply = None
  /\ stream = <<>> /\ handled = <<>> /\ texts = 0 /\ answer = None /\ verdict = None

BoardSends(text) == wire' = wire \o text /\ stream' = stream \o text

-----------------------------------------------------------------------------
(* The way out. *)

WireId(id) == IF Len(id) > IdLen THEN SubSeq(id, 1, IdLen) ELSE id

NoColonCheck(id) == id # <<>> /\ ToSet(id) \cap {"CR", LF, NUL} = {}      \* mutant: a colon passes
IdOk(id)         == id # <<>> /\ ToSet(id) \cap {":", "CR", LF, NUL} = {}

\* The id that the board finds in the command line.
IdRead(id) == Cut3(Cut(<<"CMD", ":">> \o id \o <<":", "verb", "CR", LF>>, LF)[1], ":")[2]

\* A command is refused, or its waiter is registered and the board answers.
Execute(r, id) ==
  /\ verdict = None /\ texts < MaxTexts
  /\ verdict' = [accepted |-> Accepts(r), due |-> Due(r), promised |-> Contract(r), plain |-> AsWritten(r),
                 fits |-> AllFit(r), since |-> Len(handled)]
  /\ IF Accepts(r) /\ r.proto = "v1" /\ IdOk(WireId(id))
     THEN /\ waiter' = WireId(id)
          /\ \E word \in {<<"ACK", ":">>, <<"ERR", ":">>}, detail \in {"ok", "badarg"} :
               /\ answer' = word \o IdRead(WireId(id)) \o <<":", detail, "CR">>
               /\ BoardSends(answer' \o <<LF>>)
          /\ texts' = texts + 1
     ELSE UNCHANGED <<waiter, answer, wire, stream, texts>>
  /\ UNCHANGED <<buf, view, handled>>

Speak ==
  /\ texts < MaxTexts
  /\ texts' = texts + 1
  /\ \E text \in BoardTexts : BoardSends(text)
  /\ UNCHANGED <<buf, view, waiter, handled, answer, verdict>>

-----------------------------------------------------------------------------
(* The way in. *)

IsV1Line(line) ==
  \/ line[1] = "HELLO:stcb-full:v1"
  \/ IsFullState(line) \/ IsDeviceAck(line) \/ IsEvent(line) \/ IsDiagnostic(line)

\* A full state also settles that the board speaks Protocol v1.
StateOnly(d, line)  == [d EXCEPT !.full = FullState(line)]     \* mutant: the protocol is forgotten
StoreState(d, line) == [d EXCEPT !.full = FullState(line), !.v1 = TRUE]

\* What a line of Protocol v1 does to the device d.  The sending of a reply does
\* not block: a full channel drops it.
HandleV1(d, line) ==
  CASE line[1] = "HELLO:stcb-full:v1" -> [d EXCEPT !.v1 = TRUE]
    [] IsFullState(line)  -> StoreState(d, line)
    [] IsDeviceAck(line)  -> IF waiter # None /\ DeviceAck(line).id = waiter /\ d.reply = None
                             THEN [d EXCEPT !.reply = DeviceAck(line)] ELSE d
    [] IsEvent(line)      -> [d EXCEPT !.events = Append(@, EventEntity(EventBody(line)))]
    [] IsDiagnostic(line) -> [d EXCEPT !.diag = TRUE]

HandleSensor(d, line) == IF IsSensor(line) THEN [d EXCEPT !.sensor = Sensor(line)] ELSE d

\* handleLine: a V frame is looked for only in a line that is nothing else.
SensorFirst(d, line) ==                           \* mutant: the legacy parser comes first
  IF line = <<>> THEN d ELSE IF IsSensor(line) THEN HandleSensor(d, line)
  ELSE IF IsV1Line(line) THEN HandleV1(d, line) ELSE d
HandleLine(d, line) ==
  IF line = <<>> THEN d ELSE IF IsV1Line(line) THEN HandleV1(d, line) ELSE HandleSensor(d, line)

\* What has no end of line and is longer than FloodLimit is dropped.
EagerFlood(rest) == IF Places(rest, LF) = {} /\ Len(rest) >= FloodLimit THEN <<>> ELSE rest   \* mutant: one byte early
Flood(rest)      == IF Places(rest, LF) = {} /\ Len(rest) > FloodLimit THEN <<>> ELSE rest

\* One Read, when no line is left in the buffer.
Read ==
  /\ Places(buf, LF) = {}
  /\ \E n \in Chunks \cup {Len(wire)} :
       /\ n \in 1..MaxChunk /\ n <= Len(wire)
       /\ wire' = SubSeq(wire, n + 1, Len(wire))
       /\ buf' = Flood(buf \o SubSeq(wire, 1, n))
  /\ UNCHANGED <<view, waiter, stream, handled, texts, answer, verdict>>

\* One line of the buffer; the mutex of the device is free between two of them.
\* The history keeps its text and where in the stream it ended.
TakeLine ==
  /\ Places(buf, LF) # {}
  /\ LET p == Cut(buf, LF)
         d == HandleLine([v1 |-> v1, full |-> full, sensor |-> sensor, diag |-> diag,
                          events |-> events, reply |-> reply], Clean(p[1]))
     IN /\ buf' = Flood(p[2])
        /\ handled' = Append(handled, [text |-> p[1], at |-> Len(stream) - Len(wire) - Len(p[2])])
        /\ v1' = d.v1 /\ full' = d.full /\ sensor' = d.sensor /\ diag' = d.diag
        /\ events' = d.events /\ reply' = d.reply
  /\ UNCHANGED <<wire, waiter, stream, texts, answer, verdict>>

Quiet == wire = <<>> /\ Places(buf, LF) = {} /\ UNCHANGED vars

Next ==
  \/ \E id \in Ids : Execute(Plain, id)
  \/ stream = <<>> /\ \E a \in DOMAIN Requests : \E r \in Requests[a] : Execute(r, PlainId)
  \/ Speak \/ Read \/ TakeLine \/ Quiet

Spec == Init /\ [][Next]_vars

-----------------------------------------------------------------------------
(* Properties. *)

Ranges == [key \in Fields |->
  CASE key \in Adcs -> 0..1023 [] key \in Bits -> 0..1 [] key = "navkey" -> 0..6 [] key = "led" -> 0..255]

TypeOK ==
  /\ {wire, buf, stream} \subseteq Seq(Tokens) /\ handled \in Seq([text : Seq(Tokens), at : Nat])
  /\ texts \in 0..MaxTexts /\ {v1, diag} \subseteq BOOLEAN
  /\ full # None => v1 /\ DOMAIN full = {"clock", "value"} /\ DOMAIN full.value = Fields
  /\ sensor # None => sensor \in Seq(Hexadecimal) /\ Len(sensor) = 25
  /\ Places(buf, LF) = {} => Len(buf) <= FloodLimit

\* Where line k begins in the stream, and what the parsers are given of it.
From(k) == IF k = 1 THEN 1 ELSE handled[k - 1].at + 1
Said(k) == Clean(handled[k].text)

\* Whatever the sizes of the reads, every line that was ended has been handled,
\* once and in order, or is in the buffer; and it was handled whole when it is
\* within the limit, and otherwise from behind what a reset dropped: a reset
\* (device.go:115) never costs a line of ordinary length, nor the line after a
\* long one.
LinesComplete ==
  /\ \A k \in DOMAIN handled :
       LET at == handled[k].at IN
       /\ at \in From(k)..Len(stream) /\ stream[at] = LF
       /\ \A i \in From(k)..(at - 1) : stream[i] # LF
       /\ \E first \in From(k)..at :
            /\ handled[k].text = SubSeq(stream, first, at - 1)
            /\ first = From(k) \/ first - From(k) > FloodLimit
  /\ \A i \in From(Len(handled) + 1)..(Len(stream) - Len(wire) - Len(buf)) : stream[i] # LF

\* Line k acknowledges or refuses the command that waits.
Answers(k) == k > verdict.since /\ IsDeviceAck(Said(k)) /\ DeviceAck(Said(k)).id = waiter

\* An id that the encoder lets through comes back whole: when the board's answer
\* has been handled as a line of its own, the command that waits has got a reply,
\* and this one unless another line with its id came before (protocol_v1.go:175,
\* device.go:281).
IdsSurvive ==
  answer # None => \A k \in DOMAIN handled : (k > verdict.since /\ handled[k].text = answer) =>
    /\ reply # None /\ reply.id = waiter
    /\ (\A j \in DOMAIN handled : Answers(j) => j >= k) =>
         (reply.ok <=> answer[1] = "ACK" /\ answer[Len(answer) - 1] = "ok")

\* No full state is kept whose numbers the board cannot have measured: 10-bit
\* values, levels, a navigation key, a LED byte, and a clock within its upper
\* bounds (protocol_v1.go:38, protocol_v1.go:65).  The code lets a negative
\* number in the clock pass.
StoredInRange ==
  full # None =>
    /\ \A key \in Fields : full.value[key] \in Ranges[key]
    /\ full.clock[1] <= 23 /\ full.clock[2] <= 59 /\ full.clock[3] <= 59

\* Full states, events and measurements among the lines.  A line that a parser of
\* Protocol v1 takes is no measurement.
States   == {k \in DOMAIN handled : IsFullState(Said(k))}
Told     == {k \in DOMAIN handled : IsEvent(Said(k))}
Measured == {k \in DOMAIN handled : IsSensor(Said(k)) /\ ~IsV1Line(Said(k))}

\* What the device keeps and publishes is the latest of what the handled lines
\* say, each line read by the first parser that takes it: the digits of a V frame
\* inside an event, or inside a DIAG that parses, are no measurement
\* (device.go:130); a DIAG, ACK, STATE or EVENT line that its own parser refuses
\* is looked through for a V frame like any other.  And every event is published
\* once, in order.
ViewOfLines ==
  /\ IF States = {} THEN full = None
     ELSE \E k \in States : full = FullState(Said(k)) /\ \A j \in States : j <= k
  /\ IF Measured = {} THEN sensor = None
     ELSE \E k \in Measured : sensor = Sensor(Said(k)) /\ \A j \in Measured : j <= k
  /\ Len(events) = Cardinality(Told)
  /\ \A k \in Told : events[Cardinality({j \in Told : j <= k})] = EventEntity(EventBody(Said(k)))

\* Both encoders accept exactly the arguments that README.md:117-122 promises: a
\* missing, ill-typed or doubled argument is refused, and an explicit 0 is not.
\* The code departs from the README in two places, and nowhere else: a null in a
\* list is a 0 and a null for an optional argument is none (README.md:119 says that
\* a null is an error), and a note sequence may not be too long in all (music.go:86).
AcceptedPerContract ==
  verdict # None => /\ verdict.accepted <=> verdict.due
                    /\ verdict.plain => (verdict.accepted <=> verdict.promised)

\* What is sent for an accepted request is what the fields of the firmware can
\* carry, each note of a sequence too: the check of a sequence (music.go:55) lets
\* no note through that the encoder would refuse when the notes before it have
\* been played (protocol_v1.go:191).  The D that stops a legacy board is sent for
\* isp, and for a raw text that holds it, and for nothing else (README.md:114).
FramesFit == verdict # None /\ verdict.accepted => verdict.fits
=============================================================================
