------------------------------ MODULE StcbEncode ------------------------------
(***************************************************************************)
(* What the driver makes of the arguments of an action before it writes a  *)
(* byte (plugin/command.go: validateActionArgs and the legacy encoders;    *)
(* plugin/protocol_v1.go: encodeV1Command; plugin/music.go: notes), beside *)
(* the contract that README.md:117-122 states for the same arguments.      *)
(*                                                                         *)
(* The arguments of a request are JSON: shape says whether they are an     *)
(* object, null, the empty string or something else; an object maps keys   *)
(* to values.  A value is [t, n, l, z, s]: null, an int n, a list l of     *)
(* ints with nulls at the places z, a text, or anything else.  A text has  *)
(* its bytes in l, 0 to 9 for a digit, -2 for CR, LF, NUL, -3 for the      *)
(* letter D, -1 for any other, and is s when a word.  The notes of a tone  *)
(* sequence are a list of [hz, ms]; a note or a field of one that is null  *)
(* or missing is 0, which no rule admits.                                  *)
(*                                                                         *)
(* Not modelled: a key given twice, and keys that differ only in case (the *)
(* decoder takes them for one, the checks of validateActionArgs do not).   *)
(***************************************************************************)
EXTENDS Integers, Sequences, FiniteSets, SequencesExt

CONSTANTS MaxNotes, MaxTotal   \* of a tone-sequence (code: 64 notes, 60000 ms)
ASSUME SequenceAssumption == MaxNotes \in Nat \ {0} /\ MaxTotal \in Nat

\* The public actions with any JSON arguments; only an object has keys.
Actions == {"buzzer", "tone", "tone-sequence", "led", "display", "motor", "sync", "raw", "sensor", "diag", "isp"}
Note    == [hz: Int, ms: Int]

IsValue(v) ==
  /\ v.t = "int" => v.n \in Int
  /\ v.t # "int" => v.n = 0
  /\ v.t \in {"list", "text"} => v.l \in Seq(Int)
  /\ v.t = "notes" => v.l \in Seq(Note)
  /\ v.t \notin {"list", "text", "notes"} => v.l = <<>>
  /\ v.t = "list" => v.z \subseteq DOMAIN v.l
  /\ v.t # "list" => v.z = {}
  /\ v.t = "text" => (v.s = "" <=> v.l = <<>>)
  /\ v.t # "text" => v.s = ""

\* A request is a record of these fields, and so is each value.
IsRecord(r) ==
  r = [action |-> r.action, proto |-> r.proto, shape |-> r.shape,
       args |-> [k \in DOMAIN r.args |-> [t |-> r.args[k].t, n |-> r.args[k].n, l |-> r.args[k].l,
                                          z |-> r.args[k].z, s |-> r.args[k].s]]]

IsRequest(r) ==
  /\ IsRecord(r)
  /\ r.action \in Actions /\ r.proto \in {"v1", "legacy"}
  /\ r.shape \in {"object", "null", "empty", "other"}
  /\ IsFiniteSet(DOMAIN r.args) /\ (r.shape # "object" => DOMAIN r.args = {})
  /\ \A k \in DOMAIN r.args : IsValue(r.args[k])

\* How encoding/json fills a Go struct: a key that is absent or null leaves the
\* zero value, so does a null in a list, a value of another type is an error.
Given(r, k)   == k \in DOMAIN r.args /\ r.args[k].t # "null"
Zero(k)       == [t |-> "null", n |-> 0, l |-> <<>>, z |-> {}, s |-> ""]
Field(r, k)   == IF k \in DOMAIN r.args THEN r.args[k] ELSE Zero(k)
Filled(v)     == IF v.t = "list" THEN [i \in DOMAIN v.l |-> IF i \in v.z THEN 0 ELSE v.l[i]] ELSE v.l
Decodes(r, types) ==
  /\ r.shape \in {"object", "null"}
  /\ \A k \in DOMAIN types : Given(r, k) => r.args[k].t = types[k]

-----------------------------------------------------------------------------
(* validateActionArgs. *)

Required == [buzzer |-> {"freq", "duration"}, tone |-> {"frequency_hz", "duration_ms"}, motor |-> {"steps"}]
OneOf  == [led |-> {"mask", "pattern"}, display |-> {"digits", "codes", "mode"}]

NoteOk(note) == note.hz \in 1..4000 /\ note.ms \in 10..1200 /\ note.ms % 10 = 0

\* The note durations and the gaps between the notes.
TotalMs(notes, gap) == FoldLeft(LAMBDA sum, note : sum + note.ms, 0, notes) + gap * (Len(notes) - 1)

\* parseToneSequenceArgs; decodeStrictObject refuses unknown keys.
ToneSequenceOk(r) ==
  LET notes == Field(r, "notes").l
      gap   == Field(r, "gap_ms").n
  IN /\ DOMAIN r.args \subseteq {"notes", "gap_ms"} /\ Decodes(r, [notes |-> "notes", gap_ms |-> "int"])
     /\ Len(notes) \in 1..MaxNotes
     /\ gap \in 0..1000 /\ gap % 10 = 0
     /\ \A i \in DOMAIN notes : NoteOk(notes[i])
     /\ TotalMs(notes, gap) <= MaxTotal

Present(r, k) == k \in DOMAIN r.args            \* mutant: null is taken for a value
NonNull(r, k) == Given(r, k)

ValidateActionArgs(r) ==
  CASE r.action = "tone-sequence" -> ToneSequenceOk(r)
    [] r.action \in DOMAIN Required ->
         /\ r.shape = "object"
         /\ r.action = "tone" => Cardinality(DOMAIN r.args) = 2
         /\ \A k \in Required[r.action] : NonNull(r, k)
    [] r.action \in DOMAIN OneOf ->
         /\ r.shape = "object"
         /\ Cardinality(OneOf[r.action] \cap DOMAIN r.args) = 1
         /\ \A k \in OneOf[r.action] \cap DOMAIN r.args : NonNull(r, k)
    [] OTHER -> TRUE

-----------------------------------------------------------------------------
(* The frames.  A frame is [verb, args]: a verb of Protocol v1 or a legacy  *)
(* letter, and the numbers that follow it; a raw frame is its text.  No     *)
(* frame is Error.  Where the code writes the time of day, a sync frame has *)
(* no numbers and a T frame has four zeros.                                 *)

Error == [verb |-> "error", args |-> <<>>]
FrameIf(ok, verb, args) == IF ok THEN [verb |-> verb, args |-> args] ELSE Error

FreqTable     == <<500, 800, 1000, 1200, 1500, 2000, 2500, 3000>>
DurationTable == <<5, 10, 15, 18, 25, 40, 60, 90, 120>>

HHMM(l)   == Len(l) = 4 /\ (\A i \in 1..4 : l[i] \in 0..9) /\ 10 * l[1] + l[2] <= 23 /\ 10 * l[3] + l[4] <= 59
HHMMSS(l) == Len(l) = 6 /\ HHMM(SubSeq(l, 1, 4)) /\ l[5] \in 0..5 /\ l[6] \in 0..9

EightOf(l, values) == Len(l) = 8 /\ \A i \in DOMAIN l : l[i] \in values
Screens == {"clock", "date", "sensors", "io", "version"}

OneTooFar(p) == IF p = 9 THEN 255 ELSE 2 ^ p     \* mutant: a shift too far
LedMask(p)   == IF p = 9 THEN 255 ELSE IF p = 0 THEN 0 ELSE 2 ^ (p - 1)

\* What a field holds after decoding.
IntOf(r, k)  == Field(r, k).n
ListOf(r, k) == Filled(Field(r, k))
WordOf(r, k) == Field(r, k).s

\* encodeV1Command after its check of the id, action by action.
V1Tone(r) ==
  FrameIf(/\ Decodes(r, [frequency_hz |-> "int", duration_ms |-> "int"])
          /\ NoteOk([hz |-> IntOf(r, "frequency_hz"), ms |-> IntOf(r, "duration_ms")]),
          "beep", <<IntOf(r, "frequency_hz"), IntOf(r, "duration_ms") \div 10>>)

BuzzerOk(r) == /\ Decodes(r, [freq |-> "int", duration |-> "int"])
               /\ IntOf(r, "freq") \in 1..8 /\ IntOf(r, "duration") \in 0..8
V1Buzzer(r) ==
  IF BuzzerOk(r)
  THEN FrameIf(TRUE, "beep", <<FreqTable[IntOf(r, "freq")], DurationTable[IntOf(r, "duration") + 1]>>)
  ELSE Error

V1Led(r) ==
  IF ~Decodes(r, [mask |-> "int", pattern |-> "int"]) THEN Error
  ELSE IF Given(r, "mask") THEN FrameIf(IntOf(r, "mask") \in 0..255, "led", <<IntOf(r, "mask")>>)
  ELSE IF IntOf(r, "pattern") \in 0..9 THEN FrameIf(TRUE, "led", <<LedMask(IntOf(r, "pattern"))>>)
  ELSE Error

V1Display(r) ==
  IF ~Decodes(r, [digits |-> "list", codes |-> "list", mode |-> "text"]) THEN Error
  ELSE IF WordOf(r, "mode") # "" THEN FrameIf(WordOf(r, "mode") \in Screens, "display", <<>>)
  ELSE IF ListOf(r, "codes") # <<>> THEN FrameIf(EightOf(ListOf(r, "codes"), 0..25), "display", ListOf(r, "codes"))
  ELSE FrameIf(EightOf(ListOf(r, "digits"), 0..9), "display", ListOf(r, "digits"))

V1Motor(r) ==
  IF ~Decodes(r, [steps |-> "int"]) THEN Error
  ELSE IF IntOf(r, "steps") = 0 THEN FrameIf(TRUE, "motorstop", <<>>)
  ELSE FrameIf(IntOf(r, "steps") \in 1..4, "motor", <<100, 50 * IntOf(r, "steps")>>)

V1Sync(r) ==
  IF r.shape = "empty" THEN FrameIf(TRUE, "sync", <<>>)
  ELSE IF ~Decodes(r, [time |-> "text", hhmm |-> "text"]) THEN Error
  ELSE IF ListOf(r, "time") # <<>> THEN FrameIf(HHMMSS(ListOf(r, "time")), "sync", ListOf(r, "time"))
  ELSE IF ListOf(r, "hhmm") # <<>> THEN FrameIf(HHMM(ListOf(r, "hhmm")), "sync", ListOf(r, "hhmm"))
  ELSE FrameIf(TRUE, "sync", <<>>)

EncodeV1(r) ==
  IF ~ValidateActionArgs(r) THEN Error ELSE
  CASE r.action = "tone"    -> V1Tone(r)
    [] r.action = "buzzer"  -> V1Buzzer(r)
    [] r.action = "led"     -> V1Led(r)
    [] r.action = "display" -> V1Display(r)
    [] r.action = "motor"   -> V1Motor(r)
    [] r.action = "sync"    -> V1Sync(r)
    [] r.action = "sensor"  -> FrameIf(TRUE, "state", <<>>)
    [] r.action = "diag"    -> FrameIf(TRUE, "diag", <<>>)
    [] OTHER -> Error

\* encodeCommand, and the encoders it calls.
EncodeBuzzer(r) == FrameIf(BuzzerOk(r), "B", <<IntOf(r, "freq"), IntOf(r, "duration")>>)

EncodeLED(r) ==
  FrameIf(Decodes(r, [pattern |-> "int"]) /\ Given(r, "pattern") /\ IntOf(r, "pattern") \in 0..9,
          "L", <<IntOf(r, "pattern"), 0>>)

EncodeDisplay(r) ==
  FrameIf(Decodes(r, [digits |-> "list"]) /\ EightOf(ListOf(r, "digits"), 0..9), "N", ListOf(r, "digits"))

EncodeMotor(r) ==
  FrameIf(Decodes(r, [steps |-> "int"]) /\ IntOf(r, "steps") \in 0..4, "M", <<IntOf(r, "steps")>>)

EncodeSync(r) ==
  IF r.shape = "empty" THEN FrameIf(TRUE, "T", <<0, 0, 0, 0>>)
  ELSE IF ~Decodes(r, [hhmm |-> "text"]) THEN Error
  ELSE IF ListOf(r, "hhmm") = <<>> THEN FrameIf(TRUE, "T", <<0, 0, 0, 0>>)
  ELSE FrameIf(HHMM(ListOf(r, "hhmm")), "T", ListOf(r, "hhmm"))

EncodeRaw(r) ==
  FrameIf(/\ Decodes(r, [args |-> "text"]) /\ Len(ListOf(r, "args")) \in 1..64
          /\ -2 \notin ToSet(ListOf(r, "args")), "raw", ListOf(r, "args"))

EncodeLegacy(r) ==
  IF ~ValidateActionArgs(r) THEN Error ELSE
  CASE r.action = "buzzer"  -> EncodeBuzzer(r)
    [] r.action = "led"     -> EncodeLED(r)
    [] r.action = "display" -> EncodeDisplay(r)
    [] r.action = "motor"   -> EncodeMotor(r)
    [] r.action = "sync"    -> EncodeSync(r)
    [] r.action = "raw"     -> EncodeRaw(r)
    [] r.action = "sensor"  -> FrameIf(TRUE, "V", <<>>)
    [] r.action = "isp"     -> FrameIf(TRUE, "D", <<>>)
    [] OTHER -> Error

EncodeFrame(r) == IF r.proto = "v1" THEN EncodeV1(r) ELSE EncodeLegacy(r)

\* A tone-sequence is expanded to frames by the device, after its own check: each
\* note goes through the encoder as a tone.  (The verb that plays a built-in song
\* has a constant for its argument.)
Num(n) == [t |-> "int", n |-> n, l |-> <<>>, z |-> {}, s |-> ""]
NoteRequest(note) ==
  [action |-> "tone", proto |-> "v1", shape |-> "object",
   args |-> [frequency_hz |-> Num(note.hz), duration_ms |-> Num(note.ms)]]

Expanded(r) == r.proto = "v1" /\ r.action = "tone-sequence"
Accepts(r)  == IF Expanded(r) THEN ToneSequenceOk(r) ELSE EncodeFrame(r) # Error
Frames(r)   == IF Expanded(r) THEN {EncodeFrame(NoteRequest(note)) : note \in ToSet(Field(r, "notes").l)}
               ELSE {EncodeFrame(r)}

-----------------------------------------------------------------------------
(* The contract of README.md:117-122, read as rules on the values alone.    *)
(* An empty text for a time is an empty argument, as is null in place of    *)
(* the arguments of a sync; a null for a time is no valid time.             *)

Has(r, k, values)  == k \in DOMAIN r.args /\ r.args[k].t = "int" /\ r.args[k].n \in values
List(r, k, values) == /\ k \in DOMAIN r.args /\ r.args[k].t = "list" /\ r.args[k].z = {}
                      /\ Len(r.args[k].l) = 8 /\ \A i \in 1..8 : r.args[k].l[i] \in values
Only(r, k)         == \A c \in OneOf[r.action] \ {k} : c \notin DOMAIN r.args

Tens(first, last)  == {10 * n : n \in first..last}

TextGiven(r, k) == Given(r, k) /\ r.args[k].t = "text" /\ r.args[k].l # <<>>
Clocks  == {<<h \div 10, h % 10, m \div 10, m % 10>> : h \in 0..23, m \in 0..59}
Seconds == {<<s \div 10, s % 10>> : s \in 0..59}
TimeOf(l) == Len(l) = 6 /\ SubSeq(l, 1, 4) \in Clocks /\ <<l[5], l[6]>> \in Seconds

BuzzerArgs(r) == Has(r, "freq", 1..8) /\ Has(r, "duration", 0..8)
MotorArgs(r)  == Has(r, "steps", 0..4)
ToneArgs(r)   == /\ r.proto = "v1" /\ DOMAIN r.args = {"frequency_hz", "duration_ms"}
                 /\ Has(r, "frequency_hz", 1..4000)
                 /\ Has(r, "duration_ms", Tens(1, 120))
LedArgs(r)    == \/ r.proto = "v1" /\ Only(r, "mask") /\ Has(r, "mask", 0..255)
                 \/ Only(r, "pattern") /\ Has(r, "pattern", 0..9)

DisplayArgs(r) ==
  \/ Only(r, "digits") /\ List(r, "digits", 0..9)
  \/ r.proto = "v1" /\ Only(r, "codes") /\ List(r, "codes", 0..25)
  \/ r.proto = "v1" /\ Only(r, "mode") /\ TextGiven(r, "mode") /\ r.args["mode"].s \in Screens

NoteDue(note) == note.hz \in 1..4000 /\ note.ms \in Tens(1, 120)
NotesArgs(r) ==
  LET notes == Field(r, "notes").l IN
  /\ r.proto = "v1"
  /\ DOMAIN r.args \subseteq {"notes", "gap_ms"}
  /\ Field(r, "notes").t = "notes" /\ Len(notes) \in 1..MaxNotes
  /\ \A i \in DOMAIN notes : NoteDue(notes[i])
  /\ "gap_ms" \in DOMAIN r.args => Has(r, "gap_ms", Tens(0, 100))

SyncArgs(r) ==
  \/ r.shape = "empty"
  \/ /\ r.shape # "other"
     /\ \A k \in {"hhmm"} \cup (IF r.proto = "v1" THEN {"time"} ELSE {}) :
          k \in DOMAIN r.args => r.args[k].t = "text"
     /\ IF r.proto = "v1" /\ TextGiven(r, "time") THEN TimeOf(r.args["time"].l)
        ELSE TextGiven(r, "hhmm") => r.args["hhmm"].l \in Clocks

RawArgs(r) == /\ r.proto = "legacy" /\ TextGiven(r, "args")
              /\ Len(r.args["args"].l) <= 64 /\ -2 \notin ToSet(r.args["args"].l)

Contract(r) ==
  CASE r.action = "buzzer"  -> BuzzerArgs(r)
    [] r.action = "motor"   -> MotorArgs(r)
    [] r.action = "tone"    -> ToneArgs(r)
    [] r.action = "led"     -> LedArgs(r)
    [] r.action = "display" -> DisplayArgs(r)
    [] r.action = "tone-sequence" -> NotesArgs(r)
    [] r.action = "sync"    -> SyncArgs(r)
    [] r.action = "raw"     -> RawArgs(r)
    [] r.action = "diag"    -> r.proto = "v1"
    [] r.action = "isp"     -> r.proto = "legacy"
    [] r.action = "sensor"  -> TRUE

\* Where the code departs from the contract: it judges the arguments as the
\* decoder reads them, a null that may be missing as missing and a null in a list
\* as 0, and a note sequence also by its length.
Optional(r) == CASE r.action = "tone-sequence" -> {"gap_ms"} [] r.action = "sync" -> {"time", "hhmm"} [] OTHER -> {}
ReadAs(v)   == [t |-> v.t, n |-> v.n, l |-> Filled(v), z |-> {}, s |-> v.s]
AsRead(r)   == [action |-> r.action, proto |-> r.proto, shape |-> r.shape,
                args |-> [k \in {c \in DOMAIN r.args : c \in Optional(r) => Given(r, c)} |-> ReadAs(r.args[k])]]

WithinTotal(r) == r.action = "tone-sequence" => TotalMs(Field(r, "notes").l, Field(r, "gap_ms").n) <= MaxTotal
Due(r)         == Contract(AsRead(r)) /\ WithinTotal(r)

\* The requests for which there is no such departure.
HasNull(r)   == \E k \in DOMAIN r.args : r.args[k].t = "null" \/ r.args[k].z # {}
AsWritten(r) == ~HasNull(r) /\ WithinTotal(r)

-----------------------------------------------------------------------------
(* What the argument fields of the firmware can carry: a byte for the LEDs, *)
(* 10 ms units, eight places of the display, a time of day, and as many     *)
(* bytes after a legacy letter as the letter takes.                         *)

Pitches == 1..4000
Lengths == 1..120
Beeps   == Pitches \X Lengths
Takes   == [B |-> 2, L |-> 2, M |-> 1, N |-> 8, T |-> 4, V |-> 0, D |-> 0]
Fits(f) ==
  CASE f.verb = "led"     -> f.args[1] \in 0..255
    [] f.verb = "beep"    -> f.args \in Beeps
    [] f.verb = "motor"   -> f.args[1] = 100 /\ f.args[2] \in {50, 100, 150, 200}
    [] f.verb = "display" -> f.args = <<>> \/ EightOf(f.args, 0..25)
    [] f.verb = "sync"    -> f.args = <<>> \/ f.args \in Clocks \/ TimeOf(f.args)
    [] f.verb = "raw"     -> Len(f.args) \in 1..64 /\ -2 \notin ToSet(f.args)
    [] f.verb \in {"state", "diag", "motorstop"} -> f.args = <<>>
    [] f.verb \in DOMAIN Takes -> Len(f.args) = Takes[f.verb] /\ \A i \in DOMAIN f.args : f.args[i] \in 0..9
    [] OTHER -> FALSE

\* The letter D stops a legacy board; it is asked for by isp, or in a raw text.
Stops(f)    == f.verb = "D" \/ (f.verb = "raw" /\ -3 \in ToSet(f.args))
AsksStop(r) == r.action = "isp" \/ (r.action = "raw" /\ -3 \in ToSet(ListOf(r, "args")))
AllFit(r)   == \A f \in Frames(r) : Fits(f) /\ (Stops(f) <=> AsksStop(r))
=============================================================================
