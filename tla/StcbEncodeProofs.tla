--------------------------- MODULE StcbEncodeProofs ---------------------------
(***************************************************************************)
(* The encoders against their contract, for every request: whatever the    *)
(* arguments hold, both protocols accept exactly what README.md:117-122    *)
(* promises of them as the JSON decoder reads them, but for the length of  *)
(* a note sequence (AcceptedPerContract), and every frame that is sent for *)
(* them is one that the firmware can carry (FramesFit).                    *)
(*                                                                         *)
(* One lemma for each action; the theorems at the end put them together.   *)
(***************************************************************************)
EXTENDS StcbLines, FiniteSetTheorems, SequenceTheorems, TLAPS

\* What is sent for r fits, and r is accepted if it is due.
Proper(r) == (Accepts(r) => AllFit(r)) /\ (Accepts(r) <=> Due(r))

\* A frame, if it is one, fits and stops the board only on demand.
Suits(r, f) == f # Error => Fits(f) /\ (Stops(f) <=> AsksStop(r))

\* The request as the decoder reads it is the same, but for its null values.
LEMMA ReadSame ==
  ASSUME NEW r PROVE AsRead(r).action = r.action /\ AsRead(r).proto = r.proto /\ AsRead(r).shape = r.shape
  BY DEF AsRead

\* What proves a request proper that is sent as one frame.
LEMMA OneFrame ==
  ASSUME NEW r, r.action # "tone-sequence", EncodeFrame(r) # Error <=> Contract(AsRead(r)),
         Suits(r, EncodeFrame(r))
  PROVE  Proper(r)
<1>1. ~Expanded(r) /\ WithinTotal(r)
  BY DEF Expanded, WithinTotal
<1>2. (Accepts(r) <=> EncodeFrame(r) # Error) /\ Frames(r) = {EncodeFrame(r)}
  BY <1>1, Zenon DEF Accepts, Frames
<1>3. Accepts(r) <=> Due(r)
  BY <1>1, <1>2, Zenon DEF Due
<1>4. Accepts(r) => AllFit(r)
  BY <1>2, Zenon DEF AllFit, Suits
<1> QED
  BY <1>3, <1>4 DEF Proper

\* An error, which is not sent, suits.
LEMMA ErrorSuits == ASSUME NEW r PROVE Suits(r, Error)
  BY DEF Suits

\* The actions that never stop a board, and the frames that cannot.
Harmless(r) == r.action \notin {"isp", "raw"}

LEMMA FitSuits ==
  ASSUME NEW r, Harmless(r), NEW f, f.verb \notin {"D", "raw"}, Fits(f) PROVE Suits(r, f)
  BY DEF Harmless, Suits, Stops, AsksStop

LEMMA Letters == DOMAIN Takes = {"B", "L", "M", "N", "T", "V", "D"}
  BY DEF Takes

LEMMA BareFits ==
  ASSUME NEW verb \in {"display", "sync", "state", "diag", "motorstop"}
  PROVE  Fits([verb |-> verb, args |-> <<>>])
<1> DEFINE f == [verb |-> verb, args |-> <<>>]
<1>1. f.verb = verb /\ f.args = <<>>
  OBVIOUS
<1> HIDE DEF f
<1>2. Fits(f)
  BY <1>1, Letters, Zenon DEF Fits
<1> QED
  BY <1>2 DEF f

LEMMA BareSuits ==
  ASSUME NEW r, Harmless(r), NEW verb \in {"display", "sync", "state", "diag", "motorstop"}
  PROVE  Suits(r, [verb |-> verb, args |-> <<>>])
  BY BareFits, FitSuits

LEMMA DisplaySuits ==
  ASSUME NEW r, Harmless(r), NEW l, EightOf(l, 0..25) PROVE Suits(r, [verb |-> "display", args |-> l])
<1> DEFINE f == [verb |-> "display", args |-> l]
<1>1. f.verb = "display" /\ f.args = l
  OBVIOUS
<1> HIDE DEF f
<1>2. Fits(f)
  BY <1>1, Letters, Zenon DEF Fits
<1>3. Suits(r, f)
  BY <1>1, <1>2, FitSuits
<1> QED
  BY <1>3 DEF f

LEMMA SyncSuits ==
  ASSUME NEW r, Harmless(r), NEW l, l \in Clocks \/ TimeOf(l) PROVE Suits(r, [verb |-> "sync", args |-> l])
<1> DEFINE f == [verb |-> "sync", args |-> l]
<1>1. f.verb = "sync" /\ f.args = l
  OBVIOUS
<1> HIDE DEF f
<1>2. Fits(f)
  BY <1>1, Letters, Zenon DEF Fits
<1>3. Suits(r, f)
  BY <1>1, <1>2, FitSuits
<1> QED
  BY <1>3 DEF f

LEMMA LedSuits ==
  ASSUME NEW r, Harmless(r), NEW n \in 0..255 PROVE Suits(r, [verb |-> "led", args |-> <<n>>])
<1>1. [verb |-> "led", args |-> <<n>>].args[1] \in 0..255
  OBVIOUS
<1>2. Fits([verb |-> "led", args |-> <<n>>])
  BY <1>1, Letters, Zenon DEF Fits
<1> QED
  BY <1>2, FitSuits

LEMMA BeepFits == ASSUME NEW args \in Beeps PROVE Fits([verb |-> "beep", args |-> args])
  BY Letters, Zenon DEF Fits

LEMMA BeepSuits ==
  ASSUME NEW r, Harmless(r), NEW args \in Beeps PROVE Suits(r, [verb |-> "beep", args |-> args])
  BY BeepFits, FitSuits

LEMMA PairIn == ASSUME NEW A, NEW B, NEW a \in A, NEW b \in B PROVE <<a, b>> \in A \X B
  OBVIOUS

LEMMA MotorSuits ==
  ASSUME NEW r, Harmless(r), NEW args, args[1] = 100, args[2] \in {50, 100, 150, 200}
  PROVE  Suits(r, [verb |-> "motor", args |-> args])
<1>1. Fits([verb |-> "motor", args |-> args])
  BY Letters, Zenon DEF Fits
<1> QED
  BY <1>1, FitSuits

\* A legacy letter has as many arguments as the firmware takes, each a digit.
LEMMA LetterFits ==
  ASSUME NEW letter \in DOMAIN Takes, NEW args \in Seq(0..9), Len(args) = Takes[letter]
  PROVE  Fits([verb |-> letter, args |-> args])
<1> DEFINE f == [verb |-> letter, args |-> args]
<1>1. f.verb = letter /\ f.args = args
  OBVIOUS
<1>2. letter \notin {"led", "beep", "motor", "display", "sync", "raw", "state", "diag", "motorstop"}
  BY DEF Takes
<1>3. Len(f.args) = Takes[f.verb] /\ \A i \in DOMAIN f.args : f.args[i] \in 0..9
  BY <1>1
<1> HIDE DEF f
<1>4. Fits(f)
  BY <1>1, <1>2, <1>3, Letters, Zenon DEF Fits
<1> QED
  BY <1>4 DEF f

LEMMA LetterSuits ==
  ASSUME NEW r, Harmless(r), NEW letter \in DOMAIN Takes, letter # "D",
         NEW args \in Seq(0..9), Len(args) = Takes[letter]
  PROVE  Suits(r, [verb |-> letter, args |-> args])
<1>1. letter # "raw"
  BY DEF Takes
<1> QED
  BY <1>1, LetterFits, FitSuits

\* An argument that is given, and what the code reads of any.
LEMMA GivenFacts ==
  ASSUME NEW r, IsRequest(r), NEW k, Given(r, k)
  PROVE  /\ k \in DOMAIN r.args /\ r.shape = "object" /\ IsValue(r.args[k]) /\ r.args[k].t # "null"
         /\ IntOf(r, k) = r.args[k].n /\ ListOf(r, k) = Filled(r.args[k]) /\ WordOf(r, k) = r.args[k].s
         /\ r.args[k].t # "list" => ListOf(r, k) = r.args[k].l
  BY DEF IsRequest, Field, Given, IntOf, ListOf, WordOf, Filled

LEMMA AbsentFacts ==
  ASSUME NEW r, IsRequest(r), NEW k, ~Given(r, k)
  PROVE  IntOf(r, k) = 0 /\ ListOf(r, k) = <<>> /\ WordOf(r, k) = ""
<1>1. CASE k \in DOMAIN r.args
  BY <1>1 DEF IsRequest, IsValue, Field, Given, IntOf, ListOf, WordOf, Filled
<1>2. CASE k \notin DOMAIN r.args
  BY <1>2 DEF Field, Given, IntOf, ListOf, WordOf, Filled, Zero
<1> QED
  BY <1>1, <1>2

LEMMA IntArg == ASSUME NEW r, IsRequest(r), NEW k PROVE IntOf(r, k) \in Int
<1>1. CASE Given(r, k)
  <2>1. IntOf(r, k) = r.args[k].n /\ IsValue(r.args[k])
    BY <1>1, GivenFacts
  <2>2. r.args[k].t = "int" => r.args[k].n \in Int
    BY <2>1, Zenon DEF IsValue
  <2>3. r.args[k].t # "int" => r.args[k].n = 0
    BY <2>1, Zenon DEF IsValue
  <2> QED
    BY <2>1, <2>2, <2>3
<1>2. CASE ~Given(r, k)
  <2>1. IntOf(r, k) = 0
    BY <1>2, AbsentFacts
  <2> QED
    BY <2>1
<1> QED
  BY <1>1, <1>2

\* What the decoder reads of an argument: it is given, or it is not null.
LEMMA ReadFacts ==
  ASSUME NEW r, NEW k
  PROVE  LET q == AsRead(r) IN
         /\ Given(q, k) <=> Given(r, k)
         /\ Given(r, k) => /\ k \in DOMAIN q.args /\ q.args[k] = ReadAs(r.args[k])
                           /\ q.args[k].t = r.args[k].t /\ q.args[k].n = r.args[k].n /\ q.args[k].z = {}
                           /\ q.args[k].l = Filled(r.args[k]) /\ q.args[k].s = r.args[k].s
         /\ k \in DOMAIN q.args <=> k \in DOMAIN r.args /\ (k \in Optional(r) => Given(r, k))
<1> DEFINE q == AsRead(r)
<1>1. q.args = [c \in {d \in DOMAIN r.args : d \in Optional(r) => Given(r, d)} |-> ReadAs(r.args[c])]
  BY DEF AsRead
<1>2. k \in DOMAIN q.args <=> k \in DOMAIN r.args /\ (k \in Optional(r) => Given(r, k))
  BY <1>1
<1>3. k \in DOMAIN q.args => q.args[k] = ReadAs(r.args[k])
  BY <1>1
<1>4. Given(r, k) => k \in DOMAIN q.args
  BY <1>2 DEF Given
<1>5. /\ ReadAs(r.args[k]).t = r.args[k].t /\ ReadAs(r.args[k]).n = r.args[k].n /\ ReadAs(r.args[k]).z = {}
      /\ ReadAs(r.args[k]).l = Filled(r.args[k]) /\ ReadAs(r.args[k]).s = r.args[k].s
  BY DEF ReadAs
<1> HIDE DEF q
<1>6. Given(q, k) <=> Given(r, k)
  BY <1>2, <1>3, <1>4, <1>5 DEF Given
<1>7. Given(r, k) => q.args[k] = ReadAs(r.args[k])
  BY <1>3, <1>4
<1> QED
  BY <1>2, <1>4, <1>5, <1>6, <1>7 DEF q

LEMMA HasFacts ==
  ASSUME NEW r, IsRequest(r), NEW k, NEW values
  PROVE  Has(AsRead(r), k, values) <=> Given(r, k) /\ r.args[k].t = "int" /\ IntOf(r, k) \in values
<1> DEFINE q == AsRead(r)
<1>1. Has(q, k, values) => Given(q, k)
  BY DEF Has, Given
<1>2. Given(r, k) => IntOf(r, k) = r.args[k].n
  BY GivenFacts
<1>3. /\ Given(q, k) <=> Given(r, k)
      /\ Given(r, k) => k \in DOMAIN q.args /\ q.args[k].t = r.args[k].t /\ q.args[k].n = r.args[k].n
  BY ReadFacts
<1> HIDE DEF q
<1>4. Has(q, k, values) <=> Given(r, k) /\ r.args[k].t = "int" /\ IntOf(r, k) \in values
  BY <1>1, <1>2, <1>3 DEF Has
<1> QED
  BY <1>4 DEF q

-----------------------------------------------------------------------------
(* One lemma for each action. *)

\* The actions with required arguments, and those with alternatives.
LEMMA Validation ==
  ASSUME NEW r
  PROVE  /\ r.action \in {"buzzer", "tone", "motor"} =>
              (ValidateActionArgs(r) <=> /\ r.shape = "object"
                                         /\ r.action = "tone" => Cardinality(DOMAIN r.args) = 2
                                         /\ \A k \in Required[r.action] : Given(r, k))
         /\ r.action \in {"led", "display"} =>
              (ValidateActionArgs(r) <=> /\ r.shape = "object"
                                         /\ Cardinality(OneOf[r.action] \cap DOMAIN r.args) = 1
                                         /\ \A k \in OneOf[r.action] \cap DOMAIN r.args : Given(r, k))
         /\ r.action \in {"sync", "raw", "sensor", "diag", "isp"} => ValidateActionArgs(r)
         /\ r.action = "tone-sequence" => (ValidateActionArgs(r) <=> ToneSequenceOk(r))
<1>1. DOMAIN Required = {"buzzer", "tone", "motor"} /\ DOMAIN OneOf = {"led", "display"}
  BY DEF Required, OneOf
<1> QED
  BY <1>1, Zenon DEF ValidateActionArgs, NonNull

\* The tones that buzzer plays.
LEMMA TablesFit == (\A i \in 1..8 : FreqTable[i] \in Pitches) /\ (\A j \in 0..8 : DurationTable[j + 1] \in Lengths)
<1>1. \A i \in 1..8 : FreqTable[i] \in Pitches
  <2>1. {500, 800, 1000, 1200, 1500, 2000, 2500, 3000} \subseteq Pitches
    BY DEF Pitches
  <2>2. \A i \in 1..8 : FreqTable[i] \in {500, 800, 1000, 1200, 1500, 2000, 2500, 3000}
    BY DEF FreqTable
  <2> QED
    BY <2>1, <2>2
<1>2. \A j \in 0..8 : DurationTable[j + 1] \in Lengths
  BY DEF DurationTable, Lengths
<1> QED
  BY <1>1, <1>2

LEMMA BuzzerProper == ASSUME NEW r, IsRequest(r), r.action = "buzzer" PROVE Proper(r)
<1>1. Contract(AsRead(r)) <=> BuzzerArgs(AsRead(r))
  BY ReadSame, Zenon DEF Contract
<1>2. EncodeFrame(r) = IF ~ValidateActionArgs(r) THEN Error ELSE IF r.proto = "v1" THEN V1Buzzer(r) ELSE EncodeBuzzer(r)
  <2>1. EncodeV1(r) = IF ~ValidateActionArgs(r) THEN Error ELSE V1Buzzer(r)
    BY Zenon DEF EncodeV1
  <2>2. EncodeLegacy(r) = IF ~ValidateActionArgs(r) THEN Error ELSE EncodeBuzzer(r)
    BY Zenon DEF EncodeLegacy
  <2> QED
    BY <2>1, <2>2 DEF EncodeFrame
<1>3. Harmless(r) /\ r.action # "tone-sequence"
  BY DEF Harmless
<1>4. ValidateActionArgs(r) <=> r.shape = "object" /\ Given(r, "freq") /\ Given(r, "duration")
  <2>1. Required[r.action] = {"freq", "duration"} /\ r.action # "tone"
    BY DEF Required
  <2> QED
    BY <2>1, Validation
<1>5. Decodes(r, [freq |-> "int", duration |-> "int"]) <=>
        /\ r.shape \in {"object", "null"}
        /\ Given(r, "freq") => r.args["freq"].t = "int"
        /\ Given(r, "duration") => r.args["duration"].t = "int"
  BY DEF Decodes
<1>6. ValidateActionArgs(r) /\ BuzzerOk(r) <=> BuzzerArgs(AsRead(r))
  BY <1>4, <1>5, HasFacts, GivenFacts DEF BuzzerOk, BuzzerArgs
<1>7. ASSUME BuzzerArgs(AsRead(r))
      PROVE  Suits(r, V1Buzzer(r)) /\ V1Buzzer(r) # Error /\ Suits(r, EncodeBuzzer(r)) /\ EncodeBuzzer(r) # Error
  <2> DEFINE i == IntOf(r, "freq")
             j == IntOf(r, "duration")
  <2>1. i \in 1..8 /\ j \in 0..8 /\ BuzzerOk(r)
    BY <1>6, <1>7 DEF BuzzerOk
  <2>2. FreqTable[i] \in Pitches /\ DurationTable[j + 1] \in Lengths
    BY <2>1, TablesFit
  <2>3. V1Buzzer(r) = [verb |-> "beep", args |-> <<FreqTable[i], DurationTable[j + 1]>>]
    BY <2>1 DEF V1Buzzer, FrameIf
  <2>4. EncodeBuzzer(r) = [verb |-> "B", args |-> <<i, j>>]
    BY <2>1 DEF EncodeBuzzer, FrameIf
  <2> HIDE DEF i, j
  <2>5. Suits(r, V1Buzzer(r))
    BY <2>2, <2>3, <1>3, BeepSuits, PairIn DEF Beeps
  <2>6. <<i, j>> \in Seq(0..9) /\ Len(<<i, j>>) = Takes["B"] /\ "B" \in DOMAIN Takes
    BY <2>1 DEF Takes
  <2>7. Suits(r, EncodeBuzzer(r))
    BY <2>4, <2>6, <1>3, LetterSuits
  <2> QED
    BY <2>3, <2>4, <2>5, <2>7 DEF Error
<1>8. (EncodeFrame(r) # Error <=> Contract(AsRead(r))) /\ Suits(r, EncodeFrame(r))
  BY <1>1, <1>2, <1>6, <1>7, ErrorSuits DEF V1Buzzer, EncodeBuzzer, FrameIf
<1> QED
  BY <1>3, <1>8, OneFrame


LEMMA MotorProper == ASSUME NEW r, IsRequest(r), r.action = "motor" PROVE Proper(r)
<1>1. Contract(AsRead(r)) <=> MotorArgs(AsRead(r))
  BY ReadSame, Zenon DEF Contract
<1>2. EncodeFrame(r) = IF ~ValidateActionArgs(r) THEN Error ELSE IF r.proto = "v1" THEN V1Motor(r) ELSE EncodeMotor(r)
  <2>1. EncodeV1(r) = IF ~ValidateActionArgs(r) THEN Error ELSE V1Motor(r)
    BY Zenon DEF EncodeV1
  <2>2. EncodeLegacy(r) = IF ~ValidateActionArgs(r) THEN Error ELSE EncodeMotor(r)
    BY Zenon DEF EncodeLegacy
  <2> QED
    BY <2>1, <2>2 DEF EncodeFrame
<1>3. Harmless(r) /\ r.action # "tone-sequence"
  BY DEF Harmless
<1>4. ValidateActionArgs(r) <=> r.shape = "object" /\ Given(r, "steps")
  <2>1. Required[r.action] = {"steps"} /\ r.action # "tone"
    BY DEF Required
  <2> QED
    BY <2>1, Validation
<1>5. Decodes(r, [steps |-> "int"]) <=> r.shape \in {"object", "null"} /\ (Given(r, "steps") => r.args["steps"].t = "int")
  BY DEF Decodes
<1>6. ValidateActionArgs(r) /\ Decodes(r, [steps |-> "int"]) /\ IntOf(r, "steps") \in 0..4 <=> MotorArgs(AsRead(r))
  BY <1>4, <1>5, HasFacts, GivenFacts DEF MotorArgs
<1>7. ASSUME MotorArgs(AsRead(r))
      PROVE  Suits(r, V1Motor(r)) /\ V1Motor(r) # Error /\ Suits(r, EncodeMotor(r)) /\ EncodeMotor(r) # Error
  <2> DEFINE n == IntOf(r, "steps")
  <2>1. n \in 0..4 /\ Decodes(r, [steps |-> "int"])
    BY <1>6, <1>7
  <2>2. EncodeMotor(r) = [verb |-> "M", args |-> <<n>>]
    BY <2>1 DEF EncodeMotor, FrameIf
  <2>3. /\ n = 0 => V1Motor(r) = [verb |-> "motorstop", args |-> <<>>]
        /\ n # 0 => V1Motor(r) = [verb |-> "motor", args |-> <<100, 50 * n>>]
    BY <2>1 DEF V1Motor, FrameIf
  <2> HIDE DEF n
  <2>4. Suits(r, V1Motor(r))
    <3>1. CASE n = 0
      <4>1. V1Motor(r) = [verb |-> "motorstop", args |-> <<>>]
        BY <2>3, <3>1
      <4> QED
        BY <1>3, <4>1, BareSuits
    <3>2. CASE n \in 1..4
      <4> DEFINE args == <<100, 50 * n>>
      <4>1. V1Motor(r) = [verb |-> "motor", args |-> args]
        BY <2>3, <3>2
      <4>2. args[1] = 100 /\ args[2] \in {50, 100, 150, 200}
        BY <3>2
      <4> HIDE DEF args
      <4> QED
        BY <4>1, <4>2, <1>3, MotorSuits
    <3> QED
      BY <2>1, <3>1, <3>2
  <2>5. <<n>> \in Seq(0..9) /\ Len(<<n>>) = Takes["M"] /\ "M" \in DOMAIN Takes
    BY <2>1 DEF Takes
  <2>6. Suits(r, EncodeMotor(r))
    BY <2>2, <2>5, <1>3, LetterSuits
  <2> QED
    BY <2>2, <2>3, <2>4, <2>6 DEF Error, FrameIf
<1>8. ValidateActionArgs(r) /\ ~MotorArgs(AsRead(r)) => V1Motor(r) = Error /\ EncodeMotor(r) = Error
  BY <1>6 DEF V1Motor, EncodeMotor, FrameIf
<1>9. (EncodeFrame(r) # Error <=> Contract(AsRead(r))) /\ Suits(r, EncodeFrame(r))
  BY <1>1, <1>2, <1>6, <1>7, <1>8, ErrorSuits
<1> QED
  BY <1>3, <1>9, OneFrame

\* The values that are given in tens.
LEMMA TensFacts ==
  ASSUME NEW ms \in Int, NEW first \in Int, NEW last \in Int
  PROVE  10 * first <= ms /\ ms <= 10 * last /\ ms % 10 = 0 <=> ms \in Tens(first, last)
<1>1. ASSUME 10 * first <= ms, ms <= 10 * last, ms % 10 = 0 PROVE ms \in Tens(first, last)
  <2>1. ms \div 10 \in first..last /\ ms = 10 * (ms \div 10)
    BY <1>1
  <2> QED
    BY <2>1 DEF Tens
<1>2. ASSUME ms \in Tens(first, last) PROVE 10 * first <= ms /\ ms <= 10 * last /\ ms % 10 = 0
  <2>1. PICK n \in first..last : ms = 10 * n
    BY <1>2 DEF Tens
  <2> QED
    BY <2>1
<1> QED
  BY <1>1, <1>2

LEMMA TensInUnits ==
  ASSUME NEW ms \in Int PROVE ms \in 10..1200 /\ ms % 10 = 0 <=> ms \in Tens(1, 120)
<1>1. 10 * 1 <= ms /\ ms <= 10 * 120 /\ ms % 10 = 0 <=> ms \in Tens(1, 120)
  BY TensFacts
<1> QED
  BY <1>1

LEMMA NoteFacts == ASSUME NEW note \in Note PROVE NoteOk(note) <=> NoteDue(note)
<1>1. PICK hz \in Int, ms \in Int : note = [hz |-> hz, ms |-> ms]
  BY DEF Note
<1>2. ms \in 10..1200 /\ ms % 10 = 0 <=> ms \in Tens(1, 120)
  BY TensInUnits
<1>3. NoteOk([hz |-> hz, ms |-> ms]) <=> NoteDue([hz |-> hz, ms |-> ms])
  BY <1>2 DEF NoteOk, NoteDue
<1> QED
  BY <1>1, <1>3

LEMMA ToneProper == ASSUME NEW r, IsRequest(r), r.action = "tone" PROVE Proper(r)
<1> DEFINE hz == IntOf(r, "frequency_hz")
           ms == IntOf(r, "duration_ms")
<1>1. Contract(AsRead(r)) <=> ToneArgs(AsRead(r))
  BY ReadSame, Zenon DEF Contract
<1>2. EncodeFrame(r) = IF ValidateActionArgs(r) /\ r.proto = "v1" THEN V1Tone(r) ELSE Error
  <2>1. EncodeV1(r) = IF ~ValidateActionArgs(r) THEN Error ELSE V1Tone(r)
    BY Zenon DEF EncodeV1
  <2>2. EncodeLegacy(r) = Error
    BY Zenon DEF EncodeLegacy
  <2> QED
    BY <2>1, <2>2 DEF EncodeFrame
<1>3. Harmless(r) /\ r.action # "tone-sequence"
  BY DEF Harmless
<1>4. ValidateActionArgs(r) <=> /\ r.shape = "object" /\ Cardinality(DOMAIN r.args) = 2
                                /\ Given(r, "frequency_hz") /\ Given(r, "duration_ms")
  <2>1. Required[r.action] = {"frequency_hz", "duration_ms"}
    BY DEF Required
  <2> QED
    BY <2>1, Validation
<1>5. Given(r, "frequency_hz") /\ Given(r, "duration_ms") =>
        (Cardinality(DOMAIN r.args) = 2 <=> DOMAIN r.args = {"frequency_hz", "duration_ms"})
  <2>1. Cardinality({"frequency_hz", "duration_ms"}) = 2 /\ IsFiniteSet({"frequency_hz", "duration_ms"})
    <3>1. Cardinality({"frequency_hz"}) = 1 /\ IsFiniteSet({"frequency_hz"})
      BY FS_Singleton
    <3>2. {"frequency_hz", "duration_ms"} = {"frequency_hz"} \cup {"duration_ms"} /\ "duration_ms" \notin {"frequency_hz"}
      OBVIOUS
    <3> QED
      BY <3>1, <3>2, FS_AddElement
  <2>2. IsFiniteSet(DOMAIN r.args)
    BY DEF IsRequest
  <2>3. Given(r, "frequency_hz") /\ Given(r, "duration_ms") => {"frequency_hz", "duration_ms"} \subseteq DOMAIN r.args
    BY DEF Given
  <2> QED
    BY <2>1, <2>2, <2>3, FS_Subset
<1>6. Decodes(r, [frequency_hz |-> "int", duration_ms |-> "int"]) <=>
        /\ r.shape \in {"object", "null"}
        /\ Given(r, "frequency_hz") => r.args["frequency_hz"].t = "int"
        /\ Given(r, "duration_ms") => r.args["duration_ms"].t = "int"
  BY DEF Decodes
<1>7. ToneArgs(AsRead(r)) <=> /\ r.proto = "v1" /\ DOMAIN r.args = {"frequency_hz", "duration_ms"}
                      /\ Given(r, "frequency_hz") /\ r.args["frequency_hz"].t = "int" /\ hz \in 1..4000
                      /\ Given(r, "duration_ms") /\ r.args["duration_ms"].t = "int" /\ ms \in Tens(1, 120)
  <2>1. DOMAIN AsRead(r).args = DOMAIN r.args
    <3>1. Optional(r) = {}
      BY DEF Optional
    <3> QED
      BY <3>1, ReadFacts
  <2>2. /\ Has(AsRead(r), "frequency_hz", 1..4000)
             <=> Given(r, "frequency_hz") /\ r.args["frequency_hz"].t = "int" /\ hz \in 1..4000
        /\ Has(AsRead(r), "duration_ms", Tens(1, 120))
             <=> Given(r, "duration_ms") /\ r.args["duration_ms"].t = "int" /\ ms \in Tens(1, 120)
    BY HasFacts
  <2> HIDE DEF hz, ms
  <2> QED
    BY <2>1, <2>2, ReadSame DEF ToneArgs
<1>8. NoteOk([hz |-> hz, ms |-> ms]) <=> hz \in 1..4000 /\ ms \in 10..1200 /\ ms % 10 = 0
  BY DEF NoteOk
<1>9. ms \in Int
  BY IntArg
<1>10. ValidateActionArgs(r) /\ r.proto = "v1" /\ Decodes(r, [frequency_hz |-> "int", duration_ms |-> "int"])
         /\ NoteOk([hz |-> hz, ms |-> ms]) <=> ToneArgs(AsRead(r))
  <2> HIDE DEF hz, ms
  <2>1. ms \in 10..1200 /\ ms % 10 = 0 <=> ms \in Tens(1, 120)
    BY <1>9, TensInUnits
  <2>2. Given(r, "frequency_hz") => r.shape = "object"
    BY GivenFacts
  <2> QED
    BY <1>4, <1>5, <1>6, <1>7, <1>8, <2>1, <2>2
<1>11. ASSUME ToneArgs(AsRead(r)) PROVE V1Tone(r) # Error /\ Suits(r, V1Tone(r))
  <2>1. V1Tone(r) = [verb |-> "beep", args |-> <<hz, ms \div 10>>]
    BY <1>10, <1>11 DEF V1Tone, FrameIf
  <2> HIDE DEF hz, ms
  <2>2. hz \in Pitches /\ ms \div 10 \in Lengths
    <3>1. hz \in 1..4000 /\ ms \in 10..1200
      <4>1. NoteOk([hz |-> hz, ms |-> ms])
        BY <1>10, <1>11
      <4> QED
        BY <1>8, <4>1
    <3>2. \A n \in 10..1200 : n \div 10 \in Lengths
      BY DEF Lengths
    <3>3. hz \in Pitches
      BY <3>1 DEF Pitches
    <3>4. PICK n \in 10..1200 : n = ms
      BY <3>1
    <3>5. n \div 10 \in Lengths
      BY <3>2
    <3> QED
      BY <3>3, <3>4, <3>5
  <2>3. <<hz, ms \div 10>> \in Beeps
    BY <2>2, PairIn DEF Beeps
  <2> QED
    BY <2>1, <2>3, <1>3, BeepSuits DEF Error
<1>12. (EncodeFrame(r) # Error <=> Contract(AsRead(r))) /\ Suits(r, EncodeFrame(r))
  BY <1>1, <1>2, <1>10, <1>11, ErrorSuits DEF V1Tone, FrameIf
<1> QED
  BY <1>3, <1>12, OneFrame


-----------------------------------------------------------------------------
(* The actions with alternatives. *)

\* What validateActionArgs lets through of led and display: exactly one of the
\* alternatives, and that not null.
LEMMA OneGiven ==
  ASSUME NEW r, IsRequest(r), r.action \in {"led", "display"}
  PROVE  ValidateActionArgs(r) <=> \E k \in OneOf[r.action] : Only(r, k) /\ Given(r, k)
<1> DEFINE S == OneOf[r.action] \cap DOMAIN r.args
<1>1. IsFiniteSet(S)
  <2>1. IsFiniteSet(DOMAIN r.args)
    BY DEF IsRequest
  <2> QED
    BY <2>1, FS_Intersection
<1>2. Cardinality(S) = 1 <=> \E k : S = {k}
  BY <1>1, FS_Singleton
<1>3. \A k \in OneOf[r.action] : Given(r, k) => r.shape = "object"
  BY GivenFacts
<1>4. \A k \in OneOf[r.action] : Only(r, k) /\ Given(r, k) => S = {k}
  BY DEF Only, Given
<1>5. \A k : S = {k} /\ (\A c \in S : Given(r, c)) => k \in OneOf[r.action] /\ Only(r, k) /\ Given(r, k)
  BY DEF Only
<1>6. ValidateActionArgs(r) <=> r.shape = "object" /\ Cardinality(S) = 1 /\ \A k \in S : Given(r, k)
  BY Validation
<1> HIDE DEF S
<1> QED
  BY <1>2, <1>3, <1>4, <1>5, <1>6

\* The decoder drops no argument of these two.
LEMMA OnlyRead ==
  ASSUME NEW r, r.action \in {"led", "display"}, NEW k PROVE Only(AsRead(r), k) <=> Only(r, k)
<1>1. Optional(r) = {}
  BY DEF Optional
<1>2. \A c : c \in DOMAIN AsRead(r).args <=> c \in DOMAIN r.args
  BY <1>1, ReadFacts
<1> QED
  BY <1>2, ReadSame DEF Only

LEMMA LedMaskFits == ASSUME NEW p \in 0..9 PROVE LedMask(p) \in 0..255
<1> DEFINE bytes == 0..255
<1>1. /\ 2 ^ 0 \in bytes /\ 2 ^ 1 \in bytes /\ 2 ^ 2 \in bytes /\ 2 ^ 3 \in bytes
      /\ 2 ^ 4 \in bytes /\ 2 ^ 5 \in bytes /\ 2 ^ 6 \in bytes /\ 2 ^ 7 \in bytes
  OBVIOUS
<1>2. \A q \in {0, 1, 2, 3, 4, 5, 6, 7} : 2 ^ q \in bytes
  <2> HIDE DEF bytes
  <2> QED BY <1>1, Zenon
<1> HIDE DEF bytes
<1>3. CASE p \in 1..8
  <2>1. p - 1 \in {0, 1, 2, 3, 4, 5, 6, 7}
    BY <1>3
  <2>2. 2 ^ (p - 1) \in bytes
    BY <1>2, <2>1, Zenon
  <2> QED
    BY <1>3, <2>2 DEF LedMask, bytes
<1>4. CASE p \in {0, 9}
  BY <1>4 DEF LedMask
<1> QED
  BY <1>3, <1>4

LEMMA LedProper == ASSUME NEW r, IsRequest(r), r.action = "led" PROVE Proper(r)
<1> DEFINE mask    == IntOf(r, "mask")
           pattern == IntOf(r, "pattern")
           whole   == Only(r, "mask") /\ Given(r, "mask")
           single  == Only(r, "pattern") /\ Given(r, "pattern")
<1>1. Contract(AsRead(r)) <=> LedArgs(AsRead(r))
  BY ReadSame, Zenon DEF Contract
<1>2. EncodeFrame(r) = IF ~ValidateActionArgs(r) THEN Error ELSE IF r.proto = "v1" THEN V1Led(r) ELSE EncodeLED(r)
  <2>1. EncodeV1(r) = IF ~ValidateActionArgs(r) THEN Error ELSE V1Led(r)
    BY Zenon DEF EncodeV1
  <2>2. EncodeLegacy(r) = IF ~ValidateActionArgs(r) THEN Error ELSE EncodeLED(r)
    BY Zenon DEF EncodeLegacy
  <2> QED
    BY <2>1, <2>2 DEF EncodeFrame
<1>3. Harmless(r) /\ r.action # "tone-sequence"
  BY DEF Harmless
<1>4. ValidateActionArgs(r) <=> whole \/ single
  <2>1. OneOf[r.action] = {"mask", "pattern"}
    BY DEF OneOf
  <2> QED
    BY <2>1, OneGiven
<1>5. (whole => ~Given(r, "pattern")) /\ (single => ~Given(r, "mask"))
  <2>1. OneOf[r.action] = {"mask", "pattern"}
    BY DEF OneOf
  <2> QED
    BY <2>1 DEF Only, Given
<1>6. /\ Decodes(r, [mask |-> "int", pattern |-> "int"]) <=>
           /\ r.shape \in {"object", "null"}
           /\ Given(r, "mask") => r.args["mask"].t = "int"
           /\ Given(r, "pattern") => r.args["pattern"].t = "int"
      /\ Decodes(r, [pattern |-> "int"]) <=>
           /\ r.shape \in {"object", "null"}
           /\ Given(r, "pattern") => r.args["pattern"].t = "int"
  BY DEF Decodes
<1>7. LedArgs(AsRead(r)) <=> \/ r.proto = "v1" /\ whole /\ r.args["mask"].t = "int" /\ mask \in 0..255
                             \/ single /\ r.args["pattern"].t = "int" /\ pattern \in 0..9
  BY HasFacts, OnlyRead, ReadSame DEF LedArgs
<1>8. (Given(r, "mask") \/ Given(r, "pattern")) => r.shape = "object"
  BY GivenFacts
<1>9. mask \in 0..255 => Suits(r, [verb |-> "led", args |-> <<mask>>])
  BY <1>3, LedSuits
<1>10. pattern \in 0..9 => Suits(r, [verb |-> "led", args |-> <<LedMask(pattern)>>])
  BY <1>3, LedSuits, LedMaskFits
<1>11. pattern \in 0..9 => Suits(r, [verb |-> "L", args |-> <<pattern, 0>>])
  <2>1. pattern \in 0..9 => <<pattern, 0>> \in Seq(0..9) /\ Len(<<pattern, 0>>) = Takes["L"]
    BY DEF Takes
  <2>2. "L" \in DOMAIN Takes
    BY DEF Takes
  <2> QED
    BY <2>1, <2>2, <1>3, LetterSuits
<1>12. \A n : [verb |-> "led", args |-> n] # Error /\ [verb |-> "L", args |-> n] # Error
  BY DEF Error
<1>13. CASE whole
  <2>1. V1Led(r) = IF r.args["mask"].t = "int" /\ mask \in 0..255 THEN [verb |-> "led", args |-> <<mask>>] ELSE Error
    BY <1>5, <1>6, <1>8, <1>13 DEF V1Led, FrameIf
  <2>2. EncodeLED(r) = Error
    BY <1>5, <1>13 DEF EncodeLED, FrameIf
  <2> HIDE DEF mask, pattern, whole, single
  <2>3. EncodeFrame(r) = IF r.proto = "v1" THEN V1Led(r) ELSE EncodeLED(r)
    BY <1>2, <1>4, <1>13
  <2>4. LedArgs(AsRead(r)) <=> r.proto = "v1" /\ r.args["mask"].t = "int" /\ mask \in 0..255
    BY <1>5, <1>7, <1>13 DEF whole, single
  <2>5. (EncodeFrame(r) # Error <=> Contract(AsRead(r))) /\ Suits(r, EncodeFrame(r))
    BY <1>1, <1>9, <1>12, <2>1, <2>2, <2>3, <2>4, ErrorSuits
  <2> QED
    BY <1>3, <2>5, OneFrame
<1>14. CASE single
  <2>1. V1Led(r) = IF r.args["pattern"].t = "int" /\ pattern \in 0..9
                   THEN [verb |-> "led", args |-> <<LedMask(pattern)>>] ELSE Error
    BY <1>5, <1>6, <1>8, <1>14 DEF V1Led, FrameIf
  <2>2. EncodeLED(r) = IF r.args["pattern"].t = "int" /\ pattern \in 0..9
                       THEN [verb |-> "L", args |-> <<pattern, 0>>] ELSE Error
    BY <1>5, <1>6, <1>8, <1>14 DEF EncodeLED, FrameIf
  <2> HIDE DEF mask, pattern, whole, single
  <2>3. EncodeFrame(r) = IF r.proto = "v1" THEN V1Led(r) ELSE EncodeLED(r)
    BY <1>2, <1>4, <1>14
  <2>4. LedArgs(AsRead(r)) <=> r.args["pattern"].t = "int" /\ pattern \in 0..9
    BY <1>5, <1>7, <1>14 DEF whole, single
  <2>5. (EncodeFrame(r) # Error <=> Contract(AsRead(r))) /\ Suits(r, EncodeFrame(r))
    BY <1>1, <1>10, <1>11, <1>12, <2>1, <2>2, <2>3, <2>4, ErrorSuits
  <2> QED
    BY <1>3, <2>5, OneFrame
<1>15. CASE ~whole /\ ~single
  BY <1>1, <1>2, <1>3, <1>4, <1>7, <1>15, ErrorSuits, OneFrame
<1> QED
  BY <1>13, <1>14, <1>15


LEMMA ElementsIn ==
  ASSUME NEW l \in Seq(Int), NEW values, \A i \in 1..Len(l) : l[i] \in values PROVE l \in Seq(values)
  OBVIOUS

LEMMA FilledTyped ==
  ASSUME NEW v, IsValue(v), v.t = "list"
  PROVE  Filled(v) \in Seq(Int) /\ DOMAIN Filled(v) = 1..Len(Filled(v))
<1>1. v.l \in Seq(Int)
  BY Zenon DEF IsValue
<1>2. PICK l \in Seq(Int) : l = v.l
  BY <1>1
<1>3. Filled(v) = [i \in DOMAIN l |-> IF i \in v.z THEN 0 ELSE l[i]]
  BY <1>2 DEF Filled
<1>4. PICK n \in Nat : n = Len(l) /\ DOMAIN l = 1..n
  BY <1>2
<1>5. \A i \in 1..n : l[i] \in Int
  BY <1>4, ElementOfSeq
<1>6. Filled(v) \in [1..n -> Int]
  BY <1>3, <1>4, <1>5
<1> QED
  BY <1>6

\* A list that is decoded is one of eight values, nulls being 0.
LEMMA ListFacts ==
  ASSUME NEW r, IsRequest(r), NEW k, NEW values
  PROVE  /\ List(AsRead(r), k, values) <=> Given(r, k) /\ r.args[k].t = "list" /\ EightOf(ListOf(r, k), values)
         /\ List(AsRead(r), k, values) => ListOf(r, k) \in Seq(values)
<1> DEFINE q == AsRead(r)
<1>1. List(q, k, values) => Given(q, k)
  BY DEF List, Given
<1>2. /\ Given(q, k) <=> Given(r, k)
      /\ Given(r, k) => /\ k \in DOMAIN q.args /\ q.args[k].t = r.args[k].t /\ q.args[k].z = {}
                        /\ q.args[k].l = Filled(r.args[k])
  BY ReadFacts
<1> HIDE DEF q
<1>3. CASE Given(r, k) /\ r.args[k].t = "list"
  <2>1. ListOf(r, k) = Filled(r.args[k]) /\ IsValue(r.args[k])
    BY <1>3, GivenFacts
  <2>2. ListOf(r, k) \in Seq(Int) /\ DOMAIN ListOf(r, k) = 1..Len(ListOf(r, k))
    BY <1>3, <2>1, FilledTyped
  <2>3. Len(ListOf(r, k)) = 8 => DOMAIN ListOf(r, k) = 1..8
    BY <2>2
  <2>4. List(q, k, values) <=> EightOf(ListOf(r, k), values)
    BY <1>2, <1>3, <2>1, <2>3 DEF List, EightOf
  <2>5. EightOf(ListOf(r, k), values) => ListOf(r, k) \in Seq(values)
    BY <2>2, ElementsIn DEF EightOf
  <2> QED
    BY <1>3, <2>4, <2>5 DEF q
<1>4. CASE ~(Given(r, k) /\ r.args[k].t = "list")
  <2>1. ~List(q, k, values)
    BY <1>1, <1>2, <1>4 DEF List
  <2> QED
    BY <1>4, <2>1 DEF q
<1> QED
  BY <1>3, <1>4

LEMMA TextRead ==
  ASSUME NEW r, NEW k
  PROVE  /\ TextGiven(AsRead(r), k) <=> TextGiven(r, k)
         /\ TextGiven(r, k) => Given(r, k) /\ r.args[k].t = "text"
         /\ Given(r, k) /\ r.args[k].t = "text" =>
              /\ TextGiven(r, k) <=> r.args[k].l # <<>>
              /\ AsRead(r).args[k].l = r.args[k].l /\ AsRead(r).args[k].s = r.args[k].s
<1> DEFINE q == AsRead(r)
<1>1. /\ Given(q, k) <=> Given(r, k)
      /\ Given(r, k) => q.args[k].t = r.args[k].t /\ q.args[k].l = Filled(r.args[k]) /\ q.args[k].s = r.args[k].s
  BY ReadFacts
<1>2. r.args[k].t = "text" => Filled(r.args[k]) = r.args[k].l
  BY DEF Filled
<1> HIDE DEF q
<1>3. TextGiven(q, k) <=> TextGiven(r, k)
  BY <1>1, <1>2 DEF TextGiven
<1> QED
  BY <1>1, <1>2, <1>3 DEF TextGiven, q

LEMMA EmptyIsNotEight == ASSUME NEW values PROVE ~EightOf(<<>>, values)
  BY DEF EightOf

LEMMA DisplayProper == ASSUME NEW r, IsRequest(r), r.action = "display" PROVE Proper(r)
<1> DEFINE digits == ListOf(r, "digits")
           codes  == ListOf(r, "codes")
           mode   == WordOf(r, "mode")
           one(k) == Only(r, k) /\ Given(r, k)
<1>1. Contract(AsRead(r)) <=> DisplayArgs(AsRead(r))
  BY ReadSame, Zenon DEF Contract
<1>2. EncodeFrame(r) = IF ~ValidateActionArgs(r) THEN Error ELSE IF r.proto = "v1" THEN V1Display(r) ELSE EncodeDisplay(r)
  <2>1. EncodeV1(r) = IF ~ValidateActionArgs(r) THEN Error ELSE V1Display(r)
    BY Zenon DEF EncodeV1
  <2>2. EncodeLegacy(r) = IF ~ValidateActionArgs(r) THEN Error ELSE EncodeDisplay(r)
    BY Zenon DEF EncodeLegacy
  <2> QED
    BY <2>1, <2>2 DEF EncodeFrame
<1>3. Harmless(r) /\ r.action # "tone-sequence"
  BY DEF Harmless
<1>4. OneOf[r.action] = {"digits", "codes", "mode"}
  BY DEF OneOf
<1>5. ValidateActionArgs(r) <=> one("digits") \/ one("codes") \/ one("mode")
  BY <1>4, OneGiven
<1>6. /\ one("digits") => ~Given(r, "codes") /\ ~Given(r, "mode")
      /\ one("codes")  => ~Given(r, "digits") /\ ~Given(r, "mode")
      /\ one("mode")   => ~Given(r, "digits") /\ ~Given(r, "codes")
  BY <1>4 DEF Only, Given
<1>7. /\ Decodes(r, [digits |-> "list", codes |-> "list", mode |-> "text"]) <=>
           /\ r.shape \in {"object", "null"}
           /\ Given(r, "digits") => r.args["digits"].t = "list"
           /\ Given(r, "codes") => r.args["codes"].t = "list"
           /\ Given(r, "mode") => r.args["mode"].t = "text"
      /\ Decodes(r, [digits |-> "list"]) <=>
           /\ r.shape \in {"object", "null"}
           /\ Given(r, "digits") => r.args["digits"].t = "list"
  BY DEF Decodes
<1>8. \A k : Given(r, k) => r.shape = "object"
  BY GivenFacts
<1>9. (~Given(r, "mode") => mode = "") /\ (~Given(r, "codes") => codes = <<>>) /\ (~Given(r, "digits") => digits = <<>>)
  BY AbsentFacts
<1>10. /\ List(AsRead(r), "digits", 0..9) <=> Given(r, "digits") /\ r.args["digits"].t = "list" /\ EightOf(digits, 0..9)
       /\ List(AsRead(r), "digits", 0..9) => digits \in Seq(0..9)
       /\ List(AsRead(r), "codes", 0..25) <=> Given(r, "codes") /\ r.args["codes"].t = "list" /\ EightOf(codes, 0..25)
  BY ListFacts
<1>11. ~EightOf(<<>>, 0..9) /\ ~EightOf(<<>>, 0..25)
  BY EmptyIsNotEight
<1>12. \A l : [verb |-> "display", args |-> l] # Error /\ [verb |-> "N", args |-> l] # Error
  BY DEF Error
<1>13. Suits(r, V1Display(r))
  <2>1. EightOf(digits, 0..9) => EightOf(digits, 0..25)
    BY DEF EightOf
  <2>2. \/ V1Display(r) = Error
        \/ V1Display(r) = [verb |-> "display", args |-> <<>>]
        \/ EightOf(codes, 0..25) /\ V1Display(r) = [verb |-> "display", args |-> codes]
        \/ EightOf(digits, 0..9) /\ V1Display(r) = [verb |-> "display", args |-> digits]
    BY DEF V1Display, FrameIf
  <2> HIDE DEF digits, codes
  <2> QED
    BY <1>3, <2>1, <2>2, ErrorSuits, BareSuits, DisplaySuits
<1>14. Suits(r, EncodeDisplay(r))
  <2>1. CASE EncodeDisplay(r) = Error
    BY <2>1, ErrorSuits
  <2>2. CASE EncodeDisplay(r) # Error
    <3>1. EightOf(digits, 0..9) /\ Decodes(r, [digits |-> "list"]) /\ EncodeDisplay(r) = [verb |-> "N", args |-> digits]
      BY <2>2 DEF EncodeDisplay, FrameIf
    <3>2. Given(r, "digits") /\ r.args["digits"].t = "list"
      BY <1>7, <1>9, <1>11, <3>1
    <3>3. digits \in Seq(0..9)
      BY <1>10, <3>1, <3>2
    <3>4. Len(digits) = Takes["N"] /\ "N" \in DOMAIN Takes
      BY <3>1 DEF EightOf, Takes
    <3> QED
      BY <3>1, <3>3, <3>4, <1>3, LetterSuits
  <2> QED
    BY <2>1, <2>2
<1> HIDE DEF digits, codes, mode, one
<1>15. V1Display(r) # Error <=>
         /\ Decodes(r, [digits |-> "list", codes |-> "list", mode |-> "text"])
         /\ IF mode # "" THEN mode \in Screens
            ELSE IF codes # <<>> THEN EightOf(codes, 0..25) ELSE EightOf(digits, 0..9)
  BY <1>12 DEF V1Display, FrameIf, mode, codes, digits
<1>16. EncodeDisplay(r) # Error <=> Decodes(r, [digits |-> "list"]) /\ EightOf(digits, 0..9)
  BY <1>12 DEF EncodeDisplay, FrameIf, digits
<1>17. DisplayArgs(AsRead(r)) <=>
         \/ one("digits") /\ r.args["digits"].t = "list" /\ EightOf(digits, 0..9)
         \/ r.proto = "v1" /\ one("codes") /\ r.args["codes"].t = "list" /\ EightOf(codes, 0..25)
         \/ r.proto = "v1" /\ one("mode") /\ r.args["mode"].t = "text" /\ mode \in Screens
  <2>1. TextGiven(AsRead(r), "mode") /\ AsRead(r).args["mode"].s \in Screens
          <=> Given(r, "mode") /\ r.args["mode"].t = "text" /\ mode \in Screens
    <3>1. /\ TextGiven(AsRead(r), "mode") => Given(r, "mode") /\ r.args["mode"].t = "text"
          /\ Given(r, "mode") /\ r.args["mode"].t = "text" =>
               /\ TextGiven(AsRead(r), "mode") <=> r.args["mode"].l # <<>>
               /\ AsRead(r).args["mode"].s = r.args["mode"].s
      BY TextRead
    <3>2. Given(r, "mode") => mode = r.args["mode"].s /\ IsValue(r.args["mode"])
      BY GivenFacts DEF mode
    <3>3. "" \notin Screens
      BY DEF Screens
    <3> QED
      BY <3>1, <3>2, <3>3 DEF IsValue
  <2>2. \A k : Only(AsRead(r), k) <=> Only(r, k)
    BY OnlyRead
  <2> QED
    BY <1>10, <2>1, <2>2, ReadSame DEF DisplayArgs, one
<1>18. EncodeFrame(r) # Error <=> DisplayArgs(AsRead(r))
  <2>1. CASE one("digits")
    BY <1>2, <1>5, <1>6, <1>7, <1>8, <1>9, <1>15, <1>16, <1>17, <2>1 DEF one
  <2>2. CASE one("codes")
    BY <1>2, <1>5, <1>6, <1>7, <1>8, <1>9, <1>11, <1>15, <1>16, <1>17, <2>2 DEF one
  <2>3. CASE one("mode")
    <3>1. "" \notin Screens
      BY DEF Screens
    <3> QED
      BY <1>2, <1>5, <1>6, <1>7, <1>8, <1>9, <1>11, <1>15, <1>16, <1>17, <2>3, <3>1 DEF one
  <2>4. CASE ~(one("digits") \/ one("codes") \/ one("mode"))
    BY <1>2, <1>5, <1>17, <2>4
  <2> QED
    BY <2>1, <2>2, <2>3, <2>4
<1>19. Suits(r, EncodeFrame(r))
  BY <1>2, <1>13, <1>14, ErrorSuits
<1> QED
  BY <1>1, <1>3, <1>18, <1>19, OneFrame


-----------------------------------------------------------------------------
(* Times, raw commands and the actions without arguments. *)

LEMMA ClockOfDigits ==
  ASSUME NEW a \in 0..9, NEW b \in 0..9, NEW c \in 0..9, NEW d \in 0..9
  PROVE  HHMM(<<a, b, c, d>>) <=> 10 * a + b <= 23 /\ 10 * c + d <= 59
  BY DEF HHMM

LEMMA ClockFacts == ASSUME NEW l \in Seq(Int) PROVE HHMM(l) <=> l \in Clocks
<1>1. ASSUME HHMM(l) PROVE l \in Clocks
  <2>1. Len(l) = 4 /\ l[1] \in 0..9 /\ l[2] \in 0..9 /\ l[3] \in 0..9 /\ l[4] \in 0..9
    BY <1>1 DEF HHMM
  <2>2. PICK a \in 0..9, b \in 0..9, c \in 0..9, d \in 0..9 : a = l[1] /\ b = l[2] /\ c = l[3] /\ d = l[4]
    BY <2>1
  <2>3. l = <<a, b, c, d>>
    BY <2>1, <2>2
  <2>4. 10 * a + b <= 23 /\ 10 * c + d <= 59
    BY <1>1, <2>3, ClockOfDigits
  <2>5. PICK h \in 0..23, m \in 0..59 : h = 10 * a + b /\ m = 10 * c + d
    BY <2>4
  <2>6. h \div 10 = a /\ h % 10 = b /\ m \div 10 = c /\ m % 10 = d
    BY <2>5
  <2>7. l = <<h \div 10, h % 10, m \div 10, m % 10>>
    BY <2>3, <2>6
  <2> QED
    BY <2>7 DEF Clocks
<1>2. ASSUME l \in Clocks PROVE HHMM(l)
  <2>1. l \in Clocks <=> \E h \in 0..23, m \in 0..59 : l = <<h \div 10, h % 10, m \div 10, m % 10>>
    BY DEF Clocks
  <2>2. PICK h \in 0..23, m \in 0..59 : l = <<h \div 10, h % 10, m \div 10, m % 10>>
    BY <1>2, <2>1
  <2>3. h \div 10 \in 0..9 /\ h % 10 \in 0..9 /\ m \div 10 \in 0..9 /\ m % 10 \in 0..9
    OBVIOUS
  <2>4. 10 * (h \div 10) + (h % 10) = h /\ 10 * (m \div 10) + (m % 10) = m
    OBVIOUS
  <2>5. PICK a \in 0..9, b \in 0..9, c \in 0..9, d \in 0..9 :
          a = h \div 10 /\ b = h % 10 /\ c = m \div 10 /\ d = m % 10
    BY <2>3
  <2>6. 10 * a + b <= 23 /\ 10 * c + d <= 59
    BY <2>4, <2>5
  <2>7. HHMM(<<a, b, c, d>>)
    BY <2>6, ClockOfDigits
  <2> QED
    BY <2>5, <2>7, <2>2
<1> QED
  BY <1>1, <1>2

LEMMA SecondsFacts == ASSUME NEW a \in Int, NEW b \in Int PROVE a \in 0..5 /\ b \in 0..9 <=> <<a, b>> \in Seconds
<1>1. ASSUME a \in 0..5, b \in 0..9 PROVE <<a, b>> \in Seconds
  <2>1. PICK s \in 0..59 : s = 10 * a + b
    BY <1>1
  <2>2. s \div 10 = a /\ s % 10 = b
    BY <1>1, <2>1
  <2> QED
    BY <2>2 DEF Seconds
<1>2. ASSUME <<a, b>> \in Seconds PROVE a \in 0..5 /\ b \in 0..9
  <2>1. PICK s \in 0..59 : <<a, b>> = <<s \div 10, s % 10>>
    BY <1>2 DEF Seconds
  <2>2. a = s \div 10 /\ b = s % 10
    BY <2>1
  <2> QED
    BY <2>2
<1> QED
  BY <1>1, <1>2

LEMMA TimeFacts == ASSUME NEW l \in Seq(Int) PROVE HHMMSS(l) <=> TimeOf(l)
<1> DEFINE head == SubSeq(l, 1, 4)
<1>1. CASE Len(l) = 6
  <2>1. \A i \in 1..6 : l[i] \in Int
    BY <1>1, ElementOfSeq
  <2>2. head \in Seq(Int)
    BY <2>1, SubSeqProperties
  <2>3. HHMM(head) <=> head \in Clocks
    BY <2>2, ClockFacts
  <2>4. l[5] \in 0..5 /\ l[6] \in 0..9 <=> <<l[5], l[6]>> \in Seconds
    <3>1. PICK a \in Int, b \in Int : a = l[5] /\ b = l[6]
      BY <2>1
    <3>2. a \in 0..5 /\ b \in 0..9 <=> <<a, b>> \in Seconds
      BY SecondsFacts
    <3> QED
      BY <3>1, <3>2
  <2> HIDE DEF head
  <2> QED
    BY <1>1, <2>3, <2>4 DEF HHMMSS, TimeOf, head
<1>2. CASE Len(l) # 6
  BY <1>2 DEF HHMMSS, TimeOf
<1> QED
  BY <1>1, <1>2

LEMMA HHMMIsDigits == ASSUME NEW l \in Seq(Int), HHMM(l) PROVE l \in Seq(0..9) /\ Len(l) = 4
<1>1. Len(l) = 4 /\ \A i \in 1..Len(l) : l[i] \in 0..9
  BY DEF HHMM
<1> QED
  BY <1>1, ElementsIn

\* A text that is given has its characters, and is a time only if not empty.
LEMMA TextFacts ==
  ASSUME NEW r, IsRequest(r), NEW k, Given(r, k) => r.args[k].t = "text"
  PROVE  /\ ListOf(r, k) \in Seq(Int)
         /\ TextGiven(r, k) <=> ListOf(r, k) # <<>>
         /\ TextGiven(r, k) => r.args[k].l = ListOf(r, k)
<1>1. CASE Given(r, k)
  <2>1. ListOf(r, k) = r.args[k].l /\ IsValue(r.args[k]) /\ r.args[k].t = "text"
    BY <1>1, GivenFacts
  <2>2. r.args[k].l \in Seq(Int)
    BY <2>1 DEF IsValue
  <2> QED
    BY <1>1, <2>1, <2>2 DEF TextGiven
<1>2. CASE ~Given(r, k)
  <2>1. ListOf(r, k) = <<>>
    BY <1>2, AbsentFacts
  <2> QED
    BY <1>2, <2>1 DEF TextGiven
<1> QED
  BY <1>1, <1>2

LEMMA SyncProper == ASSUME NEW r, IsRequest(r), r.action = "sync" PROVE Proper(r)
<1> DEFINE time == ListOf(r, "time")
           hhmm == ListOf(r, "hhmm")
           textual(k) == Given(r, k) => r.args[k].t = "text"
<1>1. Contract(AsRead(r)) <=> SyncArgs(AsRead(r))
  BY ReadSame, Zenon DEF Contract
<1>2. EncodeFrame(r) = IF r.proto = "v1" THEN V1Sync(r) ELSE EncodeSync(r)
  <2>1. ValidateActionArgs(r)
    BY Validation
  <2>2. EncodeV1(r) = IF ~ValidateActionArgs(r) THEN Error ELSE V1Sync(r)
    BY Zenon DEF EncodeV1
  <2>3. EncodeLegacy(r) = IF ~ValidateActionArgs(r) THEN Error ELSE EncodeSync(r)
    BY Zenon DEF EncodeLegacy
  <2> QED
    BY <2>1, <2>2, <2>3 DEF EncodeFrame
<1>3. Harmless(r) /\ r.action # "tone-sequence"
  BY DEF Harmless
<1>4. /\ Decodes(r, [time |-> "text", hhmm |-> "text"]) <=>
           r.shape \in {"object", "null"} /\ textual("time") /\ textual("hhmm")
      /\ Decodes(r, [hhmm |-> "text"]) <=> r.shape \in {"object", "null"} /\ textual("hhmm")
  BY DEF Decodes
<1>5. r.shape \in {"object", "null", "empty", "other"}
  BY DEF IsRequest
<1>6. \A k : textual(k) => /\ ListOf(r, k) \in Seq(Int)
                           /\ TextGiven(r, k) <=> ListOf(r, k) # <<>>
                           /\ TextGiven(r, k) => r.args[k].l = ListOf(r, k)
  BY TextFacts
<1>7. /\ textual("time") => (HHMMSS(time) <=> TimeOf(time))
      /\ textual("hhmm") => (HHMM(hhmm) <=> hhmm \in Clocks)
  BY <1>6, ClockFacts, TimeFacts
<1>8. \A l : [verb |-> "sync", args |-> l] # Error /\ [verb |-> "T", args |-> l] # Error
  BY DEF Error
<1>9. Suits(r, V1Sync(r))
  <2>1. \/ V1Sync(r) = Error
        \/ V1Sync(r) = [verb |-> "sync", args |-> <<>>]
        \/ textual("time") /\ HHMMSS(time) /\ V1Sync(r) = [verb |-> "sync", args |-> time]
        \/ textual("hhmm") /\ HHMM(hhmm) /\ V1Sync(r) = [verb |-> "sync", args |-> hhmm]
    BY <1>4 DEF V1Sync, FrameIf
  <2> HIDE DEF time, hhmm, textual
  <2> QED
    BY <1>3, <1>7, <2>1, ErrorSuits, BareSuits, SyncSuits
<1>10. Suits(r, EncodeSync(r))
  <2>1. "T" \in DOMAIN Takes /\ Takes["T"] = 4
    BY DEF Takes
  <2>2. Suits(r, [verb |-> "T", args |-> <<0, 0, 0, 0>>])
    <3>1. <<0, 0, 0, 0>> \in Seq(0..9) /\ Len(<<0, 0, 0, 0>>) = 4
      OBVIOUS
    <3> QED
      BY <2>1, <3>1, <1>3, LetterSuits
  <2>3. textual("hhmm") /\ HHMM(hhmm) => Suits(r, [verb |-> "T", args |-> hhmm])
    <3>1. textual("hhmm") /\ HHMM(hhmm) => hhmm \in Seq(0..9) /\ Len(hhmm) = 4
      <4>1. textual("hhmm") => hhmm \in Seq(Int)
        BY <1>6
      <4> QED
        BY <4>1, HHMMIsDigits
    <3> QED
      BY <2>1, <3>1, <1>3, LetterSuits
  <2>4. \/ EncodeSync(r) = Error
        \/ EncodeSync(r) = [verb |-> "T", args |-> <<0, 0, 0, 0>>]
        \/ textual("hhmm") /\ HHMM(hhmm) /\ EncodeSync(r) = [verb |-> "T", args |-> hhmm]
    BY <1>4 DEF EncodeSync, FrameIf
  <2> QED
    BY <2>2, <2>3, <2>4, ErrorSuits
<1> HIDE DEF time, hhmm, textual
<1>11. V1Sync(r) # Error <=>
         \/ r.shape = "empty"
         \/ /\ Decodes(r, [time |-> "text", hhmm |-> "text"])
            /\ IF time # <<>> THEN HHMMSS(time) ELSE hhmm # <<>> => HHMM(hhmm)
  BY <1>8 DEF V1Sync, FrameIf, time, hhmm
<1>12. EncodeSync(r) # Error <=>
         r.shape = "empty" \/ (Decodes(r, [hhmm |-> "text"]) /\ (hhmm # <<>> => HHMM(hhmm)))
  BY <1>8 DEF EncodeSync, FrameIf, hhmm
<1>13. SyncArgs(AsRead(r)) <=>
         \/ r.shape = "empty"
         \/ /\ r.shape # "other" /\ textual("hhmm")
            /\ r.proto = "v1" => textual("time")
            /\ IF r.proto = "v1" /\ time # <<>> THEN TimeOf(time) ELSE hhmm # <<>> => hhmm \in Clocks
  <2> DEFINE q == AsRead(r)
             typed(k) == k \in DOMAIN q.args => q.args[k].t = "text"
  <2>1. q.shape = r.shape /\ q.proto = r.proto
    BY ReadSame
  <2>2. ASSUME NEW k \in {"time", "hhmm"} PROVE typed(k) <=> textual(k)
    <3>1. k \in Optional(r)
      BY DEF Optional
    <3>2. /\ k \in DOMAIN q.args <=> k \in DOMAIN r.args /\ (k \in Optional(r) => Given(r, k))
          /\ Given(r, k) => q.args[k].t = r.args[k].t
      BY ReadFacts
    <3>3. Given(r, k) => k \in DOMAIN r.args
      BY DEF Given
    <3> QED
      BY <3>1, <3>2, <3>3 DEF textual
  <2>3. ASSUME NEW k, textual(k)
        PROVE  /\ TextGiven(q, k) <=> ListOf(r, k) # <<>>
               /\ ListOf(r, k) # <<>> => q.args[k].l = ListOf(r, k)
    <3>1. /\ TextGiven(q, k) <=> TextGiven(r, k)
          /\ TextGiven(r, k) => q.args[k].l = r.args[k].l
      BY TextRead
    <3> QED
      BY <1>6, <2>3, <3>1
  <2> HIDE DEF q
  <2>4. SyncArgs(q) <=>
          \/ r.shape = "empty"
          \/ /\ r.shape # "other" /\ typed("hhmm")
             /\ r.proto = "v1" => typed("time")
             /\ IF r.proto = "v1" /\ TextGiven(q, "time") THEN TimeOf(q.args["time"].l)
                ELSE TextGiven(q, "hhmm") => q.args["hhmm"].l \in Clocks
    BY <2>1 DEF SyncArgs
  <2>5. (typed("hhmm") <=> textual("hhmm")) /\ (typed("time") <=> textual("time"))
    BY <2>2
  <2> HIDE DEF typed
  <2>6. /\ textual("time") => (TextGiven(q, "time") <=> time # <<>>) /\ (time # <<>> => q.args["time"].l = time)
        /\ textual("hhmm") => (TextGiven(q, "hhmm") <=> hhmm # <<>>) /\ (hhmm # <<>> => q.args["hhmm"].l = hhmm)
    BY <2>3 DEF time, hhmm
  <2> QED
    BY <2>4, <2>5, <2>6 DEF q
<1>14. EncodeFrame(r) # Error <=> SyncArgs(AsRead(r))
  BY <1>2, <1>4, <1>5, <1>7, <1>11, <1>12, <1>13
<1>15. Suits(r, EncodeFrame(r))
  BY <1>2, <1>9, <1>10
<1> QED
  BY <1>1, <1>3, <1>14, <1>15, OneFrame

LEMMA RawProper == ASSUME NEW r, IsRequest(r), r.action = "raw" PROVE Proper(r)
<1> DEFINE l == ListOf(r, "args")
           textual == Given(r, "args") => r.args["args"].t = "text"
<1>1. Contract(AsRead(r)) <=> RawArgs(AsRead(r))
  BY ReadSame, Zenon DEF Contract
<1>2. EncodeFrame(r) = IF r.proto = "v1" THEN Error ELSE EncodeRaw(r)
  <2>1. ValidateActionArgs(r)
    BY Validation
  <2>2. EncodeV1(r) = Error
    BY Zenon DEF EncodeV1
  <2>3. EncodeLegacy(r) = IF ~ValidateActionArgs(r) THEN Error ELSE EncodeRaw(r)
    BY Zenon DEF EncodeLegacy
  <2> QED
    BY <2>1, <2>2, <2>3 DEF EncodeFrame
<1>3. r.action # "tone-sequence"
  OBVIOUS
<1>4. Decodes(r, [args |-> "text"]) <=> r.shape \in {"object", "null"} /\ textual
  BY DEF Decodes
<1>5. textual => /\ l \in Seq(Int)
                 /\ TextGiven(r, "args") <=> l # <<>>
                 /\ TextGiven(r, "args") => r.args["args"].l = l
  BY TextFacts
<1>6. TextGiven(r, "args") => textual /\ r.shape = "object"
  BY GivenFacts DEF TextGiven
<1>7. r.proto \in {"v1", "legacy"}
  BY DEF IsRequest
<1>8. [verb |-> "raw", args |-> l] # Error
  BY DEF Error
<1> HIDE DEF l
<1>9. EncodeRaw(r) = IF Decodes(r, [args |-> "text"]) /\ Len(l) \in 1..64 /\ -2 \notin ToSet(l)
                     THEN [verb |-> "raw", args |-> l] ELSE Error
  BY DEF EncodeRaw, FrameIf, l
<1>10. textual => (l # <<>> /\ Len(l) <= 64 <=> Len(l) \in 1..64)
  <2>1. ASSUME l \in Seq(Int) PROVE l # <<>> /\ Len(l) <= 64 <=> Len(l) \in 1..64
    <3>1. PICK n \in Nat : n = Len(l)
      BY <2>1
    <3>2. l # <<>> <=> n # 0
      BY <2>1, <3>1, EmptySeq
    <3>3. n # 0 /\ n <= 64 <=> n \in 1..64
      OBVIOUS
    <3> QED
      BY <3>1, <3>2, <3>3, Zenon
  <2> QED
    BY <1>5, <2>1
<1> HIDE DEF textual
<1>11. RawArgs(AsRead(r)) <=> r.proto = "legacy" /\ textual /\ l # <<>> /\ Len(l) <= 64 /\ -2 \notin ToSet(l)
  <2>1. /\ TextGiven(AsRead(r), "args") <=> TextGiven(r, "args")
        /\ TextGiven(r, "args") => AsRead(r).args["args"].l = r.args["args"].l
    BY TextRead
  <2> QED
    BY <1>5, <1>6, <2>1, ReadSame DEF RawArgs
<1>12. l # <<>> /\ textual => r.shape = "object"
  BY <1>5, <1>6
<1>13. EncodeFrame(r) # Error <=> RawArgs(AsRead(r))
  BY <1>2, <1>4, <1>5, <1>7, <1>8, <1>9, <1>10, <1>11, <1>12
<1>14. Suits(r, EncodeFrame(r))
  <2> DEFINE f == [verb |-> "raw", args |-> l]
  <2>1. f.verb = "raw" /\ f.args = l
    OBVIOUS
  <2> HIDE DEF f
  <2>2. Len(l) \in 1..64 /\ -2 \notin ToSet(l) => Fits(f)
    BY <2>1, Letters, Zenon DEF Fits
  <2>3. Stops(f) <=> -3 \in ToSet(l)
    BY <2>1, Zenon DEF Stops
  <2>4. AsksStop(r) <=> -3 \in ToSet(l)
    BY Zenon DEF AsksStop, l
  <2>5. EncodeRaw(r) = Error \/ (EncodeRaw(r) = f /\ Fits(f))
    BY <1>9, <2>2 DEF f
  <2>6. Suits(r, EncodeRaw(r))
    BY <2>3, <2>4, <2>5, Zenon DEF Suits
  <2> QED
    BY <1>2, <2>6, ErrorSuits
<1> QED
  BY <1>1, <1>3, <1>13, <1>14, OneFrame

\* sensor, diag and isp take no arguments, and any are as good as none.
LEMMA BareProper == ASSUME NEW r, IsRequest(r), r.action \in {"sensor", "diag", "isp"} PROVE Proper(r)
<1>1. ValidateActionArgs(r)
  BY Validation
<1>2. Contract(AsRead(r)) <=> (r.action = "diag" => r.proto = "v1") /\ (r.action = "isp" => r.proto = "legacy")
  <2>1. CASE r.action = "sensor"
    BY <2>1, ReadSame, Zenon DEF Contract
  <2>2. CASE r.action = "diag"
    BY <2>2, ReadSame, Zenon DEF Contract
  <2>3. CASE r.action = "isp"
    BY <2>3, ReadSame, Zenon DEF Contract
  <2> QED
    BY <2>1, <2>2, <2>3
<1>3. /\ r.action = "sensor" => EncodeV1(r) = FrameIf(TRUE, "state", <<>>) /\ EncodeLegacy(r) = FrameIf(TRUE, "V", <<>>)
      /\ r.action = "diag" => EncodeV1(r) = FrameIf(TRUE, "diag", <<>>) /\ EncodeLegacy(r) = Error
      /\ r.action = "isp" => EncodeV1(r) = Error /\ EncodeLegacy(r) = FrameIf(TRUE, "D", <<>>)
  BY <1>1, Zenon DEF EncodeV1, EncodeLegacy
<1>4. \A verb : FrameIf(TRUE, verb, <<>>) = [verb |-> verb, args |-> <<>>]
  BY DEF FrameIf
<1>5. /\ Harmless(r) => /\ Suits(r, [verb |-> "state", args |-> <<>>]) /\ Suits(r, [verb |-> "diag", args |-> <<>>])
                        /\ Suits(r, [verb |-> "V", args |-> <<>>])
      /\ r.action = "isp" => Suits(r, [verb |-> "D", args |-> <<>>])
  <2>1. <<>> \in Seq(0..9) /\ Len(<<>>) = 0 /\ Takes["V"] = 0 /\ Takes["D"] = 0 /\ {"V", "D"} \subseteq DOMAIN Takes
    BY DEF Takes
  <2>2. Fits([verb |-> "D", args |-> <<>>])
    BY <2>1, LetterFits
  <2>3. r.action = "isp" => Suits(r, [verb |-> "D", args |-> <<>>])
    BY <2>2 DEF Suits, Stops, AsksStop
  <2> QED
    BY <2>1, <2>3, BareSuits, LetterSuits
<1>6. \A verb \in {"state", "diag", "V", "D"} : [verb |-> verb, args |-> <<>>] # Error
  BY DEF Error
<1>7. EncodeFrame(r) = IF r.proto = "v1" THEN EncodeV1(r) ELSE EncodeLegacy(r)
  BY DEF EncodeFrame
<1>8. r.proto \in {"v1", "legacy"}
  BY DEF IsRequest
<1>9. (r.action # "isp" => Harmless(r)) /\ r.action # "tone-sequence"
  BY DEF Harmless
<1>10. EncodeFrame(r) # Error <=> Contract(AsRead(r))
  BY <1>2, <1>3, <1>4, <1>6, <1>7, <1>8
<1>11. Suits(r, EncodeFrame(r))
  BY <1>3, <1>4, <1>5, <1>7, <1>8, <1>9, ErrorSuits
<1> QED
  BY <1>9, <1>10, <1>11, OneFrame

\* A note that the check of a sequence lets through is encoded, as a tone.
LEMMA NoteSent ==
  ASSUME NEW note \in Note, NoteOk(note)
  PROVE  Fits(EncodeFrame(NoteRequest(note))) /\ ~Stops(EncodeFrame(NoteRequest(note)))
<1> DEFINE q    == NoteRequest(note)
           keys == {"frequency_hz", "duration_ms"}
<1>1. note.hz \in Int /\ note.ms \in Int /\ NoteDue(note)
  BY NoteFacts DEF Note
<1>2. /\ q.action = "tone" /\ q.proto = "v1" /\ q.shape = "object" /\ DOMAIN q.args = keys
      /\ q.args["frequency_hz"] = Num(note.hz) /\ q.args["duration_ms"] = Num(note.ms)
  BY DEF NoteRequest
<1>3. /\ \A n \in Int : IsValue(Num(n))
      /\ \A n : Num(n).t = "int" /\ Num(n).n = n
  BY DEF IsValue, Num
<1>r. IsRecord(q)
  <2>1. /\ q.args["frequency_hz"] = Num(note.hz) /\ q.args["duration_ms"] = Num(note.ms)
        /\ DOMAIN q.args = keys
    BY <1>2
  <2>2. \A k \in DOMAIN q.args : q.args[k] = [t |-> q.args[k].t, n |-> q.args[k].n, l |-> q.args[k].l,
                                               z |-> q.args[k].z, s |-> q.args[k].s]
    BY <2>1 DEF Num
  <2>3. q.args = [k \in DOMAIN q.args |-> q.args[k]]
    BY DEF NoteRequest
  <2> QED
    BY <2>2, <2>3, Zenon DEF IsRecord, NoteRequest
<1> HIDE DEF q
<1>4. IsRequest(q)
  <2>1. IsFiniteSet(keys)
    <3>1. IsFiniteSet({"frequency_hz"}) /\ keys = {"frequency_hz"} \cup {"duration_ms"}
      BY FS_Singleton
    <3> HIDE DEF keys
    <3> QED
      BY <3>1, FS_AddElement
  <2> QED
    BY <1>1, <1>2, <1>3, <1>r, <2>1 DEF IsRequest, Actions
<1>5. /\ \A k \in keys : Given(q, k) /\ q.args[k].t = "int"
      /\ IntOf(q, "frequency_hz") = note.hz /\ IntOf(q, "duration_ms") = note.ms
  BY <1>2, <1>3 DEF Given, IntOf, Field
<1>6. DOMAIN AsRead(q).args = keys
  <2>1. Optional(q) = {}
    BY <1>2 DEF Optional
  <2> QED
    BY <1>2, <2>1, ReadFacts
<1>7. ToneArgs(AsRead(q))
  <2>1. note.hz \in 1..4000 /\ note.ms \in Tens(1, 120)
    BY <1>1 DEF NoteDue
  <2>2. Has(AsRead(q), "frequency_hz", 1..4000) /\ Has(AsRead(q), "duration_ms", Tens(1, 120))
    BY <1>4, <1>5, <2>1, HasFacts
  <2> QED
    BY <1>2, <1>6, <2>2, ReadSame DEF ToneArgs
<1>8. Due(q)
  <2>1. Contract(AsRead(q))
    BY <1>2, <1>7, ReadSame, Zenon DEF Contract
  <2> QED
    BY <1>2, <2>1 DEF Due, WithinTotal
<1>9. AllFit(q)
  BY <1>2, <1>4, <1>8, ToneProper DEF Proper
<1>10. Frames(q) = {EncodeFrame(q)} /\ ~AsksStop(q)
  BY <1>2 DEF Frames, Expanded, AsksStop
<1> QED
  BY <1>9, <1>10, Zenon DEF AllFit, q

\* A note sequence is accepted as a whole, and then sent note by note.
LEMMA NotesProper == ASSUME NEW r, IsRequest(r), r.action = "tone-sequence" PROVE Proper(r)
<1> DEFINE q     == AsRead(r)
           notes == Field(r, "notes").l
           gap   == IntOf(r, "gap_ms")
           typed == /\ Given(r, "notes") => r.args["notes"].t = "notes"
                    /\ Given(r, "gap_ms") => r.args["gap_ms"].t = "int"
           some  == Len(notes) \in 1..MaxNotes
           total == TotalMs(notes, gap) <= MaxTotal
           known == DOMAIN r.args \subseteq {"notes", "gap_ms"}
           listed == Given(r, "notes") /\ r.args["notes"].t = "notes"
<1>1. (Contract(q) <=> NotesArgs(q)) /\ (WithinTotal(r) <=> total)
  BY ReadSame, Zenon DEF Contract, WithinTotal, IntOf
<1>2. EncodeFrame(r) = Error
  <2>1. EncodeV1(r) = Error /\ EncodeLegacy(r) = Error
    BY Zenon DEF EncodeV1, EncodeLegacy
  <2> QED
    BY <2>1 DEF EncodeFrame
<1>3. Accepts(r) <=> r.proto = "v1" /\ ToneSequenceOk(r)
  BY <1>2 DEF Accepts, Expanded
<1>4. Decodes(r, [notes |-> "notes", gap_ms |-> "int"]) <=> r.shape \in {"object", "null"} /\ typed
  BY DEF Decodes
<1>5. ToneSequenceOk(r) <=>
        /\ known /\ r.shape \in {"object", "null"} /\ typed /\ some
        /\ gap \in 0..1000 /\ gap % 10 = 0
        /\ \A i \in DOMAIN notes : NoteOk(notes[i])
        /\ total
  BY <1>4 DEF ToneSequenceOk, IntOf
<1>6. listed => r.args["notes"].l = notes /\ notes \in Seq(Note)
  <2>1. Given(r, "notes") => notes = r.args["notes"].l /\ IsValue(r.args["notes"])
    BY GivenFacts DEF Field, Given
  <2>2. IsValue(r.args["notes"]) /\ r.args["notes"].t = "notes" => r.args["notes"].l \in Seq(Note)
    BY Zenon DEF IsValue
  <2> QED
    BY <2>1, <2>2
<1>7. NotesArgs(q) <=>
        /\ r.proto = "v1" /\ known /\ listed /\ some
        /\ \A i \in DOMAIN notes : NoteDue(notes[i])
        /\ Given(r, "gap_ms") => Has(q, "gap_ms", Tens(0, 100))
  <2>1. Optional(r) = {"gap_ms"}
    BY DEF Optional
  <2>2. \A k : /\ Given(q, k) <=> Given(r, k)
               /\ Given(r, k) => k \in DOMAIN q.args /\ q.args[k].t = r.args[k].t /\ q.args[k].l = Filled(r.args[k])
               /\ k \in DOMAIN q.args <=> k \in DOMAIN r.args /\ (k \in Optional(r) => Given(r, k))
    BY ReadFacts
  <2>3. Field(q, "notes").t = "notes" <=> listed
    <3>1. Field(q, "notes").t = "notes" <=> Given(q, "notes") /\ q.args["notes"].t = "notes"
      BY DEF Field, Given, Zero
    <3> QED
      BY <2>2, <3>1
  <2>4. listed => Field(q, "notes").l = notes
    <3>1. r.args["notes"].t = "notes" => Filled(r.args["notes"]) = r.args["notes"].l
      BY DEF Filled
    <3>2. Given(q, "notes") => Field(q, "notes").l = q.args["notes"].l
      BY DEF Field, Given
    <3> QED
      BY <1>6, <2>2, <3>1, <3>2
  <2>5. DOMAIN q.args \subseteq {"notes", "gap_ms"} <=> known
    BY <2>1, <2>2
  <2>6. "gap_ms" \in DOMAIN q.args <=> Given(r, "gap_ms")
    BY <2>1, <2>2 DEF Given
  <2>7. q.proto = r.proto
    BY ReadSame
  <2> HIDE DEF q, notes, listed, known
  <2> QED
    BY <2>3, <2>4, <2>5, <2>6, <2>7 DEF NotesArgs
<1>8. some => Given(r, "notes")
  <2>1. ASSUME ~Given(r, "notes") PROVE Len(notes) = 0
    <3>1. notes = <<>>
      BY <2>1, Zenon DEF IsRequest, IsValue, Field, Given, Zero
    <3> QED
      BY <3>1
  <2> QED
    BY <2>1
<1>9. Given(r, "notes") => r.shape = "object"
  BY GivenFacts
<1>10. ASSUME listed, NEW i \in DOMAIN notes PROVE notes[i] \in Note /\ (NoteOk(notes[i]) <=> NoteDue(notes[i]))
  <2>1. i \in 1..Len(notes)
    BY <1>6, <1>10
  <2>2. notes[i] \in Note
    BY <1>6, <1>10, <2>1, ElementOfSeq
  <2> QED
    BY <2>2, NoteFacts
<1>11. Given(r, "gap_ms") => (Has(q, "gap_ms", Tens(0, 100)) <=> r.args["gap_ms"].t = "int" /\ gap \in 0..1000 /\ gap % 10 = 0)
  <2>1. gap \in Int
    BY IntArg
  <2>2. gap \in Tens(0, 100) <=> 10 * 0 <= gap /\ gap <= 10 * 100 /\ gap % 10 = 0
    BY <2>1, TensFacts
  <2>3. gap \in Tens(0, 100) <=> gap \in 0..1000 /\ gap % 10 = 0
    BY <2>1, <2>2
  <2> QED
    BY <2>3, HasFacts
<1>12. ~Given(r, "gap_ms") => gap \in 0..1000 /\ gap % 10 = 0
  <2>1. ~Given(r, "gap_ms") => gap = 0
    BY AbsentFacts
  <2> QED
    BY <2>1
<1> DEFINE spaced == gap \in 0..1000 /\ gap % 10 = 0
           right  == \A i \in DOMAIN notes : NoteOk(notes[i])
           due    == \A i \in DOMAIN notes : NoteDue(notes[i])
<1>13. listed => (right <=> due)
  BY <1>10
<1>14. r.proto = "v1" /\ ToneSequenceOk(r) => AllFit(r)
  <2> SUFFICES ASSUME r.proto = "v1", ToneSequenceOk(r), NEW f \in Frames(r) PROVE Fits(f) /\ ~Stops(f)
    BY DEF AllFit, AsksStop
  <2>1. listed /\ right
    BY <1>5, <1>8
  <2>2. PICK i \in DOMAIN notes : f = EncodeFrame(NoteRequest(notes[i]))
    BY DEF Frames, Expanded, ToSet
  <2>3. notes[i] \in Note /\ NoteOk(notes[i])
    BY <1>10, <2>1, <2>2
  <2> QED
    BY <2>2, <2>3, NoteSent
<1> HIDE DEF q, notes, gap, some, total, known, spaced, right, due, listed
<1>15. ToneSequenceOk(r) /\ r.proto = "v1" <=> NotesArgs(q) /\ total
  <2>1. ToneSequenceOk(r) <=> known /\ r.shape \in {"object", "null"} /\ typed /\ some /\ spaced /\ right /\ total
    BY <1>5 DEF spaced, right
  <2>2. NotesArgs(q) <=> /\ r.proto = "v1" /\ known /\ listed /\ some /\ due
                         /\ Given(r, "gap_ms") => Has(q, "gap_ms", Tens(0, 100))
    BY <1>7 DEF due
  <2>3. /\ Given(r, "gap_ms") => (Has(q, "gap_ms", Tens(0, 100)) <=> r.args["gap_ms"].t = "int" /\ spaced)
        /\ ~Given(r, "gap_ms") => spaced
    BY <1>11, <1>12 DEF spaced
  <2> QED
    BY <1>8, <1>9, <1>13, <2>1, <2>2, <2>3 DEF listed
<1> QED
  BY <1>1, <1>3, <1>14, <1>15 DEF Proper, Due, q

-----------------------------------------------------------------------------
(* Together: every request, and every step of the system. *)

LEMMA EveryRequestIsProper == ASSUME NEW r, IsRequest(r) PROVE Proper(r)
<1>1. r.action \in Actions
  BY DEF IsRequest
<1> QED
  BY <1>1, BuzzerProper, ToneProper, NotesProper, LedProper, DisplayProper, MotorProper, SyncProper,
     RawProper, BareProper DEF Actions

\* The code departs from the README for a null and for a long sequence only.
LEMMA NoDeparture == ASSUME NEW r, IsRequest(r), AsWritten(r) PROVE Due(r) <=> Contract(r)
<1>1. \A k \in DOMAIN r.args : r.args[k].t # "null" /\ r.args[k].z = {} /\ IsValue(r.args[k])
  BY DEF AsWritten, HasNull, IsRequest
<1>2. {k \in DOMAIN r.args : k \in Optional(r) => Given(r, k)} = DOMAIN r.args
  BY <1>1 DEF Given
<1>3. ASSUME NEW k \in DOMAIN r.args
      PROVE  ReadAs(r.args[k]) = [t |-> r.args[k].t, n |-> r.args[k].n, l |-> r.args[k].l,
                                  z |-> r.args[k].z, s |-> r.args[k].s]
  <2>1. r.args[k].z = {} /\ (r.args[k].t = "list" => r.args[k].l \in Seq(Int))
    BY <1>1 DEF IsValue
  <2>2. Filled(r.args[k]) = r.args[k].l
    BY <2>1 DEF Filled
  <2> QED
    BY <2>1, <2>2 DEF ReadAs
<1>4. AsRead(r) = r
  BY <1>2, <1>3, Zenon DEF AsRead, IsRequest, IsRecord
<1> QED
  BY <1>4, Zenon DEF Due, AsWritten

Settled == AcceptedPerContract /\ FramesFit

LEMMA SettledInit == Init => Settled
  BY DEF Init, Settled, AcceptedPerContract, FramesFit

LEMMA ExecuteSettles == ASSUME NEW r, IsRequest(r), NEW id, Execute(r, id) PROVE Settled'
<1>1. verdict' = [accepted |-> Accepts(r), due |-> Due(r), promised |-> Contract(r), plain |-> AsWritten(r),
                  fits |-> AllFit(r), since |-> Len(handled)]
  BY DEF Execute
<1>2. (Accepts(r) <=> Due(r)) /\ (Accepts(r) => AllFit(r)) /\ (AsWritten(r) => (Due(r) <=> Contract(r)))
  BY EveryRequestIsProper, NoDeparture DEF Proper
<1>3. /\ (verdict'.accepted <=> Accepts(r)) /\ (verdict'.due <=> Due(r)) /\ (verdict'.fits <=> AllFit(r))
      /\ (verdict'.plain <=> AsWritten(r)) /\ (verdict'.promised <=> Contract(r))
  BY <1>1, Zenon
<1> QED
  BY <1>2, <1>3 DEF Settled, AcceptedPerContract, FramesFit

LEMMA SettledStep == Settled /\ [Next]_vars => Settled'
<1> SUFFICES ASSUME Settled, [Next]_vars PROVE Settled'
  OBVIOUS
<1>1. verdict' = verdict => Settled'
  BY DEF Settled, AcceptedPerContract, FramesFit
<1>2. ASSUME NEW id \in Ids, Execute(Plain, id) PROVE Settled'
  BY <1>2, RequestsAssumption, ExecuteSettles
<1>3. ASSUME NEW a \in DOMAIN Requests, NEW r \in Requests[a], Execute(r, PlainId) PROVE Settled'
  BY <1>3, RequestsAssumption, ExecuteSettles
<1>4. CASE Speak
  BY <1>1, <1>4 DEF Speak
<1>5. CASE Read
  BY <1>1, <1>5 DEF Read
<1>6. CASE TakeLine
  BY <1>1, <1>6 DEF TakeLine
<1>7. CASE UNCHANGED vars
  BY <1>1, <1>7 DEF vars
<1> QED
  BY <1>2, <1>3, <1>4, <1>5, <1>6, <1>7 DEF Next, Quiet

\* Whatever the arguments of a request, the driver accepts them exactly if the
\* JSON decoder reads from them what README.md:117-122 promises, and a note
\* sequence is not too long (AcceptedPerContract).
THEOREM AcceptedPerContractHolds == Spec => []AcceptedPerContract
<1>1. Settled => AcceptedPerContract
  BY DEF Settled
<1> QED
  BY SettledInit, SettledStep, <1>1, PTL DEF Spec

\* Whatever the arguments of a request that is accepted, each frame that is sent
\* for it fits the fields of the firmware, and holds the D that stops a legacy
\* board exactly if the request is isp or a raw text with that letter (FramesFit).
THEOREM FramesFitHolds == Spec => []FramesFit
<1>1. Settled => FramesFit
  BY DEF Settled
<1> QED
  BY SettledInit, SettledStep, <1>1, PTL DEF Spec

=============================================================================
