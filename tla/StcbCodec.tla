------------------------------ MODULE StcbCodec ------------------------------
(***************************************************************************)
(* How the driver reads the lines of a board (plugin/protocol_v1.go and    *)
(* plugin/parser.go, and the cutting and cleaning of lines in rxLoop of    *)
(* plugin/device.go).                                                      *)
(*                                                                         *)
(* A text is a sequence of tokens.  Characters that the code looks at one  *)
(* by one (separators, digits, signs, blanks) are tokens of their own; a   *)
(* fixed word such as "STATE:" is one token.  Hexadecimal digits are upper *)
(* case here; the code takes both.                                         *)
(***************************************************************************)
EXTENDS Integers, Sequences, FiniteSets, SequencesExt

LF     == "LF"
NUL    == "NUL"
Blanks == {" ", "CR", LF}

\* strings.Split: the pieces between separators.
Split(s, sep) ==
  LET cuts == SelectSeq([i \in DOMAIN s |-> i], LAMBDA i : s[i] = sep) IN
  [k \in 1..(Len(cuts) + 1) |->
     SubSeq(s, IF k = 1 THEN 1 ELSE cuts[k - 1] + 1, IF k > Len(cuts) THEN Len(s) ELSE cuts[k] - 1)]

\* strings.SplitN with 2 and with 3: what is before the first separator (or the
\* first two), and the rest; all of it when there is no separator.
Places(s, sep) == {i \in DOMAIN s : s[i] = sep}
Cut(s, sep) ==
  IF Places(s, sep) = {} THEN <<s>>
  ELSE LET i == Min(Places(s, sep)) IN <<SubSeq(s, 1, i - 1), SubSeq(s, i + 1, Len(s))>>
Cut3(s, sep) ==
  LET p == Cut(s, sep) IN IF Len(p) = 1 THEN p ELSE <<p[1]>> \o Cut(p[2], sep)

TrimSpace(s) ==
  LET keep == {i \in DOMAIN s : s[i] \notin Blanks} IN
  IF keep = {} THEN <<>> ELSE SubSeq(s, Min(keep), Max(keep))

\* What rxLoop hands to handleLine: NULs are dropped, then the blanks around.
Clean(s) == TrimSpace(IF Places(s, NUL) = {} THEN s ELSE SelectSeq(s, LAMBDA c : c # NUL))

-----------------------------------------------------------------------------
(* Numbers. *)

Digits == <<"0", "1", "2", "3", "4", "5", "6", "7", "8", "9", "A", "B", "C", "D", "E", "F">>
Hexadecimal   == {Digits[i] : i \in 1..16}
DecimalDigits == {Digits[i] : i \in 1..10}
DigitOf       == [c \in Hexadecimal |-> (CHOOSE i \in 1..16 : Digits[i] = c) - 1]

IsNumber(s, chars) == s # <<>> /\ \A i \in 1..Len(s) : s[i] \in chars
Hex2(s)    == 16 * DigitOf[s[1]] + DigitOf[s[2]]
Hex3(s)    == 256 * DigitOf[s[1]] + 16 * DigitOf[s[2]] + DigitOf[s[3]]
Decimal(s) == FoldLeft(LAMBDA n, c : n * 10 + DigitOf[c], 0, s)

\* strconv.Atoi takes a sign.
Unsigned(s) == IF s # <<>> /\ Head(s) \in {"+", "-"} THEN Tail(s) ELSE s
IsInt(s)    == IsNumber(Unsigned(s), DecimalDigits)
Atoi(s)     == IF Head(s) = "-" THEN -Decimal(Tail(s)) ELSE Decimal(Unsigned(s))

\* Each field parser says whether it accepts a text; Atoi, Hex2 or Hex3 is its value.
AnyHex3(s)      == Len(s) = 3 /\ IsNumber(s, Hexadecimal)        \* mutant: no bit size
Hex3Ok(s)       == Len(s) = 3 /\ IsNumber(s, Hexadecimal) /\ Hex3(s) < 1024
HexByteOk(s)    == Len(s) = 2 /\ IsNumber(s, Hexadecimal)
RangeOk(s, max) == IsInt(s) /\ Atoi(s) \in 0..max
BitOk(s)        == IsInt(s) /\ Atoi(s) \in {0, 1}

-----------------------------------------------------------------------------
(* Protocol v1 lines. *)

Adcs == {"temp", "light", "nav", "ext0", "ext1"}
Bits == {"hall", "vib", "k1", "k2", "k3"}
Fields == Adcs \cup Bits \cup {"navkey", "led"}

\* The value of each key: of its last occurrence, and empty when there is none.
\* Unknown keys are passed over.
KeyValues(line) ==
  LET parts == Split(Tail(line), ",")
      pairs == [i \in DOMAIN parts |-> Cut(parts[i], "=")]
  IN [key \in Fields \cup {"clock"} |->
        LET has == {i \in DOMAIN pairs : Len(pairs[i]) = 2 /\ pairs[i][1] = <<key>>} IN
        IF has = {} THEN <<>> ELSE pairs[Max(has)][2]]

\* hh:mm:ss; only the upper bounds are compared.
ClockOk(c) ==
  /\ Len(c) = 8 /\ c[3] = ":" /\ c[6] = ":"
  /\ \A p \in {<<1, 23>>, <<4, 59>>, <<7, 59>>} :
       LET s == SubSeq(c, p[1], p[1] + 1) IN IsInt(s) /\ Atoi(s) <= p[2]

FieldOk(key, s) ==
  CASE key \in Adcs   -> Hex3Ok(s)
    [] key \in Bits   -> BitOk(s)
    [] key = "navkey" -> RangeOk(s, 6)
    [] key = "led"    -> HexByteOk(s)

FieldValue(key, s) == IF key \in Adcs THEN Hex3(s) ELSE IF key = "led" THEN Hex2(s) ELSE Atoi(s)

IsFullState(line) ==
  /\ IsPrefix(<<"STATE:">>, line)
  /\ LET kv == KeyValues(line) IN ClockOk(kv["clock"]) /\ \A key \in Fields : FieldOk(key, kv[key])

FullState(line) ==
  LET kv == KeyValues(line) IN
  [clock |-> [i \in 1..3 |-> Atoi(SubSeq(kv["clock"], 3 * i - 2, 3 * i - 1))],
   value |-> [key \in Fields |-> FieldValue(key, kv[key])]]

\* ACK:<id>:ok and ERR:<id>:<code>.
IsDeviceAck(line) ==
  /\ IsPrefix(<<"ACK", ":">>, line) \/ IsPrefix(<<"ERR", ":">>, line)
  /\ LET p == Cut3(line, ":") IN Len(p) = 3 /\ p[2] # <<>> /\ TrimSpace(p[3]) # <<>>

DeviceAck(line) ==
  LET p == Cut3(line, ":") IN
  [id |-> p[2], ok |-> line[1] = "ACK" /\ TrimSpace(p[3]) = <<"ok">>]

IsEvent(line)   == IsPrefix(<<"EVENT:">>, line) /\ TrimSpace(Tail(line)) # <<>>
EventBody(line) == TrimSpace(Tail(line))

\* NormalizeProtocolEvent: the entity of an event; its type goes with it.
EventEntity(body) ==
  CASE body \in {<<"hall", "=", "close">>, <<"hall", "=", "away">>} -> <<"hall">>
    [] body = <<"vib", "=", "quake">> -> <<"vibration">>
    [] Head(body) = "nav" /\ Len(body) > 1 /\ body[2] = "=" -> <<"navigation">>
    [] Head(body) = "key" /\ Len(Cut(body, ":")) = 2 -> Cut(body, ":")[1]
    [] Head(body) = "key" /\ Len(Cut(body, ":")) = 1 /\ Len(Cut(body, "=")) = 2 -> Cut(body, "=")[1]
    [] OTHER -> <<>>

IsDiagnostic(line) ==
  /\ IsPrefix(<<"DIAG:">>, line)
  /\ \E part \in ToSet(Split(Tail(line), ",")) :
       LET p == Cut(part, "=") IN Len(p) = 2 /\ p[1] # <<>>

-----------------------------------------------------------------------------
(* The legacy V frame: V, perhaps a separator (which may have been damaged to *)
(* U+FFFD), and 25 digits, anywhere in the line; the first match is taken.    *)

MatchAt(s, i) ==        \* the digits of a match that begins at i, or none
  LET j == IF i < Len(s) /\ s[i + 1] \in {":", "FFFD"} THEN i + 2 ELSE i + 1
      f == [k \in 1..25 |-> s[j + k - 1]]
  IN IF s[i] = "V" /\ j + 24 <= Len(s) /\ IsNumber(f, Hexadecimal) THEN f ELSE <<>>

Matches(s) == {i \in 1..Len(s) : MatchAt(s, i) # <<>>}

\* Where the fields begin, and the largest value of each; an ADC has 10 bits.
BcdFields == {<<1, 23>>, <<3, 59>>, <<5, 59>>}
HexFields == {<<7, 2>>, <<23, 1>>, <<24, 1>>, <<25, 1>>}
AdcFields == {8, 11, 14, 17, 20}

IsSensor(line) ==
  /\ Matches(line) # {}
  /\ LET f == MatchAt(line, Min(Matches(line))) IN
     /\ \A b \in BcdFields : LET s == SubSeq(f, b[1], b[1] + 1) IN IsNumber(s, DecimalDigits) /\ Decimal(s) <= b[2]
     /\ \A h \in HexFields : DigitOf[f[h[1]]] <= h[2]
     /\ \A i \in AdcFields : Hex3(SubSeq(f, i, i + 2)) <= 1023

Sensor(line) == MatchAt(line, Min(Matches(line)))
=============================================================================
