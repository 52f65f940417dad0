----------------------------- MODULE MCStcbLines -----------------------------
(***************************************************************************)
(* An instance of StcbLines for TLC: lines and arguments around every      *)
(* limit that the parsers and the encoders know.                           *)
(***************************************************************************)
EXTENDS StcbLinesInv

Chars(n, c) == [i \in 1..n |-> c]
Line(s) == s \o <<"CR", LF>>

\* A state line with some of its fields replaced.
Normal ==
  [key \in Fields |-> CASE key \in Adcs -> <<"3", "F", "F">> [] key \in Bits -> <<"1">>
                        [] key = "navkey" -> <<"6">> [] key = "led" -> <<"F", "F">>]
FieldText(key, s) == <<",", key, "=">> \o s
ClockText(h)      == <<"clock", "=">> \o h \o <<":", "5", "9", ":", "0", "0">>
StateText(h, f)   ==
  <<"STATE:">> \o ClockText(h) \o FoldSet(LAMBDA key, s : s \o FieldText(key, f[key]), <<>>, Fields)
State(f) == Line(StateText(<<"2", "3">>, f))

V(digits) == <<"V", ":">> \o digits
Measures  == <<"2", "3", "5", "9", "5", "9", "2", "3", "F", "F">> \o Chars(14, "0") \o <<"1">>

MCBoardTexts ==
  {State(Normal), State([Normal EXCEPT !["temp"] = <<"4", "0", "0">>]),
   State([Normal EXCEPT !["navkey"] = <<"7">>]), State([Normal EXCEPT !["hall"] = <<"+", "1">>]),
   State([Normal EXCEPT !["led"] = <<>>]), Line(StateText(<<"2", "4">>, Normal)),
   Line(StateText(<<"-", "9">>, Normal) \o FieldText("light", <<"0", "0", "0">>)),
   Line(V(Measures)), <<"noise", NUL, NUL>> \o Line(<<"V", "FFFD">> \o Measures),
   Line(V([Measures EXCEPT ![7] = "3"])), Line(V([Measures EXCEPT ![8] = "4"])),
   Line(<<"EVENT:", "key", "1", ":", "down">>), Line(<<"EVENT:", "nav", "=">> \o V(Measures)),
   Line(<<"EVENT:", " ">>), Line(<<"DIAG:", "uptime", "=", "1">>), Line(<<"DIAG:">> \o V(Measures)),
   Line(<<"HELLO:stcb-full:v1">>),
   Line(<<"ACK", ":", ":", "ok">>), Line(<<"ACK", ":", "k", ":", "ok">>), Line(<<>>), <<"noise">>,
   Chars(FloodLimit, "noise") \o <<LF>>, Chars(FloodLimit + 2, "noise") \o Line(<<"EVENT:", "hall", "=", "away">>)}

\* "k" and "j" are other characters; the last id is cut.
MCIds == {<<"k">>, <<>>, <<"k", ":", "j">>, <<"k", LF>>, <<"k", "j", "k", "j">>, <<"k", "j", "k", ":">>}

MCTokens == UNION {ToSet(text) : text \in MCBoardTexts \cup MCIds} \cup {":", "ACK", "ERR", "ok", "badarg"}

-----------------------------------------------------------------------------
(* Values, and the requests of each action. *)

Null    == Zero("any")
Other   == [Null EXCEPT !.t = "other"]
Numbers(l_) == [Null EXCEPT !.t = "list", !.l = l_]
Holed(l_, z_) == [Numbers(l_) EXCEPT !.z = z_]
Text(l_) == [Null EXCEPT !.t = "text", !.l = l_, !.s = IF l_ = <<>> THEN "" ELSE "text"]
Word(w) == [Text(<<-1>>) EXCEPT !.s = w]
Notes(l_) == [Null EXCEPT !.t = "notes", !.l = l_]

Ints(S) == {Num(n) : n \in S} \cup {Null, Other}

\* Objects over some of the keys of a table of values, with either protocol.
Objects(values) ==
  UNION {[keys -> UNION {values[k] : k \in DOMAIN values}] : keys \in SUBSET DOMAIN values}
Typed(values) == {args \in Objects(values) : \A k \in DOMAIN args : args[k] \in values[k]}
NoArgs == [k \in {} |-> Null]
Asks(action, argss) ==
  {[action |-> action, proto |-> p, shape |-> "object", args |-> args] : p \in {"v1", "legacy"}, args \in argss}
    \cup {[action |-> action, proto |-> p, shape |-> s, args |-> NoArgs] : p \in {"v1", "legacy"}, s \in {"null", "empty", "other"}}

NoteLists == {<<>>} \cup {<<[hz |-> hz, ms |-> ms]>> : hz \in {0, 1, 4000, 4001}, ms \in {0, 10, 15, 1200, 1210}}
              \cup {Chars(n, [hz |-> 440, ms |-> ms]) : n \in 2..(MaxNotes + 1), ms \in {100, 150, 160}}

MCPlain == [action |-> "sensor", proto |-> "v1", shape |-> "empty", args |-> NoArgs]
MCPlainId == <<"k">>

MCRequests ==
  [buzzer  |-> Asks("buzzer", Typed([freq |-> Ints({0, 1, 8, 9}), duration |-> Ints({-1, 0, 8, 9})])),
   motor   |-> Asks("motor", Typed([steps |-> Ints({-1, 0, 1, 4, 5})])),
   tone    |-> Asks("tone", Typed([frequency_hz |-> Ints({0, 1, 4000, 4001}), duration_ms |-> Ints({0, 10, 15, 1200, 1210}),
                                   extra |-> {Null}])),
   led     |-> Asks("led", Typed([mask |-> Ints({-1, 0, 255, 256}), pattern |-> Ints({-1, 0, 1, 8, 9, 10})])),
   display |-> Asks("display",
                 Typed([digits |-> {Numbers(Chars(8, 9)), Numbers(Chars(8, 10)), Numbers(Chars(7, 0)), Numbers(<<>>),
                                   Holed(Chars(8, 9), {1, 8}), Holed(Chars(8, 10), 2..8), Holed(Chars(7, 9), {7}), Null, Other},
                        codes  |-> {Numbers(Chars(8, 25)), Numbers(Chars(8, 26)), Numbers(Chars(9, 0)), Numbers(<<>>),
                                   Holed(Chars(8, 26), 1..8), Holed(Chars(8, 25), {8}), Null, Other},
                        mode   |-> {Word("io"), Word("off"), Text(<<>>), Null, Other}])),
   sync    |-> Asks("sync",
                 Typed([time |-> {Text(<<2, 3, 5, 9, 5, 9>>), Text(<<2, 3, 5, 9, 6, 0>>), Text(<<2, 3, 5, 9>>), Text(<<>>), Null, Other},
                        hhmm |-> {Text(<<2, 3, 5, 9>>), Text(<<2, 4, 0, 0>>), Text(<<0, 0, 6, 0>>), Text(<<0, 0, -1, 0>>), Null, Other}])),
   raw     |-> Asks("raw", Typed([args |-> {Text(Chars(64, -1)), Text(Chars(65, -1)), Text(<<1, -2>>), Text(<<-3>>), Text(<<>>), Null, Other}])),
   tone_sequence |-> Asks("tone-sequence",
                 Typed([notes |-> {Notes(l_) : l_ \in NoteLists} \cup {Null, Other},
                                  gap_ms |-> Ints({-10, 0, 5, 100, 1000, 1010})])),
   other   |-> Asks("sensor", {NoArgs}) \cup Asks("diag", {NoArgs}) \cup Asks("isp", {NoArgs})]
=============================================================================
