--------------------------- MODULE StcbLegacyProofs ---------------------------
(***************************************************************************)
(* Theorems about StcbLegacy, for every set of calls and of streams, every *)
(* table of argument bytes, every number of polls and every fault.         *)
(***************************************************************************)
EXTENDS StcbLegacyInv, SequenceTheorems, TLAPS

\* The letters of the actions.
LEMMA LetterFacts ==
  /\ DOMAIN Letter = {"buzzer", "led", "display", "motor", "sensor", "sync", "isp"}
  /\ \A a \in DOMAIN Letter : Letter[a] \in Letters /\ Letter[a] # "x"
  /\ Letter["sensor"] = "V" /\ Letter["isp"] = "D" /\ Letter["sync"] = "T"
  /\ "S" \in Letters /\ "V" \in Letters /\ "T" \in Letters /\ "x" \notin Letters
  BY DEF Letter, Letters

\* What a request is, once it is not refused.
LEMMA AcceptedFacts ==
  ASSUME NEW c \in Calls, NEW r \in Requests[c], ~Refused(r)
  PROVE  /\ r.action \in DOMAIN Letter \/ (r.action = "raw" /\ r.text \in Letters)
         /\ "raw" \notin DOMAIN Letter
         /\ r.action \in Paced => r.action # "raw"
         /\ r.action \notin Paced => r.action \in {"raw", "sensor", "isp"}
<1>1. r.action \in DOMAIN Letter \cup V1Only \cup {"raw"} /\ (r.action = "raw" => r.text \in Letters)
  BY RequestsAssumption DEF RequestsAssumption
<1> QED
  BY <1>1, LetterFacts DEF Refused, V1Only, Paced

\* A frame is a letter and as many argument bytes as the letter has, except
\* that raw sends a letter alone; what is written at once is one byte.
LEMMA FrameFacts ==
  ASSUME NEW c \in Calls, NEW r \in Requests[c], ~Refused(r)
  PROVE  /\ Len(Frame(r)) \in Nat \ {0}
         /\ Frame(r)[1] \in Letters
         /\ \A i \in 2..Len(Frame(r)) : Frame(r)[i] = "x"
         /\ Len(Frame(r)) = 1 + ArgBytes[Frame(r)[1]] \/ (r.action = "raw" /\ ArgBytes[r.text] # 0)
         /\ r.action \notin Paced => Len(Frame(r)) = 1
         /\ r.action = "sync" => Frame(r)[1] = "T"
         /\ Frame(r) \in Seq(Letters \cup {"x"})
<1> USE AcceptedFacts, LetterFacts, ArgsAssumption DEF ArgsAssumption
<1>1. CASE r.action = "raw"
  <2>1. Frame(r) = <<r.text>>
    BY <1>1 DEF Frame
  <2> QED
    BY <1>1, <2>1
<1>2. CASE r.action # "raw"
  <2> DEFINE l == Letter[r.action]  n == ArgBytes[l]  args == [i \in 1..n |-> "x"]
  <2>1. l \in Letters /\ n \in Nat
    BY <1>2
  <2>2. Frame(r) = <<l>> \o args
    BY <1>2 DEF Frame
  <2>3. args \in Seq(Letters \cup {"x"}) /\ Len(args) = n /\ \A i \in 1..n : args[i] = "x"
    BY <2>1
  <2>4. <<l>> \in Seq(Letters \cup {"x"}) /\ Len(<<l>>) = 1 /\ <<l>>[1] = l
    BY <2>1
  <2>5. r.action \notin Paced => n = 0
    BY <1>2
  <2>6. r.action = "sync" => l = "T"
    OBVIOUS
  <2> HIDE DEF l, n, args
  <2>7. /\ Frame(r) \in Seq(Letters \cup {"x"}) /\ Len(Frame(r)) = 1 + n
        /\ Frame(r)[1] = l /\ \A i \in 2..(1 + n) : Frame(r)[i] = args[i - 1]
    BY <2>1, <2>2, <2>3, <2>4, ConcatProperties
  <2>8. \A i \in 2..(1 + n) : i - 1 \in 1..n
    BY <2>1
  <2> QED
    BY <1>2, <2>1, <2>3, <2>5, <2>6, <2>7, <2>8 DEF n
<1> QED
  BY <1>1, <1>2

-----------------------------------------------------------------------------
(* Typing. *)

LEMMA TypeInit == Init => TypeOK
<1> SUFFICES ASSUME Init PROVE TypeOK
  OBVIOUS
<1>1. Nothing \in Answers /\ [clock |-> None, at |-> 0] \in Frames
  BY DEF Nothing, Answers, Frames, Clocks
<1>2. line \in Seq(Bytes) /\ air \in Seq(Clocks)
  BY DEF Init
<1>3. polls \in [Watches -> 0..MaxPolls]
  BY BoundsAssumption DEF Init, BoundsAssumption
<1>4. told \in [Calls -> Answers] /\ sensor \in Frames
  BY <1>1 DEF Init
<1>5. {port, done, dead, marking} \subseteq BOOLEAN /\ {misread, blame} \subseteq BOOLEAN
  BY DEF Init
<1>6. /\ pc \in [Calls -> {"enter", "write", "pace", "wait", "claim", "end"}]
      /\ req \in [Calls -> (UNION {Requests[c] : c \in Calls}) \cup {None}]
      /\ \A c \in Calls : req[c] \in Requests[c] \cup {None}
      /\ sent \in [Calls -> Nat] /\ before \in [Calls -> Nat]
  BY DEF Init
<1>7. /\ poll \in [Watches -> {"tick", "S", "V"}] /\ rxLoop \in {"run", "exit"}
      /\ clock \in Clocks /\ isp \in BOOLEAN /\ disturbed \subseteq Calls
  BY DEF Init, Clocks
<1> QED
  BY <1>2, <1>3, <1>4, <1>5, <1>6, <1>7 DEF TypeOK

\* What the board does with a byte keeps its variables in their types.
LEMMA TakesType ==
  ASSUME TypeOK, NEW b \in Bytes, Takes(b)
  PROVE  line' \in Seq(Bytes) /\ air' \in Seq(Clocks) /\ clock' \in Clocks /\ isp' \in BOOLEAN /\ misread' \in BOOLEAN
<1> DEFINE buf == Append(line, b)
<1>1. buf \in Seq(Bytes) /\ buf # <<>>
  <2>1. line \in Seq(Bytes)
    BY DEF TypeOK
  <2> QED
    BY <2>1
<1>2. Head(buf) \in Bytes
  BY <1>1
<1>3. Head(buf).by \in Clocks
  BY <1>2 DEF Bytes, Clocks
<1>4. CASE UNCHANGED <<boardVars, misread>>
  BY <1>4 DEF boardVars, TypeOK
<1>5. CASE line' = <<>> /\ CarriesOut(buf)
  <2> HIDE DEF buf
  <2>1. line' \in Seq(Bytes)
    BY <1>5
  <2>2. clock' \in Clocks
    BY <1>3, <1>5 DEF CarriesOut, TypeOK, Clocks
  <2>3. isp' \in BOOLEAN /\ misread' \in BOOLEAN
    BY <1>5 DEF CarriesOut, TypeOK
  <2>4. air' = air \/ air' = Append(air, clock')
    <3>1. CASE OneWriter(buf) /\ WholeFrame(Head(buf).by, buf)
      BY <1>5, <3>1 DEF CarriesOut
    <3>2. CASE ~(OneWriter(buf) /\ WholeFrame(Head(buf).by, buf))
      BY <1>5, <3>2 DEF CarriesOut
    <3> QED
      BY <3>1, <3>2
  <2>5. air' \in Seq(Clocks)
    <3>1. air \in Seq(Clocks)
      BY DEF TypeOK
    <3> QED
      BY <2>2, <2>4, <3>1
  <2> QED
    BY <2>1, <2>2, <2>3, <2>5
<1>6. CASE line' = buf /\ UNCHANGED <<clock, isp, air, misread>>
  BY <1>1, <1>6 DEF TypeOK
<1> QED
  BY <1>4, <1>5, <1>6 DEF Takes

LEMMA WritesType ==
  ASSUME TypeOK, NEW w \in Writers, NEW ch \in Letters \cup {"x"}, Writes(w, ch)
  PROVE  /\ line' \in Seq(Bytes) /\ air' \in Seq(Clocks) /\ clock' \in Clocks /\ isp' \in BOOLEAN
         /\ misread' \in BOOLEAN /\ blame' \in BOOLEAN /\ disturbed' \subseteq Calls
<1>1. [by |-> w, ch |-> ch] \in Bytes
  BY DEF Bytes
<1>2. CASE Takes([by |-> w, ch |-> ch]) /\ blame' = (blame \/ Halfway \ {w} # {})
  BY <1>1, <1>2, TakesType DEF Writes, TypeOK
<1>3. CASE blame' = TRUE /\ UNCHANGED <<boardVars, misread>>
  BY <1>3 DEF Writes, TypeOK, boardVars
<1> QED
  BY <1>2, <1>3 DEF Writes

\* The next byte of a call is one of its frame.
LEMMA NextByte ==
  ASSUME TypeOK, CallInv, NEW c \in Calls, pc[c] = "write"
  PROVE  /\ req[c] \in Requests[c] /\ ~Refused(req[c])
         /\ sent[c] + 1 \in 1..Len(Frame(req[c]))
         /\ Frame(req[c])[sent[c] + 1] \in Letters \cup {"x"}
<1>1. req[c] \in Requests[c] /\ ~Refused(req[c]) /\ sent[c] < Len(Frame(req[c]))
  BY DEF TypeOK, CallInv, CallOk, Running
<1>2. Len(Frame(req[c])) \in Nat /\ Frame(req[c]) \in Seq(Letters \cup {"x"})
  BY <1>1, FrameFacts
<1>3. sent[c] \in Nat
  BY DEF TypeOK
<1> QED
  BY <1>1, <1>2, <1>3

LEMMA TypeNext == TypeOK /\ CallInv /\ [Next]_vars => TypeOK'
<1> SUFFICES ASSUME TypeOK, CallInv, [Next]_vars PROVE TypeOK'
  OBVIOUS
<1> USE DEF callVars, pollVars, lifeVars, boardVars, history, Goto, Tell
<1>1. ASSUME NEW c \in Calls, SendCommand(c) PROVE TypeOK'
  <2>1. PICK r \in Requests[c] : /\ req' = [req EXCEPT ![c] = r]
                                 /\ IF Refused(r) THEN Tell(c, "FAILED", None) ELSE Goto(c, "write") /\ UNCHANGED told
    BY <1>1 DEF SendCommand
  <2>2. req' \in [Calls -> (UNION {Requests[d] : d \in Calls}) \cup {None}]
        /\ \A d \in Calls : req'[d] \in Requests[d] \cup {None}
    BY <1>1, <2>1 DEF TypeOK
  <2>3. [as |-> "FAILED", frame |-> None] \in Answers
    BY DEF Answers
  <2>4. told' \in [Calls -> Answers]
        /\ pc' \in [Calls -> {"enter", "write", "pace", "wait", "claim", "end"}]
    BY <1>1, <2>1, <2>3 DEF TypeOK
  <2>5. before' \in [Calls -> Nat] /\ disturbed' \subseteq Calls
    BY <1>1 DEF SendCommand, TypeOK, Frames
  <2> QED
    BY <1>1, <2>2, <2>4, <2>5 DEF SendCommand, TypeOK
<1>2. ASSUME NEW c \in Calls, Write(c) PROVE TypeOK'
  <2>1. told' = told \/ told' = [told EXCEPT ![c] = [as |-> "sent", frame |-> None]]
        \/ told' = [told EXCEPT ![c] = [as |-> "FAILED", frame |-> None]]
    BY <1>2 DEF Write
  <2>2. [as |-> "sent", frame |-> None] \in Answers /\ [as |-> "FAILED", frame |-> None] \in Answers
    BY DEF Answers
  <2>3. told' \in [Calls -> Answers]
    BY <1>2, <2>1, <2>2 DEF TypeOK
  <2>4. pc' \in [Calls -> {"enter", "write", "pace", "wait", "claim", "end"}]
    BY <1>2 DEF Write, TypeOK
  <2>5. CASE Writes(c, Frame(req[c])[sent[c] + 1]) /\ sent' = [sent EXCEPT ![c] = @ + 1] /\ UNCHANGED lifeVars
    <3>1. c \in Writers /\ Frame(req[c])[sent[c] + 1] \in Letters \cup {"x"}
      BY <1>2, NextByte DEF Write, Writers
    <3>2. sent' \in [Calls -> Nat]
      BY <2>5 DEF TypeOK
    <3> QED
      BY <1>2, <2>3, <2>4, <2>5, <3>1, <3>2, WritesType DEF Write, TypeOK
  <2>6. CASE /\ CannotWrite /\ GivesUp(c)
             /\ UNCHANGED <<sent, boardVars, misread, disturbed, port, done, dead, rxLoop>>
    <3>1. marking' \in BOOLEAN /\ blame' \in BOOLEAN
      BY <2>6 DEF CannotWrite, GivesUp
    <3> QED
      BY <1>2, <2>3, <2>4, <2>6, <3>1 DEF Write, TypeOK
  <2> QED
    BY <1>2, <2>5, <2>6 DEF Write
<1>3. ASSUME NEW c \in Calls, Pace(c) PROVE TypeOK'
  <2>1. told' = told \/ told' = [told EXCEPT ![c] = [as |-> "sent", frame |-> None]]
        \/ told' = [told EXCEPT ![c] = [as |-> "FAILED", frame |-> None]]
    BY <1>3 DEF Pace
  <2>2. [as |-> "sent", frame |-> None] \in Answers /\ [as |-> "FAILED", frame |-> None] \in Answers
    BY DEF Answers
  <2>3. told' \in [Calls -> Answers]
    BY <1>3, <2>1, <2>2 DEF TypeOK
  <2>4. pc' \in [Calls -> {"enter", "write", "pace", "wait", "claim", "end"}] /\ blame' \in BOOLEAN
    BY <1>3 DEF Pace, TypeOK, GivesUp
  <2> QED
    BY <1>3, <2>3, <2>4 DEF Pace, TypeOK
<1>4. ASSUME NEW c \in Calls, WaitEnds(c) \/ WaitLooks(c) PROVE TypeOK'
  <2>1. told' = told \/ told' = [told EXCEPT ![c] = [as |-> "noframe", frame |-> None]]
    BY <1>4 DEF WaitEnds, WaitLooks
  <2>2. [as |-> "noframe", frame |-> None] \in Answers
    BY DEF Answers
  <2>3. told' \in [Calls -> Answers]
    BY <1>4, <2>1, <2>2 DEF TypeOK
  <2>4. pc' \in [Calls -> {"enter", "write", "pace", "wait", "claim", "end"}]
    BY <1>4 DEF WaitEnds, WaitLooks, TypeOK
  <2>5. UNCHANGED <<req, sent, before, pollVars, sensor, lifeVars, boardVars, history>>
    BY <1>4 DEF WaitEnds, WaitLooks
  <2> QED
    BY <2>3, <2>4, <2>5 DEF TypeOK
<1>5. ASSUME NEW c \in Calls, Claim(c) PROVE TypeOK'
  <2>1. sensor.at \in Nat \ {0} /\ sensor \in Frames
    BY <1>5 DEF Claim, CallInv, CallOk, HasFresh, TypeOK, Frames
  <2>2. [as |-> "frame", frame |-> sensor] \in Answers
    BY <2>1 DEF Answers, Frames
  <2>3. told' \in [Calls -> Answers]
    BY <1>5, <2>2 DEF Claim, TypeOK
  <2>4. pc' \in [Calls -> {"enter", "write", "pace", "wait", "claim", "end"}]
    BY <1>5 DEF Claim, TypeOK
  <2> QED
    BY <1>5, <2>3, <2>4 DEF Claim, TypeOK
<1>6. ASSUME NEW w \in Watches, Tick(w) PROVE TypeOK'
  <2>1. polls' \in [Watches -> 0..MaxPolls]
    BY <1>6, BoundsAssumption DEF Tick, TypeOK, BoundsAssumption
  <2> QED
    BY <1>6, <2>1 DEF Tick, TypeOK
<1>7. ASSUME NEW w \in Watches, Poll(w) PROVE TypeOK'
  <2>1. poll' \in [Watches -> {"tick", "S", "V"}]
    BY <1>7 DEF Poll, TypeOK
  <2>2. CASE Writes(w, poll[w]) /\ UNCHANGED lifeVars
    <3>1. w \in Writers /\ poll[w] \in Letters \cup {"x"}
      BY <1>7, LetterFacts DEF Poll, TypeOK, Writers
    <3> QED
      BY <1>7, <2>1, <2>2, <3>1, WritesType DEF Poll, TypeOK
  <2>3. CASE CannotWrite /\ UNCHANGED <<port, done, dead, rxLoop, boardVars, history>>
    <3>1. marking' \in BOOLEAN
      BY <2>3 DEF CannotWrite
    <3> QED
      BY <1>7, <2>1, <2>3, <3>1 DEF Poll, TypeOK
  <2> QED
    BY <1>7, <2>2, <2>3 DEF Poll
<1>8. ASSUME RxHandle PROVE TypeOK'
  <2>1. Head(air) \in Clocks /\ Tail(air) \in Seq(Clocks)
    BY <1>8 DEF RxHandle, TypeOK
  <2>2. sensor' \in Frames
    BY <1>8, <2>1 DEF RxHandle, TypeOK, Frames
  <2> QED
    BY <1>8, <2>1, <2>2 DEF RxHandle, TypeOK
<1>9. ASSUME FrameLost PROVE TypeOK'
  BY <1>9 DEF FrameLost, TypeOK
<1>10. ASSUME RxExits \/ MarkDead \/ Close \/ PortFails PROVE TypeOK'
  BY <1>10 DEF RxExits, MarkDead, Close, PortFails, TypeOK
<1>11. ASSUME UNCHANGED vars PROVE TypeOK'
  BY <1>11 DEF vars, TypeOK
<1> QED
  BY <1>1, <1>2, <1>3, <1>4, <1>5, <1>6, <1>7, <1>8, <1>9, <1>10, <1>11 DEF Next, CallStep, Quiet

-----------------------------------------------------------------------------
(* The calls. *)

\* What the answer of a call has to be true to.
Answered(c) ==
  /\ told[c].as = "frame" => told[c].frame.at > before[c] /\ sent[c] = Len(Frame(req[c]))
  /\ told[c].as \in {"sent", "noframe"} => sent[c] = Len(Frame(req[c]))

\* The part of the invariant that is about one call.
CallsOk == \A c \in Calls : CallOk(c) /\ Answered(c)

LEMMA CallsOkIs == CallsOk <=> CallInv /\ ClaimsAreNew /\ SentWhole
  BY DEF CallsOk, CallInv, ClaimsAreNew, SentWhole, Answered

\* What a step leaves alone of call d; the time of the last frame only grows.
Leaves(d) ==
  /\ pc'[d] = pc[d] /\ req'[d] = req[d] /\ sent'[d] = sent[d]
  /\ before'[d] = before[d] /\ told'[d] = told[d]
Later == sensor' = sensor \/ sensor'.at = sensor.at + 1

LEMMA CallKept ==
  ASSUME TypeOK, NEW d \in Calls, CallOk(d), Answered(d), Leaves(d), Later
  PROVE  CallOk(d)' /\ Answered(d)'
<1>1. HasFresh(d) => HasFresh(d)'
  <2>1. sensor.at \in Nat /\ before[d] \in Nat
    BY DEF TypeOK, Frames
  <2> QED
    BY <2>1 DEF HasFresh, Leaves, Later
<1>2. Answered(d)'
  BY DEF Answered, Leaves
<1>3. CallOk(d)'
  BY <1>1 DEF CallOk, Leaves
<1> QED
  BY <1>2, <1>3

LEMMA CallsInit == Init => CallsOk
<1> SUFFICES ASSUME Init, NEW c \in Calls PROVE CallOk(c) /\ Answered(c)
  BY DEF CallsOk
<1>1. pc[c] = "enter" /\ req[c] = None /\ sent[c] = 0 /\ told[c] = Nothing
  BY DEF Init
<1>2. Nothing.as = "none"
  BY DEF Nothing
<1> QED
  BY <1>1, <1>2 DEF CallOk, Answered, Running

\* A step of call c leaves every other call alone.
LEMMA OthersLeft ==
  ASSUME TypeOK, NEW c \in Calls, CallStep(c) \/ WaitLooks(c), NEW d \in Calls \ {c}
  PROVE  Leaves(d) /\ sensor' = sensor
<1> USE DEF Leaves, TypeOK, Goto, Tell
<1>1. CASE SendCommand(c)
  BY <1>1 DEF SendCommand
<1>2. CASE Write(c)
  BY <1>2 DEF Write
<1>3. CASE Pace(c)
  BY <1>3 DEF Pace
<1>4. CASE WaitEnds(c) \/ Claim(c) \/ WaitLooks(c)
  BY <1>4 DEF WaitEnds, Claim, WaitLooks
<1> QED
  BY <1>1, <1>2, <1>3, <1>4 DEF CallStep

\* Call c after a step of its own.
LEMMA OwnStep ==
  ASSUME TypeOK, CallsOk, NEW c \in Calls, CallStep(c) \/ WaitLooks(c)
  PROVE  CallOk(c)' /\ Answered(c)'
<1>0. CallOk(c) /\ Answered(c)
  BY DEF CallsOk
<1>1. CASE SendCommand(c)
  <2>1. PICK r \in Requests[c] : /\ req' = [req EXCEPT ![c] = r]
                                 /\ IF Refused(r) THEN Tell(c, "FAILED", None) ELSE Goto(c, "write") /\ UNCHANGED told
    BY <1>1 DEF SendCommand
  <2>2. req'[c] = r /\ r # None /\ sent'[c] = 0 /\ told[c] = Nothing
    BY <1>0, <1>1, <2>1, RequestsAssumption DEF SendCommand, CallOk, RequestsAssumption, TypeOK
  <2>3. CASE Refused(r)
    <3>1. pc'[c] = "end" /\ told'[c].as = "FAILED"
      BY <2>1, <2>3 DEF Tell, Goto, TypeOK
    <3> QED
      BY <2>2, <3>1 DEF CallOk, Answered, Running
  <2>4. CASE ~Refused(r)
    <3>1. pc'[c] = "write" /\ told'[c] = Nothing
      BY <2>1, <2>2, <2>4 DEF Goto, TypeOK
    <3>2. Nothing.as = "none" /\ 0 < Len(Frame(r))
      BY <2>4, FrameFacts DEF Nothing
    <3> QED
      BY <2>2, <2>4, <3>1, <3>2 DEF CallOk, Answered, Running
  <2> QED
    BY <2>3, <2>4
<1>2. CASE Write(c)
  <2>1. req'[c] = req[c] /\ req[c] \in Requests[c] /\ ~Refused(req[c]) /\ req[c] # None /\ told[c] = Nothing
    BY <1>0, <1>2 DEF Write, CallOk, Running, TypeOK
  <2>2. /\ Len(Frame(req[c])) \in Nat \ {0} /\ sent[c] \in Nat /\ sent[c] < Len(Frame(req[c]))
        /\ req[c].action \notin Paced => sent[c] + 1 = Len(Frame(req[c]))
    <3>1. /\ sent[c] \in Nat /\ sent[c] < Len(Frame(req[c]))
          /\ req[c].action \notin Paced => sent[c] = 0
      BY <1>0, <1>2 DEF Write, CallOk, TypeOK
    <3>2. /\ Len(Frame(req[c])) \in Nat \ {0}
          /\ req[c].action \notin Paced => Len(Frame(req[c])) = 1
      BY <2>1, FrameFacts
    <3>3. CASE req[c].action \in Paced
      BY <3>1, <3>2, <3>3
    <3>4. CASE req[c].action \notin Paced
      <4>1. sent[c] + 1 = 1
        BY <3>1, <3>4
      <4> QED
        BY <3>1, <3>2, <3>4, <4>1
    <3> QED
      BY <3>3, <3>4
  <2>9. Nothing.as = "none"
    BY DEF Nothing
  <2>3. CASE pc'[c] = "end" /\ told'[c].as = "FAILED"
    BY <2>1, <2>3 DEF CallOk, Answered, Running
  <2>4. CASE sent'[c] = sent[c] + 1 /\ req[c].action \in Paced /\ pc'[c] = "pace" /\ told'[c] = told[c]
    <3>1. sent'[c] \in 1..Len(Frame(req[c]))
      BY <2>2, <2>4
    <3> QED
      BY <2>1, <2>4, <2>9, <3>1 DEF CallOk, Answered, Running
  <2>5. CASE sent'[c] = sent[c] + 1 /\ req[c].action \notin Paced /\ pc'[c] = "wait" /\ told'[c] = told[c]
    BY <2>1, <2>2, <2>5, <2>9 DEF CallOk, Answered, Running
  <2>6. CASE sent'[c] = sent[c] + 1 /\ req[c].action \notin Paced /\ pc'[c] = "end" /\ told'[c].as = "sent"
    BY <2>1, <2>2, <2>6 DEF CallOk, Answered, Running
  <2>7. CASE Writes(c, Frame(req[c])[sent[c] + 1]) /\ sent' = [sent EXCEPT ![c] = @ + 1]
    <3>1. sent'[c] = sent[c] + 1
      BY <2>7 DEF TypeOK
    <3>2. \/ req[c].action \in Paced /\ pc'[c] = "pace" /\ told'[c] = told[c]
          \/ req[c].action \notin Paced /\ pc'[c] = "wait" /\ told'[c] = told[c]
          \/ req[c].action = "isp" /\ pc'[c] = "end" /\ told'[c].as = "sent"
          \/ pc'[c] = "end" /\ told'[c].as = "FAILED"
      BY <1>2 DEF Write, Goto, Tell, TypeOK
    <3>3. "isp" \notin Paced
      BY DEF Paced
    <3> QED
      BY <2>3, <2>4, <2>5, <2>6, <3>1, <3>2, <3>3
  <2>8. CASE CannotWrite /\ Tell(c, "FAILED", None)
    <3>1. pc'[c] = "end" /\ told'[c].as = "FAILED"
      BY <2>8 DEF Tell, Goto, TypeOK
    <3> QED
      BY <2>3, <3>1
  <2> QED
    BY <1>2, <2>7, <2>8 DEF Write
<1>3. CASE Pace(c)
  <2>1. /\ req'[c] = req[c] /\ sent'[c] = sent[c]
        /\ req[c] \in Requests[c] /\ ~Refused(req[c]) /\ req[c] # None /\ told[c] = Nothing
        /\ sent[c] \in 1..Len(Frame(req[c])) /\ req[c].action \in Paced
    BY <1>0, <1>3 DEF Pace, CallOk, Running, TypeOK
  <2>2. Len(Frame(req[c])) \in Nat
    BY <2>1, FrameFacts
  <2>3. \/ sent[c] < Len(Frame(req[c])) /\ pc'[c] = "write" /\ told'[c] = told[c]
        \/ ~(sent[c] < Len(Frame(req[c]))) /\ pc'[c] = "wait" /\ told'[c] = told[c]
        \/ ~(sent[c] < Len(Frame(req[c]))) /\ pc'[c] = "end" /\ told'[c].as = "sent"
        \/ pc'[c] = "end" /\ told'[c].as = "FAILED"
    BY <1>3 DEF Pace, Goto, Tell, Total, TypeOK
  <2>4. ~(sent[c] < Len(Frame(req[c]))) => sent[c] = Len(Frame(req[c]))
    BY <2>1, <2>2
  <2> QED
    BY <2>1, <2>3, <2>4 DEF CallOk, Answered, Running, Nothing
<1>4. CASE WaitEnds(c) \/ WaitLooks(c)
  <2>1. /\ pc[c] = "wait" /\ req'[c] = req[c] /\ sent'[c] = sent[c] /\ HasFresh(c)' = HasFresh(c)
    BY <1>4 DEF WaitEnds, WaitLooks, WindowOver, HasFresh
  <2>2. \/ pc'[c] = "end" /\ told'[c].as = "noframe"
        \/ pc'[c] = "claim" /\ HasFresh(c) /\ told'[c] = told[c]
    BY <1>4 DEF WaitEnds, WaitLooks, Goto, Tell, LastLook, TypeOK
  <2> QED
    BY <1>0, <2>1, <2>2 DEF CallOk, Answered, Running, Nothing
<1>5. CASE Claim(c)
  <2>1. /\ pc[c] = "claim" /\ req'[c] = req[c] /\ sent'[c] = sent[c] /\ before'[c] = before[c]
        /\ pc'[c] = "end" /\ told'[c].as = "frame" /\ told'[c].frame = sensor
    BY <1>5 DEF Claim, Goto, Tell, TypeOK
  <2> QED
    BY <1>0, <2>1 DEF CallOk, Answered, Running, HasFresh
<1> QED
  BY <1>1, <1>2, <1>3, <1>4, <1>5 DEF CallStep

LEMMA CallsNext == TypeOK /\ CallsOk /\ [Next]_vars => CallsOk'
<1> SUFFICES ASSUME TypeOK, CallsOk, [Next]_vars PROVE CallsOk'
  OBVIOUS
<1>1. ASSUME NEW c \in Calls, CallStep(c) \/ WaitLooks(c) PROVE CallsOk'
  <2> SUFFICES ASSUME NEW d \in Calls PROVE CallOk(d)' /\ Answered(d)'
    BY DEF CallsOk
  <2>1. CASE d = c
    BY <1>1, <2>1, OwnStep
  <2>2. CASE d # c
    BY <1>1, <2>2, OthersLeft, CallKept DEF CallsOk, Later
  <2> QED
    BY <2>1, <2>2
<1>2. ASSUME UNCHANGED callVars, Later PROVE CallsOk'
  <2> SUFFICES ASSUME NEW d \in Calls PROVE CallOk(d)' /\ Answered(d)'
    BY DEF CallsOk
  <2>1. Leaves(d)
    BY <1>2 DEF callVars, Leaves
  <2> QED
    BY <1>2, <2>1, CallKept DEF CallsOk
<1>3. ASSUME NEW w \in Watches, Tick(w) \/ Poll(w) PROVE UNCHANGED callVars /\ Later
  BY <1>3 DEF Tick, Poll, Later
<1>4. ASSUME RxHandle PROVE UNCHANGED callVars /\ Later
  BY <1>4 DEF RxHandle, Later
<1>5. ASSUME FrameLost \/ RxExits \/ MarkDead \/ Close \/ PortFails \/ UNCHANGED vars
      PROVE  UNCHANGED callVars /\ Later
  BY <1>5 DEF FrameLost, RxExits, MarkDead, Close, PortFails, vars, Later
<1> QED
  BY <1>1, <1>2, <1>3, <1>4, <1>5 DEF Next, Quiet

-----------------------------------------------------------------------------
(* A sync that has the line to itself. *)

\* The part of the invariant that is about one sync.
Alone(c) ==
  /\ OwnSync(c, line) /\ (sent[c] = 0 => line = <<>>)
  /\ \A i \in DOMAIN air : air[i] = c
  /\ sensor.at > before[c] => sensor.clock = c
SyncOk(c) ==
  c \notin disturbed =>
    /\ pc[c] \in Running /\ req[c].action = "sync" => Alone(c)
    /\ told[c].as = "frame" /\ req[c].action = "sync" => told[c].frame.clock = c
SyncsOk == \A c \in Calls : SyncOk(c)

LEMMA SyncsOkIs == SyncsOk <=> AloneInv /\ SyncConfirmed
  BY DEF SyncsOk, SyncOk, Alone, AloneInv, SyncConfirmed

LEMMA SyncsInit == Init => SyncsOk
<1> SUFFICES ASSUME Init, NEW c \in Calls PROVE SyncOk(c)
  BY DEF SyncsOk
<1>1. pc[c] = "enter" /\ told[c].as = "none"
  BY DEF Init, Nothing
<1> QED
  BY <1>1 DEF SyncOk, Running

\* A step that touches neither call d nor what it has seen of the board.
LEMMA SyncKept ==
  ASSUME NEW d \in Calls, SyncOk(d), Leaves(d), disturbed \subseteq disturbed',
         line' = line, air' = air, sensor' = sensor
  PROVE  SyncOk(d)'
<1>1. Alone(d) => Alone(d)'
  BY DEF Alone, OwnSync, Leaves
<1> QED
  BY <1>1 DEF SyncOk, Leaves

\* A step of another writer that does not disturb call d finds it at rest.
LEMMA SyncApart ==
  ASSUME NEW d \in Calls, SyncOk(d), Leaves(d), disturbed \subseteq disturbed', pc[d] \notin Running \/ d \in disturbed'
  PROVE  SyncOk(d)'
  BY DEF SyncOk, Leaves

\* The board takes the next byte of such a sync.
LEMMA SyncTakes ==
  ASSUME TypeOK, CallsOk, NEW c \in Calls, pc[c] = "write", req[c].action = "sync", Alone(c),
         Takes([by |-> c, ch |-> Frame(req[c])[sent[c] + 1]])
  PROVE  OwnSync(c, line') /\ \A i \in DOMAIN air' : air'[i] = c
<1> DEFINE byte == [by |-> c, ch |-> Frame(req[c])[sent[c] + 1]]
           buf  == Append(line, byte)
<1>1. /\ req[c] \in Requests[c] /\ ~Refused(req[c])
      /\ sent[c] + 1 \in 1..Len(Frame(req[c])) /\ sent[c] \in Nat
  BY CallsOkIs, NextByte DEF TypeOK
<1>2. /\ Len(Frame(req[c])) \in Nat /\ Frame(req[c])[1] = "T" /\ Frame(req[c]) \in Seq(Letters \cup {"x"})
      /\ \A i \in 2..Len(Frame(req[c])) : Frame(req[c])[i] = "x"
      /\ Len(Frame(req[c])) = 1 + ArgBytes["T"]
  <2>1. req[c].action # "raw"
    OBVIOUS
  <2> QED
    BY <1>1, <2>1, FrameFacts
<1>3. line \in Seq(Bytes) /\ air \in Seq(Clocks)
  BY DEF TypeOK
<1>4. OwnSync(c, line) /\ (sent[c] = 0 => line = <<>>) /\ \A i \in DOMAIN air : air[i] = c
  BY DEF Alone
<1>5. CASE UNCHANGED <<boardVars, misread>>
  BY <1>4, <1>5 DEF boardVars, OwnSync
<1>6. ASSUME Head(buf).ch # "x" PROVE OwnSync(c, buf) /\ Head(buf) = [by |-> c, ch |-> "T"]
  <2>1. CASE line = <<>>
    <3>1. buf = <<byte>>
      BY <2>1
    <3>2. byte.ch = "T"
      <4>1. byte.ch # "x"
        BY <1>6, <3>1
      <4> QED
        BY <1>1, <1>2, <4>1
    <3> QED
      BY <3>1, <3>2 DEF OwnSync
  <2>2. CASE line # <<>>
    <3>1. sent[c] + 1 \in 2..Len(Frame(req[c]))
      BY <1>1, <1>4, <2>2
    <3>2. byte = [by |-> c, ch |-> "x"]
      BY <1>2, <3>1
    <3>3. /\ Len(line) \in Nat \ {0} /\ DOMAIN line = 1..Len(line) /\ DOMAIN buf = 1..(Len(line) + 1)
          /\ buf[Len(line) + 1] = byte /\ \A i \in DOMAIN line : buf[i] = line[i]
          /\ Head(buf) = buf[1]
      BY <1>3, <2>2
    <3> QED
      BY <1>4, <3>2, <3>3 DEF OwnSync
  <2> QED
    BY <2>1, <2>2
<1>7. CASE line' = buf /\ Head(buf).ch # "x" /\ UNCHANGED air
  BY <1>4, <1>6, <1>7 DEF OwnSync
<1>8. CASE line' = <<>> /\ Head(buf).ch # "x" /\ Complete(buf) /\ CarriesOut(buf)
  <2>1. OwnSync(c, buf) /\ Head(buf) = [by |-> c, ch |-> "T"]
    BY <1>6, <1>8
  <2>2. buf \in Seq(Bytes \cup {byte}) /\ Len(buf) = Len(Frame(req[c])) /\ DOMAIN buf = 1..Len(buf)
    BY <1>2, <1>3, <1>8, <2>1 DEF Complete
  <2>9. \A i \in 1..Len(Frame(req[c])) : buf[i] = [by |-> c, ch |-> IF i = 1 THEN "T" ELSE "x"]
    <3> HIDE DEF buf
    <3> QED
      BY <2>1, <2>2 DEF OwnSync
  <2>3. Chars(buf) = Frame(req[c])
    <3> HIDE DEF buf
    <3>1. DOMAIN Chars(buf) = 1..Len(Frame(req[c])) /\ \A i \in DOMAIN buf : Chars(buf)[i] = buf[i].ch
      BY <2>2 DEF Chars
    <3>2. ASSUME NEW i \in 1..Len(Frame(req[c])) PROVE Chars(buf)[i] = Frame(req[c])[i]
      <4>1. Chars(buf)[i] = IF i = 1 THEN "T" ELSE "x"
        BY <2>2, <2>9, <3>1, <3>2
      <4>2. i = 1 \/ i \in 2..Len(Frame(req[c]))
        BY <1>2, <3>2
      <4>3. i \in 2..Len(Frame(req[c])) => i # 1
        BY <1>2
      <4> QED
        BY <1>2, <4>1, <4>2, <4>3
    <3>3. Chars(buf) = [i \in DOMAIN buf |-> Chars(buf)[i]]
      BY DEF Chars
    <3>4. Frame(req[c]) = [i \in 1..Len(Frame(req[c])) |-> Frame(req[c])[i]]
      BY <1>2
    <3> QED
      BY <2>2, <3>2, <3>3, <3>4
  <2>4. OneWriter(buf)
    <3> HIDE DEF buf
    <3>1. 1 \in 1..Len(Frame(req[c]))
      <4>1. \A n \in Nat : sent[c] + 1 \in 1..n => 1 \in 1..n
        BY <1>1
      <4> QED
        BY <1>1, <1>2, <4>1
    <3>2. ASSUME NEW i \in 1..Len(Frame(req[c])) PROVE buf[i].by = c
      <4>1. buf[i] = [by |-> c, ch |-> IF i = 1 THEN "T" ELSE "x"]
        BY <2>9, <3>2
      <4> QED
        BY <4>1
    <3> QED
      BY <2>2, <3>1, <3>2 DEF OneWriter
  <2>5. req[c] # None
    BY <1>1, RequestsAssumption DEF RequestsAssumption
  <2>6. WholeFrame(c, buf)
    BY <2>3, <2>5 DEF WholeFrame
  <2>7. clock' = c /\ (air' = air \/ air' = Append(air, clock'))
    <3> HIDE DEF buf
    <3>1. Head(buf).by = c /\ Head(buf).ch = "T"
      BY <2>1
    <3> QED
      BY <1>8, <2>4, <2>6, <3>1 DEF CarriesOut
  <2>8. \A i \in DOMAIN air' : air'[i] = c
    <3>1. CASE air' = Append(air, c)
      BY <1>3, <1>4, <3>1
    <3> QED
      BY <1>4, <2>7, <3>1
  <2> QED
    BY <1>8, <2>8 DEF OwnSync
<1> QED
  BY <1>5, <1>7, <1>8 DEF Takes

\* A writer disturbs every other call that is under way.
LEMMA WritesDisturbs ==
  ASSUME NEW w \in Writers, NEW ch \in Letters \cup {"x"}, Writes(w, ch)
  PROVE  /\ disturbed \subseteq disturbed'
         /\ \A d \in Calls \ {w} : pc[d] \notin Running \/ d \in disturbed'
  BY DEF Writes, Running

\* Call c after a step of its own.
LEMMA SyncOwnStep ==
  ASSUME TypeOK, CallsOk, NEW c \in Calls, SyncOk(c), CallStep(c) \/ WaitLooks(c)
  PROVE  SyncOk(c)'
<1>0. CallOk(c) /\ Nothing.as = "none"
  BY DEF CallsOk, Nothing
<1>1. CASE SendCommand(c)
  <2>1. pc[c] = "enter" /\ told'[c].as # "frame"
    BY <1>0, <1>1 DEF SendCommand, CallOk, Goto, Tell, TypeOK
  <2>2. CASE line = <<>> /\ air = <<>>
    <3>1. line' = <<>> /\ air' = <<>> /\ sensor' = sensor /\ before'[c] = sensor.at
      BY <1>1, <2>2 DEF SendCommand, TypeOK, boardVars
    <3>2. sensor.at \in Nat
      BY DEF TypeOK, Frames
    <3>3. Alone(c)'
      BY <3>1, <3>2 DEF Alone, OwnSync
    <3> QED
      BY <2>1, <3>3 DEF SyncOk
  <2>3. CASE ~(line = <<>> /\ air = <<>>)
    <3>1. c \in disturbed'
      BY <1>1, <2>3 DEF SendCommand
    <3> QED
      BY <3>1 DEF SyncOk
  <2> QED
    BY <2>2, <2>3
<1>2. CASE Write(c)
  <2>1. /\ pc[c] = "write" /\ told[c] = Nothing /\ req'[c] = req[c] /\ before'[c] = before[c]
        /\ sensor' = sensor /\ sent[c] \in Nat
    BY <1>0, <1>2 DEF Write, CallOk, Running, TypeOK
  <2>2. told'[c].as # "frame"
    BY <1>0, <1>2, <2>1 DEF Write, Tell, TypeOK
  <2>3. CASE CannotWrite /\ Tell(c, "FAILED", None)
    <3>1. pc'[c] \notin Running
      BY <2>3 DEF Tell, Goto, TypeOK, Running
    <3> QED
      BY <2>2, <3>1 DEF SyncOk
  <2>4. CASE Writes(c, Frame(req[c])[sent[c] + 1]) /\ sent' = [sent EXCEPT ![c] = @ + 1]
    <3>1. SUFFICES ASSUME c \notin disturbed', req[c].action = "sync" PROVE Alone(c)'
      BY <2>1, <2>2 DEF SyncOk
    <3>2. Alone(c)
      <4>1. c \notin disturbed
        BY <2>4, <3>1 DEF Writes
      <4> QED
        BY <2>1, <3>1, <4>1 DEF SyncOk, Running
    <3>3. sent'[c] # 0
      BY <2>1, <2>4 DEF TypeOK
    <3>4. CASE Takes([by |-> c, ch |-> Frame(req[c])[sent[c] + 1]])
      <4>1. OwnSync(c, line') /\ \A i \in DOMAIN air' : air'[i] = c
        BY <2>1, <3>1, <3>2, <3>4, SyncTakes
      <4> QED
        BY <2>1, <3>2, <3>3, <4>1 DEF Alone, OwnSync
    <3>5. CASE UNCHANGED <<boardVars, misread>>
      BY <2>1, <3>2, <3>3, <3>5 DEF Alone, OwnSync, boardVars
    <3> QED
      BY <2>4, <3>4, <3>5 DEF Writes
  <2> QED
    BY <1>2, <2>3, <2>4 DEF Write
<1>3. CASE Pace(c) \/ WaitEnds(c) \/ WaitLooks(c)
  <2>1. /\ pc[c] \in Running /\ told[c] = Nothing /\ req'[c] = req[c] /\ sent'[c] = sent[c]
        /\ before'[c] = before[c] /\ UNCHANGED <<sensor, line, air, disturbed>>
    BY <1>0, <1>3 DEF Pace, WaitEnds, WaitLooks, WindowOver, CallOk, Running, boardVars, history
  <2>2. told'[c].as # "frame"
    BY <1>0, <1>3, <2>1 DEF Pace, WaitEnds, WaitLooks, Tell, TypeOK
  <2>3. Alone(c) => Alone(c)'
    BY <2>1 DEF Alone, OwnSync
  <2> QED
    BY <2>1, <2>2, <2>3 DEF SyncOk
<1>4. CASE Claim(c)
  <2>1. /\ pc[c] = "claim" /\ pc'[c] = "end" /\ req'[c] = req[c] /\ told'[c].frame = sensor
        /\ disturbed' = disturbed
    BY <1>4 DEF Claim, Goto, Tell, TypeOK, history
  <2>2. sensor.at > before[c]
    BY <1>0, <2>1 DEF CallOk, HasFresh
  <2> QED
    BY <2>1, <2>2 DEF SyncOk, Alone, Running
<1> QED
  BY <1>1, <1>2, <1>3, <1>4 DEF CallStep

\* Call d after a step of another call.
LEMMA SyncOtherStep ==
  ASSUME TypeOK, CallsOk, NEW c \in Calls, CallStep(c) \/ WaitLooks(c), NEW d \in Calls \ {c}, SyncOk(d)
  PROVE  SyncOk(d)'
<1>1. Leaves(d) /\ sensor' = sensor
  BY OthersLeft
<1>2. CASE Write(c) /\ Writes(c, Frame(req[c])[sent[c] + 1])
  <2>1. c \in Writers /\ Frame(req[c])[sent[c] + 1] \in Letters \cup {"x"}
    BY <1>2, CallsOkIs, NextByte DEF Write, Writers
  <2>2. disturbed \subseteq disturbed' /\ (pc[d] \notin Running \/ d \in disturbed')
    BY <1>2, <2>1, WritesDisturbs
  <2> QED
    BY <1>1, <2>2, SyncApart
<1>3. CASE Write(c) /\ UNCHANGED <<boardVars, disturbed>>
  BY <1>1, <1>3, SyncKept DEF boardVars
<1>4. CASE SendCommand(c)
  BY <1>1, <1>4, SyncKept DEF SendCommand, boardVars
<1>5. CASE Pace(c) \/ WaitEnds(c) \/ WaitLooks(c) \/ Claim(c)
  BY <1>1, <1>5, SyncKept DEF Pace, WaitEnds, WaitLooks, Claim, boardVars, history
<1> QED
  BY <1>2, <1>3, <1>4, <1>5 DEF CallStep, Write

LEMMA SyncsNext == TypeOK /\ CallsOk /\ SyncsOk /\ [Next]_vars => SyncsOk'
<1> SUFFICES ASSUME TypeOK, CallsOk, SyncsOk, [Next]_vars, NEW d \in Calls PROVE SyncOk(d)'
  BY DEF SyncsOk
<1>0. SyncOk(d)
  BY DEF SyncsOk
<1>1. ASSUME NEW c \in Calls, CallStep(c) \/ WaitLooks(c) PROVE SyncOk(d)'
  BY <1>0, <1>1, SyncOwnStep, SyncOtherStep
<1>2. ASSUME UNCHANGED callVars PROVE Leaves(d)
  BY <1>2 DEF callVars, Leaves
<1>3. ASSUME NEW w \in Watches, Poll(w) PROVE SyncOk(d)'
  <2>1. Leaves(d) /\ sensor' = sensor
    BY <1>2, <1>3 DEF Poll
  <2>2. CASE Writes(w, poll[w])
    <3>1. w \in Writers /\ d \in Calls \ {w} /\ poll[w] \in Letters \cup {"x"}
      BY <1>3, LetterFacts, BoundsAssumption DEF Poll, TypeOK, Writers, BoundsAssumption
    <3>2. disturbed \subseteq disturbed' /\ (pc[d] \notin Running \/ d \in disturbed')
      BY <2>2, <3>1, WritesDisturbs
    <3> QED
      BY <1>0, <2>1, <3>2, SyncApart
  <2>3. CASE UNCHANGED <<boardVars, history>>
    BY <1>0, <2>1, <2>3, SyncKept DEF boardVars, history
  <2> QED
    BY <1>3, <2>2, <2>3 DEF Poll
<1>4. ASSUME RxHandle \/ FrameLost PROVE SyncOk(d)'
  <2>1. Leaves(d) /\ line' = line /\ disturbed' = disturbed /\ air # <<>> /\ air' = Tail(air)
    BY <1>2, <1>4 DEF RxHandle, FrameLost, history
  <2>2. sensor' = sensor \/ sensor' = [clock |-> Head(air), at |-> sensor.at + 1]
    BY <1>4 DEF RxHandle, FrameLost
  <2>3. air \in Seq(Clocks)
    BY DEF TypeOK
  <2>4. ASSUME \A i \in DOMAIN air : air[i] = d PROVE Head(air) = d /\ \A i \in DOMAIN air' : air'[i] = d
    BY <2>1, <2>3, <2>4
  <2>5. Alone(d) => Alone(d)'
    BY <2>1, <2>2, <2>4 DEF Alone, OwnSync, Leaves
  <2> QED
    BY <1>0, <2>1, <2>5 DEF SyncOk, Leaves
<1>5. ASSUME (\E w \in Watches : Tick(w)) \/ RxExits \/ MarkDead \/ Close \/ PortFails \/ UNCHANGED vars PROVE SyncOk(d)'
  <2>1. UNCHANGED <<callVars, boardVars, history, sensor>>
    BY <1>5 DEF Tick, RxExits, MarkDead, Close, PortFails, vars
  <2> QED
    BY <1>0, <1>2, <2>1, SyncKept DEF boardVars, history
<1> QED
  BY <1>1, <1>3, <1>4, <1>5 DEF Next, Quiet

-----------------------------------------------------------------------------
(* The buffer of the board. *)

\* Nothing was lost, given up or mixed so far, and no bare letter asked for.
Clean == ~blame /\ ~BareLetter
LineOk == Clean => (isp \/ InStep) /\ ~misread

LEMMA LineOkIs == LineInv /\ OnlyOverlapMisreads <=> LineOk
  BY DEF LineOk, Clean, LineInv, OnlyOverlapMisreads, BareLetter

LEMMA LineInit == Init => LineOk
<1> SUFFICES ASSUME Init PROVE LineOk
  OBVIOUS
<1>1. Halfway = {}
  BY DEF Init, Halfway
<1> QED
  BY <1>1 DEF Init, LineOk, InStep

\* What was asked of a call stays; so a step that leads to Clean began there.
LEMMA RequestStays ==
  ASSUME TypeOK, CallsOk, [Next]_vars, NEW d \in Calls, req[d] # None
  PROVE  req'[d] = req[d]
<1>0. pc[d] # "enter"
  BY DEF CallsOk, CallOk
<1>1. ASSUME NEW c \in Calls, CallStep(c) \/ WaitLooks(c) PROVE req'[d] = req[d]
  <2>1. CASE SendCommand(c)
    BY <1>0, <2>1 DEF SendCommand, TypeOK
  <2>2. CASE Write(c) \/ Pace(c) \/ WaitEnds(c) \/ WaitLooks(c) \/ Claim(c)
    BY <2>2 DEF Write, Pace, WaitEnds, WaitLooks, Claim
  <2> QED
    BY <1>1, <2>1, <2>2 DEF CallStep
<1>2. ASSUME NEW w \in Watches, Tick(w) \/ Poll(w) PROVE req' = req
  BY <1>2 DEF Tick, Poll, callVars
<1>3. ASSUME RxHandle \/ FrameLost \/ RxExits \/ MarkDead \/ Close \/ PortFails \/ UNCHANGED vars PROVE req' = req
  BY <1>3 DEF RxHandle, FrameLost, RxExits, MarkDead, Close, PortFails, vars, callVars
<1> QED
  BY <1>1, <1>2, <1>3 DEF Next, Quiet

LEMMA BareStays == TypeOK /\ CallsOk /\ [Next]_vars => (BareLetter => BareLetter')
<1> SUFFICES ASSUME TypeOK, CallsOk, [Next]_vars,
                    NEW d \in Calls, req[d] # None, req[d].action = "raw", ArgBytes[req[d].text] # 0
             PROVE  BareLetter'
  BY DEF BareLetter
<1>1. req'[d] = req[d]
  BY RequestStays
<1> QED
  BY <1>1 DEF BareLetter

\* A step that touches neither the board nor a command that is halfway.
LEMMA InStepKept ==
  ASSUME Halfway' = Halfway, line' = line, \A d \in Halfway : req'[d] = req[d] /\ sent'[d] = sent[d]
  PROVE  InStep => InStep'
<1>1. ASSUME NEW d \in Calls, Halfway = {d}, line = Part(d) PROVE line' = Part(d)' /\ Halfway' = {d}
  BY <1>1 DEF Part
<1> QED
  BY <1>1 DEF InStep

LEMMA LineKept ==
  ASSUME LineOk, BareLetter => BareLetter', blame => blame', isp' = isp, misread' = misread,
         Clean' => (InStep => InStep')
  PROVE  LineOk'
  BY DEF LineOk, Clean

\* What the next command of the board is, when a call writes and all is clean.
LEMMA NextOfCall ==
  ASSUME TypeOK, CallsOk, NEW c \in Calls, pc[c] = "write", InStep, Halfway \ {c} = {}
  PROVE  line = Part(c)
<1>1. sent[c] \in Nat /\ sent[c] + 1 \in 1..Len(Frame(req[c])) /\ Len(Frame(req[c])) \in Nat
  BY CallsOkIs, NextByte, FrameFacts DEF TypeOK
<1>2. CASE Halfway = {} /\ line = <<>>
  <2>1. sent[c] = 0
    BY <1>1, <1>2 DEF Halfway
  <2> QED
    BY <1>2, <2>1 DEF Part
<1>3. CASE \E d \in Calls : Halfway = {d} /\ line = Part(d)
  BY <1>3
<1> QED
  BY <1>2, <1>3 DEF InStep

LEMMA PartGrows ==
  ASSUME TypeOK, NEW c \in Calls, req'[c] = req[c], sent'[c] = sent[c] + 1
  PROVE  Part(c)' = Append(Part(c), [by |-> c, ch |-> Frame(req[c])[sent[c] + 1]])
<1> DEFINE byte(i) == [by |-> c, ch |-> Frame(req[c])[i]]
<1>1. sent[c] \in Nat
  BY DEF TypeOK
<1>2. Part(c) = [i \in 1..sent[c] |-> byte(i)]
  BY DEF Part
<1>3. Part(c)' = [i \in 1..(sent[c] + 1) |-> byte(i)]
  BY DEF Part
<1> HIDE DEF byte
<1>4. Append([i \in 1..sent[c] |-> byte(i)], byte(sent[c] + 1)) = [i \in 1..(sent[c] + 1) |-> byte(i)]
  BY <1>1
<1> QED
  BY <1>2, <1>3, <1>4 DEF byte

\* The first n bytes of a frame of one writer.
LEMMA BytesOfOne ==
  ASSUME NEW c \in Writers, NEW fr \in Seq(Letters \cup {"x"}), NEW n \in 1..Len(fr)
  PROVE  LET buf == [i \in 1..n |-> [by |-> c, ch |-> fr[i]]]
         IN  /\ Len(buf) = n /\ Head(buf) = [by |-> c, ch |-> fr[1]]
             /\ OneWriter(buf)
             /\ n = Len(fr) => Chars(buf) = fr
<1> DEFINE byte(i) == [by |-> c, ch |-> fr[i]]
           buf == [i \in 1..n |-> byte(i)]
<1>1. n \in Nat \ {0} /\ 1 \in 1..n
  OBVIOUS
<1>2. \A i \in 1..n : byte(i) \in Bytes /\ byte(i).by = c /\ byte(i).ch = fr[i]
  BY DEF Bytes
<1> HIDE DEF byte
<1>3. DOMAIN buf = 1..n /\ \A i \in 1..n : buf[i] = byte(i)
  OBVIOUS
<1>4. buf \in Seq(Bytes) /\ Len(buf) = n
  BY <1>1, <1>2
<1> HIDE DEF buf
<1>5. Head(buf) = byte(1)
  BY <1>1, <1>3, <1>4
<1>6. OneWriter(buf)
  BY <1>1, <1>2, <1>3 DEF OneWriter
<1>7. n = Len(fr) => Chars(buf) = fr
  <2>1. Chars(buf) = [i \in 1..n |-> fr[i]]
    BY <1>2, <1>3 DEF Chars
  <2>2. fr = [i \in 1..Len(fr) |-> fr[i]]
    OBVIOUS
  <2> QED
    BY <2>1, <2>2
<1> QED
  BY <1>4, <1>5, <1>6, <1>7 DEF buf, byte

\* A call that has sent its whole frame to an empty buffer has it carried out.
LEMMA PartFacts ==
  ASSUME TypeOK, CallsOk, NEW c \in Calls, pc[c] = "write", ~BareLetter,
         NEW buf, buf = [i \in 1..(sent[c] + 1) |-> [by |-> c, ch |-> Frame(req[c])[i]]]
  PROVE  /\ Head(buf).ch \in Letters
         /\ Complete(buf) <=> sent[c] + 1 = Len(Frame(req[c]))
         /\ Complete(buf) => OneWriter(buf) /\ WholeFrame(Head(buf).by, buf)
<1> DEFINE fr == Frame(req[c])  n == sent[c] + 1
<1>1. /\ req[c] \in Requests[c] /\ ~Refused(req[c])
      /\ n \in 1..Len(fr)
  BY CallsOkIs, NextByte DEF TypeOK
<1>2. req[c] # None
  BY <1>1, RequestsAssumption DEF RequestsAssumption
<1>3. /\ fr[1] \in Letters /\ fr \in Seq(Letters \cup {"x"})
      /\ Len(fr) = 1 + ArgBytes[fr[1]]
  BY <1>1, <1>2, FrameFacts DEF BareLetter
<1>4. c \in Writers
  BY DEF Writers
<1>5. /\ Len(buf) = n /\ Head(buf) = [by |-> c, ch |-> fr[1]]
      /\ OneWriter(buf)
      /\ n = Len(fr) => Chars(buf) = fr
  <2> HIDE DEF fr, n
  <2> DEFINE own == [i \in 1..n |-> [by |-> c, ch |-> fr[i]]]
  <2>1. buf = own
    BY DEF fr, n
  <2>2. /\ Len(own) = n /\ Head(own) = [by |-> c, ch |-> fr[1]]
        /\ OneWriter(own)
        /\ n = Len(fr) => Chars(own) = fr
    <3>1. fr \in Seq(Letters \cup {"x"}) /\ n \in 1..Len(fr)
      BY <1>1, <1>3
    <3> QED
      BY <1>4, <3>1, BytesOfOne
  <2> HIDE DEF own
  <2> QED
    BY <2>1, <2>2
<1> HIDE DEF fr, n
<1>6. Head(buf).by = c /\ Head(buf).ch = fr[1]
  BY <1>5
<1>7. Complete(buf) <=> n = Len(fr)
  BY <1>3, <1>5, <1>6 DEF Complete
<1>8. n = Len(fr) => WholeFrame(c, buf)
  BY <1>2, <1>5 DEF WholeFrame, fr
<1> QED
  BY <1>3, <1>5, <1>6, <1>7, <1>8 DEF fr, n

LEMMA CallWritesClean ==
  ASSUME TypeOK, CallsOk, LineOk, Clean, Clean', NEW c \in Calls, Write(c),
         Writes(c, Frame(req[c])[sent[c] + 1]), sent' = [sent EXCEPT ![c] = @ + 1]
  PROVE  LineOk'
<1> DEFINE fr == Frame(req[c])  n == sent[c] + 1  byte == [by |-> c, ch |-> fr[n]]
           buf == Append(line, byte)
<1>1. /\ pc[c] = "write" /\ req'[c] = req[c] /\ sent'[c] = sent[c] + 1 /\ sent[c] \in Nat
      /\ \A d \in Calls \ {c} : Leaves(d)
  BY OthersLeft DEF Write, TypeOK, CallStep
<1>2. Takes(byte) /\ Halfway \ {c} = {}
  BY DEF Writes, Clean
<1>3. CASE isp
  <2>1. isp' /\ misread' = misread
    BY <1>2, <1>3 DEF Takes, boardVars
  <2> QED
    BY <2>1 DEF LineOk
<1>4. CASE ~isp
  <2>1. line = Part(c)
    BY <1>1, <1>2, <1>4, NextOfCall DEF LineOk
  <2>2. buf = Part(c)' /\ Part(c)' = [i \in 1..(sent[c] + 1) |-> [by |-> c, ch |-> Frame(req[c])[i]]]
    <3>1. Part(c)' = [i \in 1..(sent[c] + 1) |-> [by |-> c, ch |-> Frame(req[c])[i]]]
      BY <1>1 DEF Part
    <3> QED
      BY <1>1, <2>1, <3>1, PartGrows
  <2>3. /\ Head(buf).ch # "x"
        /\ Complete(buf) <=> n = Len(fr)
        /\ Complete(buf) => OneWriter(buf) /\ WholeFrame(Head(buf).by, buf)
    BY <1>1, <2>2, PartFacts, LetterFacts DEF Clean
  <2>4. \A d \in Calls \ {c} : d \notin Halfway'
    BY <1>1, <1>2 DEF Halfway, Leaves
  <2>5. /\ n \in 1..Len(fr) /\ Len(fr) \in Nat
        /\ req[c].action \notin Paced => Len(fr) = 1
    BY <1>1, CallsOkIs, NextByte, FrameFacts
  <2>6. CASE n = Len(fr)
    <3>1. line' = <<>> /\ misread' = misread
      BY <1>2, <1>4, <2>3, <2>6 DEF Takes, CarriesOut
    <3>2. c \notin Halfway'
      BY <1>1, <2>5, <2>6 DEF Halfway
    <3>3. Halfway' = {}
      BY <2>4, <3>2 DEF Halfway
    <3> QED
      BY <3>1, <3>3 DEF LineOk, InStep
  <2>7. CASE n # Len(fr)
    <3>1. line' = buf /\ misread' = misread
      BY <1>2, <1>4, <2>3, <2>7 DEF Takes
    <3>2. n \in 1..(Len(fr) - 1) /\ Len(fr) # 1
      <4>1. \A k \in Nat : \A i \in 1..k : i # k => i \in 1..(k - 1) /\ k # 1
        OBVIOUS
      <4> HIDE DEF n, fr
      <4> QED
        BY <2>5, <2>7, <4>1
    <3>3. pc'[c] = "pace" \/ pc'[c] = "write"
      BY <2>5, <3>2, <1>1 DEF Write, Goto, Tell, TypeOK
    <3>4. c \in Halfway'
      BY <1>1, <3>2, <3>3 DEF Halfway
    <3>5. Halfway' = {c}
      BY <2>4, <3>4 DEF Halfway
    <3> QED
      BY <2>2, <3>1, <3>5 DEF LineOk, InStep
  <2> QED
    BY <2>6, <2>7
<1> QED
  BY <1>3, <1>4

\* A stream writes S or V between two commands.
LEMMA PollWritesClean ==
  ASSUME TypeOK, LineOk, Clean, Clean', NEW w \in Watches, Poll(w), Writes(w, poll[w])
  PROVE  LineOk'
<1> DEFINE byte == [by |-> w, ch |-> poll[w]]  buf == Append(line, byte)
<1>1. Takes(byte) /\ Halfway \ {w} = {} /\ UNCHANGED <<pc, req, sent>>
  BY DEF Writes, Clean, Poll, callVars
<1>2. Halfway = {} /\ Halfway' = {}
  <2>1. w \notin Halfway
    BY BoundsAssumption DEF BoundsAssumption, Halfway
  <2>2. Halfway = {}
    BY <1>1, <2>1
  <2> QED
    BY <1>1, <2>2 DEF Halfway
<1>3. CASE isp
  <2>1. isp' /\ misread' = misread
    BY <1>1, <1>3 DEF Takes, boardVars
  <2> QED
    BY <2>1 DEF LineOk
<1>4. CASE ~isp
  <2>1. line = <<>>
    BY <1>2, <1>4 DEF LineOk, InStep
  <2>2. poll[w] \in {"S", "V"} /\ ArgBytes[poll[w]] = 0
    BY ArgsAssumption DEF Poll, TypeOK, ArgsAssumption
  <2>3. buf = <<byte>> /\ Len(buf) = 1 /\ Head(buf) = byte /\ DOMAIN buf = {1} /\ buf[1] = byte
    BY <2>1
  <2>4. Complete(buf) /\ OneWriter(buf) /\ Head(buf).ch # "x"
    <3> HIDE DEF buf
    <3> QED
      BY <2>2, <2>3 DEF Complete, OneWriter
  <2>5. Chars(buf) = <<poll[w]>>
    <3> HIDE DEF buf
    <3>1. Chars(buf) = [i \in {1} |-> poll[w]]
      BY <2>3 DEF Chars
    <3>2. <<poll[w]>> = [i \in {1} |-> poll[w]]
      OBVIOUS
    <3> QED
      BY <3>1, <3>2
  <2>6. WholeFrame(Head(buf).by, buf)
    BY <2>2, <2>3, <2>5 DEF WholeFrame
  <2>7. line' = <<>> /\ misread' = misread
    <3> HIDE DEF buf
    <3>1. line' = <<>> /\ CarriesOut(buf)
      BY <1>1, <1>4, <2>4 DEF Takes, buf
    <3> QED
      BY <2>4, <2>6, <3>1 DEF CarriesOut
  <2> QED
    BY <1>2, <2>7 DEF LineOk, InStep
<1> QED
  BY <1>3, <1>4

\* A step of a call that sends nothing: what is halfway then was so before.
LEMMA HalfwayKept ==
  ASSUME TypeOK, CallsOk, NEW c \in Calls, CallStep(c) \/ WaitLooks(c), blame => blame', ~blame',
         UNCHANGED <<line, sent>>
  PROVE  Halfway' = Halfway /\ (InStep => InStep')
<1>0. CallOk(c) /\ \A d \in Calls \ {c} : Leaves(d)
  BY OthersLeft DEF CallsOk
<1>1. c \in Halfway' <=> c \in Halfway
  <2>1. CASE SendCommand(c)
    <3>1. sent[c] = 0 /\ sent'[c] = 0
      BY <1>0, <2>1 DEF SendCommand, CallOk
    <3> QED
      BY <3>1 DEF Halfway
  <2>2. CASE Write(c) /\ Writes(c, Frame(req[c])[sent[c] + 1]) /\ sent' = [sent EXCEPT ![c] = @ + 1]
    <3>1. sent'[c] = sent[c] + 1 /\ sent[c] \in Nat
      BY <2>2 DEF TypeOK
    <3> QED
      BY <3>1
  <2>3. CASE Write(c) /\ Tell(c, "FAILED", None) /\ GivesUp(c)
    <3>1. c \notin Halfway /\ pc'[c] = "end"
      BY <2>3 DEF GivesUp, Tell, Goto, TypeOK
    <3> QED
      BY <3>1 DEF Halfway
  <2>4. CASE Pace(c)
    <3>1. req'[c] = req[c] /\ pc[c] = "pace" /\ sent[c] \in 1..Len(Frame(req[c]))
          /\ req[c] \in Requests[c] /\ ~Refused(req[c])
      BY <1>0, <2>4 DEF Pace, CallOk, Running, TypeOK
    <3>2. Len(Frame(req[c])) \in Nat
      BY <3>1, FrameFacts
    <3>3. \/ sent[c] < Len(Frame(req[c])) /\ pc'[c] = "write"
          \/ ~(sent[c] < Len(Frame(req[c])))
          \/ c \notin Halfway /\ pc'[c] = "end"
      BY <2>4 DEF Pace, Goto, Tell, Total, GivesUp, TypeOK
    <3>4. ~(sent[c] < Len(Frame(req[c]))) => sent[c] \notin 1..(Len(Frame(req[c])) - 1)
      BY <3>1, <3>2
    <3> QED
      BY <3>1, <3>3, <3>4 DEF Halfway
  <2>5. CASE WaitEnds(c) \/ WaitLooks(c) \/ Claim(c)
    <3>1. pc[c] \in {"wait", "claim"} /\ pc'[c] \in {"claim", "end"}
      BY <2>5 DEF WaitEnds, WindowOver, WaitLooks, Claim, Goto, Tell, TypeOK
    <3> QED
      BY <3>1 DEF Halfway
  <2> QED
    BY <2>1, <2>2, <2>3, <2>4, <2>5 DEF CallStep, Write
<1>2. Halfway' = Halfway
  BY <1>0, <1>1 DEF Halfway, Leaves
<1>3. \A d \in Halfway : req'[d] = req[d] /\ sent'[d] = sent[d]
  <2>1. CASE SendCommand(c)
    <3>1. c \notin Halfway
      BY <2>1 DEF SendCommand, Halfway
    <3> QED
      BY <1>0, <3>1 DEF Leaves, Halfway
  <2>2. CASE Write(c) \/ Pace(c) \/ WaitEnds(c) \/ WaitLooks(c) \/ Claim(c)
    BY <2>2 DEF Write, Pace, WaitEnds, WaitLooks, Claim
  <2> QED
    BY <2>1, <2>2 DEF CallStep
<1> QED
  BY <1>2, <1>3, InStepKept

LEMMA LineNext == TypeOK /\ CallsOk /\ LineOk /\ [Next]_vars => LineOk'
<1> SUFFICES ASSUME TypeOK, CallsOk, LineOk, [Next]_vars PROVE LineOk'
  OBVIOUS
<1>0. BareLetter => BareLetter'
  BY BareStays
<1>1. ASSUME NEW c \in Calls, CallStep(c) \/ WaitLooks(c) PROVE LineOk'
  <2>1. CASE Write(c) /\ Writes(c, Frame(req[c])[sent[c] + 1]) /\ sent' = [sent EXCEPT ![c] = @ + 1]
    <3>1. blame => blame'
      BY <2>1 DEF Writes
    <3> QED
      BY <1>0, <2>1, <3>1, CallWritesClean DEF LineOk, Clean
  <2>2. CASE ~(Write(c) /\ Writes(c, Frame(req[c])[sent[c] + 1]) /\ sent' = [sent EXCEPT ![c] = @ + 1])
    <3>1. CASE SendCommand(c)
      BY <1>0, <1>1, <3>1, HalfwayKept, LineKept DEF SendCommand, Clean, boardVars
    <3>2. CASE Write(c)
      <4>1. GivesUp(c) /\ UNCHANGED <<sent, line, isp, misread>>
        BY <2>2, <3>2 DEF Write, boardVars
      <4>2. blame => blame'
        BY <4>1 DEF GivesUp
      <4> QED
        BY <1>0, <1>1, <4>1, <4>2, HalfwayKept, LineKept DEF Clean
    <3>3. CASE Pace(c)
      <4>1. UNCHANGED <<sent, line, isp, misread>>
        BY <3>3 DEF Pace, boardVars
      <4>2. blame => blame'
        BY <3>3 DEF Pace, GivesUp
      <4> QED
        BY <1>0, <1>1, <4>1, <4>2, HalfwayKept, LineKept DEF Clean
    <3>4. CASE WaitEnds(c) \/ WaitLooks(c) \/ Claim(c)
      <4>1. UNCHANGED <<sent, line, isp, misread, blame>>
        BY <3>4 DEF WaitEnds, WaitLooks, Claim, boardVars, history
      <4> QED
        BY <1>0, <1>1, <4>1, HalfwayKept, LineKept DEF Clean
    <3> QED
      BY <1>1, <3>1, <3>2, <3>3, <3>4 DEF CallStep
  <2> QED
    BY <2>1, <2>2
<1>2. ASSUME UNCHANGED <<pc, req, sent, line, isp, misread, blame>> PROVE LineOk'
  <2>1. Halfway' = Halfway
    BY <1>2 DEF Halfway
  <2>2. InStep => InStep'
    BY <1>2, <2>1, InStepKept
  <2> QED
    BY <1>0, <1>2, <2>2, LineKept
<1>3. ASSUME NEW w \in Watches, Poll(w) PROVE LineOk'
  <2>1. CASE Writes(w, poll[w])
    <3>1. blame => blame'
      BY <2>1 DEF Writes
    <3> QED
      BY <1>0, <1>3, <2>1, <3>1, PollWritesClean DEF LineOk, Clean
  <2>2. CASE UNCHANGED <<boardVars, history>>
    BY <1>2, <1>3, <2>2 DEF Poll, callVars, boardVars, history
  <2> QED
    BY <1>3, <2>1, <2>2 DEF Poll
<1>4. ASSUME \/ \E w \in Watches : Tick(w)
             \/ RxHandle \/ FrameLost \/ RxExits \/ MarkDead \/ Close \/ PortFails \/ UNCHANGED vars
      PROVE  LineOk'
  <2>1. UNCHANGED <<pc, req, sent, line, isp, misread, blame>>
    BY <1>4 DEF Tick, RxHandle, FrameLost, RxExits, MarkDead, Close, PortFails, vars, callVars, boardVars, history
  <2> QED
    BY <1>2, <2>1
<1> QED
  BY <1>1, <1>3, <1>4 DEF Next, Quiet

-----------------------------------------------------------------------------
(* The theorems. *)

\* The parts of the inductive invariant, as the lemmas name them.
LEMMA LegacyInvIs == LegacyInv <=> TypeOK /\ CallsOk /\ SyncsOk /\ LineOk
  BY CallsOkIs, SyncsOkIs, LineOkIs DEF LegacyInv

LEMMA LegacyInit == Init => LegacyInv
  BY LegacyInvIs, TypeInit, CallsInit, SyncsInit, LineInit

LEMMA LegacyNext == LegacyInv /\ [Next]_vars => LegacyInv'
<1> SUFFICES ASSUME LegacyInv, [Next]_vars PROVE LegacyInv'
  OBVIOUS
<1>1. TypeOK /\ CallsOk /\ SyncsOk /\ LineOk /\ CallInv
  BY LegacyInvIs, CallsOkIs
<1>2. TypeOK' /\ CallsOk' /\ SyncsOk' /\ LineOk'
  BY <1>1, TypeNext, CallsNext, SyncsNext, LineNext
<1>3. CallInv' /\ ClaimsAreNew' /\ SentWhole'
  BY <1>2 DEF CallsOk, CallInv, ClaimsAreNew, SentWhole, Answered
<1>4. AloneInv' /\ SyncConfirmed'
  BY <1>2 DEF SyncsOk, SyncOk, Alone, AloneInv, SyncConfirmed
<1>5. LineInv' /\ OnlyOverlapMisreads'
  BY <1>2 DEF LineOk, Clean, LineInv, OnlyOverlapMisreads, BareLetter
<1> QED
  BY <1>2, <1>3, <1>4, <1>5 DEF LegacyInv

\* The inductive invariant of the legacy path holds in every reachable state.
THEOREM LegacyHolds == Spec => []LegacyInv
<1>1. Init => LegacyInv
  BY LegacyInit
<1>2. LegacyInv /\ [Next]_vars => LegacyInv'
  BY LegacyNext
<1> QED
  BY <1>1, <1>2, PTL DEF Spec

\* Every variable of the legacy path keeps its type.
THEOREM LegacyTyping == Spec => []TypeOK
<1>1. LegacyInv => TypeOK
  BY DEF LegacyInv
<1> QED
  BY <1>1, LegacyHolds, PTL

\* A claimed frame was parsed after the snapshot of the call that claims it,
\* which had sent all its bytes (device.go:394).
THEOREM ClaimsAreNewHolds == Spec => []ClaimsAreNew
<1>1. LegacyInv => ClaimsAreNew
  BY DEF LegacyInv
<1> QED
  BY <1>1, LegacyHolds, PTL

\* A command that is reported as sent was handed over whole (device.go:315).
THEOREM SentWholeHolds == Spec => []SentWhole
<1>1. LegacyInv => SentWhole
  BY DEF LegacyInv
<1> QED
  BY <1>1, LegacyHolds, PTL

\* A sync that had the line to itself and claims a frame reports the clock it
\* set, whatever was lost (device.go:353).
THEOREM SyncConfirmedHolds == Spec => []SyncConfirmed
<1>1. LegacyInv => SyncConfirmed
  BY DEF LegacyInv
<1> QED
  BY <1>1, LegacyHolds, PTL

\* The board misreads only what was lost, given up or mixed, or a bare letter
\* that raw was asked to send (command.go:45).
THEOREM OnlyOverlapMisreadsHolds == Spec => []OnlyOverlapMisreads
<1>1. LegacyInv => OnlyOverlapMisreads
  BY DEF LegacyInv
<1> QED
  BY <1>1, LegacyHolds, PTL
=============================================================================
