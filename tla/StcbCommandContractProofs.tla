---------------------- MODULE StcbCommandContractProofs ----------------------
(***************************************************************************)
(* The proof that the command path keeps CommandContract, and with it that *)
(* a tone-sequence is one unbroken run of notes, from IndInv and           *)
(* ContractInv of StcbCommandInv.                                          *)
(***************************************************************************)
EXTENDS StcbCommandTruthProofs

USE CallsAssumption, WireAssumption, SubsetAssumption
    DEF CallsAssumption, WireAssumption, SubsetAssumption

-----------------------------------------------------------------------------
(* What one step can do to a call, to the pending slot, to the line and to *)
(* what was carried out.                                                   *)

\* A call keeps its frame, which stays sent once it is, or goes on to the next.
Advances(d) ==
  \/ idx'[d] = idx[d] /\ (Unsent(d)' => Unsent(d))
  \/ idx'[d] = idx[d] + 1 /\ FrameReturns(d) /\ (FallsBack(d) \/ HasNextNote(d))

\* The locked region is entered from the lock.
Enters(d) ==
  /\ pc'[d] \in Critical => pc[d] \in Critical \/ pc[d] = "lock"
  /\ pc'[d] \in {"enter", "lock"} => pc[d] \in {"enter", "lock"} /\ idx'[d] = idx[d]

\* A call moves from one label to another and keeps its frame.
LEMMA CallMoves ==
  ASSUME TypeOK, NEW c \in Calls, NEW l \in PCs,
         pc' = [pc EXCEPT ![c] = l], idx' = idx,
         \A d \in Calls \ {c} : sent'[d] = sent[d],
         Unsent(c)' => Unsent(c),
         l \in {"enter", "lock", "encode", "gap"} => pc[c] \in {"enter", "lock", "encode", "gap"},
         l \in Critical => pc[c] \in Critical \/ pc[c] = "lock",
         l \in {"enter", "lock"} => pc[c] \in {"enter", "lock"}
  PROVE  \A d \in Calls : Advances(d) /\ Enters(d)
<1>1. \A d \in Calls : Unsent(d)' => Unsent(d)
  BY UnsentMoves
<1>2. \A d \in Calls : pc'[d] = (IF d = c THEN l ELSE pc[d])
  BY DEF TypeOK
<1>3. \A d \in Calls : Advances(d)
  BY <1>1 DEF Advances
<1>4. \A d \in Calls : Enters(d)
  BY <1>2 DEF Enters
<1> QED
  BY <1>3, <1>4

LEMMA CallsAdvance ==
  ASSUME TypeOK, SentInv, [Next]_vars
  PROVE  \A d \in Calls : Advances(d) /\ Enters(d)
<1> USE DEF callVars, lifeVars, rxVars, boardVars, Goto, PCs, Critical
<1>1. ASSUME NEW c \in Calls, SendCommand(c) PROVE \A d \in Calls : Advances(d) /\ Enters(d)
  <2>1. pc[c] = "enter" /\ UNCHANGED <<idx, sent>> /\ Unsent(c)
    BY <1>1 DEF SendCommand, Unsent
  <2>2. \E l \in {"lock", "end"} : pc' = [pc EXCEPT ![c] = l]
    BY <1>1 DEF SendCommand
  <2> QED
    BY <2>1, <2>2, CallMoves
<1>2. ASSUME NEW c \in Calls, LockCmdMu(c) PROVE \A d \in Calls : Advances(d) /\ Enters(d)
  <2>1. pc[c] = "lock" /\ UNCHANGED <<idx, sent>> /\ Unsent(c) /\ pc' = [pc EXCEPT ![c] = "encode"]
    BY <1>2 DEF LockCmdMu, Unsent
  <2> QED
    BY <2>1, CallMoves
<1>3. ASSUME NEW c \in Calls, Register(c) PROVE \A d \in Calls : Advances(d) /\ Enters(d)
  <2>1. pc[c] = "encode" /\ UNCHANGED idx /\ Unsent(c) /\ \A d \in Calls \ {c} : sent'[d] = sent[d]
    BY <1>3 DEF Register, Unsent, TypeOK
  <2>2. \E l \in {"unlock", "write"} : pc' = [pc EXCEPT ![c] = l]
    BY <1>3 DEF Register
  <2> QED
    BY <2>1, <2>2, CallMoves
<1>4. ASSUME NEW c \in Calls, WriteByte(c) PROVE \A d \in Calls : Advances(d) /\ Enters(d)
  <2>1. pc[c] = "write" /\ UNCHANGED idx /\ pc' = [pc EXCEPT ![c] = "pace"]
        /\ \A d \in Calls \ {c} : sent'[d] = sent[d]
    BY <1>4 DEF WriteByte, TypeOK
  <2>2. Unsent(c)
    BY <2>1 DEF SentInv, Unsent
  <2> QED
    BY <2>1, <2>2, CallMoves
<1>5. ASSUME NEW c \in Calls,
             WriteFails(c) \/ PaceAborts(c) \/ AwaitAck(c) \/ AwaitTimeout(c) \/ AwaitAborts(c)
      PROVE  \A d \in Calls : Advances(d) /\ Enters(d)
  <2>1. pc[c] \in {"write", "pace", "await"} /\ UNCHANGED <<idx, sent>>
        /\ pc' = [pc EXCEPT ![c] = "cleanup"]
    BY <1>5 DEF WriteFails, PaceAborts, AwaitAck, AwaitTimeout, TimerFires, AwaitAborts,
                EndsWithError, GiveUp
  <2>2. ~Unsent(c)'
    BY <2>1 DEF TypeOK, Unsent
  <2> QED
    BY <2>1, <2>2, CallMoves
<1>6. ASSUME NEW c \in Calls, PaceElapses(c) PROVE \A d \in Calls : Advances(d) /\ Enters(d)
  <2>1. pc[c] = "pace" /\ UNCHANGED <<idx, sent>>
    BY <1>6 DEF PaceElapses
  <2>2. PICK l \in {"await", "write"} : pc' = [pc EXCEPT ![c] = l]
    BY <1>6 DEF PaceElapses
  <2>3. Unsent(c)' => Unsent(c)
    BY <2>1, <2>2 DEF TypeOK, Unsent
  <2> QED
    BY <2>1, <2>2, <2>3, CallMoves
<1>7. ASSUME NEW c \in Calls, FrameReturns(c) PROVE \A d \in Calls : Advances(d) /\ Enters(d)
  <2>1. pc[c] = "cleanup" /\ UNCHANGED sent
    BY <1>7 DEF FrameReturns
  <2>2. PICK l \in {"gap", "encode", "unlock"} : pc' = [pc EXCEPT ![c] = l]
    BY <1>7 DEF FrameReturns
  <2>3. CASE FallsBack(c) \/ HasNextNote(c)
    <3>1. idx' = [idx EXCEPT ![c] = @ + 1]
      BY <1>7, <2>3 DEF FrameReturns
    <3>2. \A d \in Calls \ {c} : idx'[d] = idx[d] /\ pc'[d] = pc[d] /\ (Unsent(d)' => Unsent(d))
      BY <2>1, <2>2, <3>1 DEF TypeOK, Unsent
    <3>3. idx'[c] = idx[c] + 1 /\ pc'[c] = l
      BY <2>2, <3>1 DEF TypeOK
    <3>4. \A d \in Calls : Advances(d)
      BY <1>7, <2>3, <3>2, <3>3 DEF Advances
    <3>5. \A d \in Calls : Enters(d)
      BY <2>1, <2>2, <3>2, <3>3 DEF Enters
    <3> QED
      BY <3>4, <3>5
  <2>4. CASE ~(FallsBack(c) \/ HasNextNote(c))
    <3>1. pc' = [pc EXCEPT ![c] = "unlock"] /\ UNCHANGED idx
      BY <1>7, <2>4 DEF FrameReturns
    <3>2. ~Unsent(c)'
      BY <3>1 DEF TypeOK, Unsent
    <3> QED
      BY <2>1, <3>1, <3>2, CallMoves
  <2> QED
    BY <2>3, <2>4
<1>8. ASSUME NEW c \in Calls, GapElapses(c) \/ GapAborts(c)
      PROVE  \A d \in Calls : Advances(d) /\ Enters(d)
  <2>1. pc[c] = "gap" /\ UNCHANGED <<idx, sent>> /\ Unsent(c)
        /\ \E l \in {"encode", "unlock"} : pc' = [pc EXCEPT ![c] = l]
    BY <1>8 DEF GapElapses, GapAborts, Unsent
  <2> QED
    BY <2>1, CallMoves
<1>9. ASSUME NEW c \in Calls, UnlockCmdMu(c) PROVE \A d \in Calls : Advances(d) /\ Enters(d)
  <2>1. pc[c] = "unlock" /\ UNCHANGED <<idx, sent>> /\ pc' = [pc EXCEPT ![c] = "end"]
    BY <1>9 DEF UnlockCmdMu
  <2>2. ~Unsent(c)'
    BY <2>1 DEF TypeOK, Unsent
  <2> QED
    BY <2>1, <2>2, CallMoves
<1>10. CASE UNCHANGED callVars
  <2>1. \A d \in Calls : (Unsent(d)' <=> Unsent(d)) /\ pc'[d] = pc[d] /\ idx'[d] = idx[d]
    BY <1>10 DEF Unsent
  <2> QED
    BY <2>1 DEF Advances, Enters
<1>11. CASE (\E c \in Calls : Cancel(c)) \/ RxSide \/ Life \/ Board \/ UNCHANGED vars
  BY <1>10, <1>11 DEF Cancel, RxSide, RxLookup, RxDeliver, RxLoses, RxExits, Life, MarkDead, Close,
                      Unplug, Board, BoardPlays, BoardRefuses, BoardResets, vars
<1> QED
  BY <1>1, <1>2, <1>3, <1>4, <1>5, <1>6, <1>7, <1>8, <1>9, <1>11
  DEF Next, Caller, CallStep, Quiet

\* The frame whose next byte is being written.
Writes(f) == f \in Frames /\ pc[f.call] = "write" /\ f = Cur(f.call)

\* What a byte of frame f can do to the board.
LEMMA WriteGains ==
  ASSUME TypeOK, SentInv, NEW c \in Calls, WriteByte(c)
  PROVE  /\ Writes(Cur(c)) /\ Unsent(c)
         /\ pending' = pending \/ (pending = None /\ pending' = Cur(c))
         /\ \A f : InLine(f)' => InLine(f) \/ f = Cur(c)
         /\ \A i \in DOMAIN rx' :
              \/ i \in DOMAIN rx /\ rx'[i] = rx[i]
              \/ InLine(rx'[i].of) \/ rx'[i].of = Cur(c)
<1> DEFINE f == Cur(c)
           b == [frame |-> f, k |-> sent[c] + 1]
           l == Append(line, b)
<1>1. pc[c] = "write" /\ (BoardReceives(b) \/ UNCHANGED <<line, pending, rx>>)
  BY DEF WriteByte
<1>2. sent[c] + 1 \in 1..FrameLen /\ Unsent(c)
  BY <1>1 DEF TypeOK, SentInv, Unsent
<1>3. f \in Frames /\ f.call = c /\ b \in Bytes /\ b.frame = f
  BY <1>2, CurType DEF Bytes
<1>4. Writes(f)
  BY <1>1, <1>3 DEF Writes
<1>5. \A i \in DOMAIN l : (i \in DOMAIN line /\ l[i] = line[i]) \/ l[i] = b
  <2>1. line \in Seq(Bytes)
    BY DEF TypeOK
  <2> HIDE DEF b
  <2> QED
    BY <1>3, <2>1, AppendFacts
<1>6. \A i \in DOMAIN l : l[i].frame \in Frames /\ (InLine(l[i].frame) \/ l[i].frame = f)
  <2>1. \A i \in DOMAIN line : line[i].frame \in Frames /\ InLine(line[i].frame)
    <3>1. \A i \in DOMAIN line : line[i] \in Bytes
      BY DEF TypeOK
    <3> QED
      BY <3>1 DEF Bytes, InLine
  <2> HIDE DEF b, l
  <2> QED
    BY <1>3, <1>5, <2>1
<1>7. CASE UNCHANGED <<line, pending, rx>>
  BY <1>2, <1>4, <1>7 DEF InLine
<1>8. CASE BoardReceives(b)
  <2>1. pending' = pending \/ (pending = None /\ pending' = f)
    BY <1>3, <1>8 DEF BoardReceives
  <2>2. line' = <<>> \/ line' = l
    BY <1>8 DEF BoardReceives
  <2>3. \A g : InLine(g)' => InLine(g) \/ g = f
    <3> HIDE DEF l, f
    <3> QED
      BY <1>6, <2>2 DEF InLine
  <2>4. \/ rx' = rx
        \/ \E g \in Frames, code \in Codes : (InLine(g) \/ g = f) /\ rx' = Append(rx, Reply(g, code))
    <3>1. \/ rx' = rx \/ rx' = Append(rx, Reply(f, "err"))
          \/ \E i \in DOMAIN l, code \in {"unknown", "err"} : rx' = Append(rx, Reply(l[i].frame, code))
      BY <1>3, <1>8 DEF BoardReceives
    <3>2. CASE rx' = Append(rx, Reply(f, "err"))
      BY <1>3, <3>2 DEF Codes
    <3>3. CASE \E i \in DOMAIN l, code \in {"unknown", "err"} : rx' = Append(rx, Reply(l[i].frame, code))
      <4> HIDE DEF l, f
      <4> QED
        BY <1>6, <3>3 DEF Codes
    <3> QED
      BY <3>1, <3>2, <3>3
  <2>5. \A i \in DOMAIN rx' :
          (i \in DOMAIN rx /\ rx'[i] = rx[i]) \/ InLine(rx'[i].of) \/ rx'[i].of = f
    <3>1. CASE rx' = rx
      BY <3>1
    <3>2. ASSUME NEW g \in Frames, NEW code \in Codes, InLine(g) \/ g = f,
                 rx' = Append(rx, Reply(g, code))
          PROVE  \A i \in DOMAIN rx' : (i \in DOMAIN rx /\ rx'[i] = rx[i])
                                       \/ InLine(rx'[i].of) \/ rx'[i].of = f
      <4>1. rx \in Seq(Replies) /\ Reply(g, code) \in Replies /\ Reply(g, code).of = g
        BY ReplyType DEF TypeOK
      <4>2. \A i \in DOMAIN rx' : (i \in DOMAIN rx /\ rx'[i] = rx[i]) \/ rx'[i] = Reply(g, code)
        BY <3>2, <4>1, AppendFacts
      <4> QED
        BY <3>2, <4>1, <4>2
    <3> QED
      BY <2>4, <3>1, <3>2
  <2> QED
    BY <1>2, <1>4, <2>1, <2>3, <2>5
<1> QED
  BY <1>1, <1>7, <1>8

\* What any step but BoardPlays can do to the board and to the replies.
LEMMA BoardGains ==
  ASSUME TypeOK, SentInv, [Next]_vars, ~BoardPlays
  PROVE  /\ played' = played /\ Played' = Played
         /\ \/ pending' \in {pending, None}
            \/ \E c \in Calls : pc[c] = "write" /\ Unsent(c) /\ pending = None /\ pending' = Cur(c)
         /\ \A f : InLine(f)' => InLine(f) \/ (Writes(f) /\ Unsent(f.call))
         /\ \A i \in DOMAIN rx' :
              \/ \E j \in DOMAIN rx : rx'[i] = rx[j]
              \/ InLine(rx'[i].of)
              \/ rx'[i].of = pending /\ pending # None
              \/ Writes(rx'[i].of) /\ Unsent(rx'[i].of.call)
         /\ rxHold' \in {None, rxHold} \/ \E i \in DOMAIN rx : rxHold'.ack = rx[i]
         /\ \A f \in Frames :
              chan'[f] = chan[f] \/ (rxHold # None /\ chan[f] = None /\ chan'[f] = rxHold.ack)
<1> USE DEF callVars, lifeVars, rxVars, boardVars, Goto, InLine
<1> DEFINE Board3 ==
      /\ played' = played
      /\ \/ pending' \in {pending, None}
         \/ \E c \in Calls : pc[c] = "write" /\ Unsent(c) /\ pending = None /\ pending' = Cur(c)
      /\ \A f : InLine(f)' => InLine(f) \/ (Writes(f) /\ Unsent(f.call))
    Rx1 ==
      \A i \in DOMAIN rx' :
        \/ \E j \in DOMAIN rx : rx'[i] = rx[j]
        \/ InLine(rx'[i].of)
        \/ rx'[i].of = pending /\ pending # None
        \/ Writes(rx'[i].of) /\ Unsent(rx'[i].of.call)
    Rx2 ==
      /\ rxHold' \in {None, rxHold} \/ \E i \in DOMAIN rx : rxHold'.ack = rx[i]
      /\ \A f \in Frames :
           chan'[f] = chan[f] \/ (rxHold # None /\ chan[f] = None /\ chan'[f] = rxHold.ack)
<1>1. CASE UNCHANGED <<boardVars, chan, rx, rxHold>>
  <2>1. Board3
    BY <1>1
  <2>2. Rx1
    BY <1>1
  <2>3. Rx2
    BY <1>1
  <2> QED
    BY <2>1, <2>2, <2>3 DEF Played
<1>2. ASSUME NEW c \in Calls, WriteByte(c) PROVE Board3 /\ Rx1 /\ Rx2
  <2>1. UNCHANGED <<played, chan, rxHold>>
    BY <1>2 DEF WriteByte
  <2>2. Writes(Cur(c)) /\ Unsent(c) /\ pc[c] = "write" /\ Cur(c).call = c
    BY <1>2, WriteGains DEF WriteByte, Cur
  <2>3. pending' = pending \/ (pending = None /\ pending' = Cur(c))
    BY <1>2, WriteGains
  <2>4. \A f : InLine(f)' => InLine(f) \/ f = Cur(c)
    BY <1>2, WriteGains
  <2>5. \A i \in DOMAIN rx' : \/ i \in DOMAIN rx /\ rx'[i] = rx[i]
                              \/ InLine(rx'[i].of) \/ rx'[i].of = Cur(c)
    BY <1>2, WriteGains
  <2> HIDE DEF InLine
  <2>6. Board3
    BY <2>1, <2>2, <2>3, <2>4
  <2>7. Rx1
    <3> SUFFICES ASSUME NEW i \in DOMAIN rx'
                 PROVE  \/ \E j \in DOMAIN rx : rx'[i] = rx[j]
                        \/ InLine(rx'[i].of)
                        \/ rx'[i].of = pending /\ pending # None
                        \/ Writes(rx'[i].of) /\ Unsent(rx'[i].of.call)
      OBVIOUS
    <3>1. CASE i \in DOMAIN rx /\ rx'[i] = rx[i]
      BY <3>1
    <3>2. CASE InLine(rx'[i].of)
      BY <3>2
    <3>3. CASE rx'[i].of = Cur(c)
      BY <2>2, <3>3
    <3> QED
      BY <2>5, <3>1, <3>2, <3>3
  <2> QED
    BY <2>1, <2>6, <2>7
<1>3. ASSUME RxLookup PROVE Board3 /\ Rx1 /\ Rx2
  <2>1. rx \in Seq(Replies) /\ rx # <<>> /\ rx' = Tail(rx) /\ UNCHANGED <<boardVars, chan>>
    BY <1>3 DEF RxLookup, TypeOK
  <2>2. 1 \in DOMAIN rx /\ Head(rx) = rx[1] /\ \A i \in DOMAIN rx' : \E j \in DOMAIN rx : rx'[i] = rx[j]
    BY <2>1, TailFacts
  <2>3. rxHold' = None \/ rxHold'.ack = Head(rx)
    BY <1>3 DEF RxLookup
  <2>4. Board3
    BY <2>1
  <2> HIDE DEF InLine
  <2> QED
    BY <2>1, <2>2, <2>3, <2>4
<1>4. ASSUME RxDeliver PROVE Board3 /\ Rx1 /\ Rx2
  <2>1. rxHold # None /\ rxHold' = None /\ UNCHANGED <<boardVars, rx>>
        /\ chan' = [chan EXCEPT ![rxHold.chan] = IF @ = None THEN rxHold.ack ELSE @]
    BY <1>4 DEF RxDeliver
  <2>2. \A f \in Frames :
           chan'[f] = chan[f] \/ (rxHold # None /\ chan[f] = None /\ chan'[f] = rxHold.ack)
    BY <2>1 DEF TypeOK
  <2>3. Board3
    BY <2>1
  <2>4. Rx1
    BY <2>1
  <2> QED
    BY <2>1, <2>2, <2>3, <2>4
<1>5. ASSUME RxLoses PROVE Board3 /\ Rx1 /\ Rx2
  <2>1. rx \in Seq(Replies) /\ rx # <<>> /\ rx' = Tail(rx) /\ UNCHANGED <<boardVars, chan, rxHold>>
    BY <1>5 DEF RxLoses, TypeOK
  <2>2. \A i \in DOMAIN rx' : \E j \in DOMAIN rx : rx'[i] = rx[j]
    <3>1. \A i \in DOMAIN rx' : i + 1 \in DOMAIN rx /\ rx'[i] = rx[i + 1]
      BY <2>1, TailFacts
    <3> QED
      BY <3>1
  <2>3. Board3
    BY <2>1
  <2> HIDE DEF InLine
  <2> QED
    BY <2>1, <2>2, <2>3
<1>6. ASSUME BoardRefuses PROVE Board3 /\ Rx1 /\ Rx2
  <2>1. pending \in Frames /\ pending # None /\ pending' = None /\ UNCHANGED <<played, line, chan, rxHold>>
    BY <1>6 DEF BoardRefuses, TypeOK
  <2>2. PICK code \in Codes : rx' = Append(rx, Reply(pending, code))
    BY <1>6 DEF BoardRefuses, Codes
  <2>3. rx \in Seq(Replies) /\ Reply(pending, code) \in Replies /\ Reply(pending, code).of = pending
    BY <2>1, ReplyType DEF TypeOK
  <2>4. \A i \in DOMAIN rx' : (i \in DOMAIN rx /\ rx'[i] = rx[i]) \/ rx'[i] = Reply(pending, code)
    BY <2>2, <2>3, AppendFacts
  <2>5. Board3
    BY <2>1
  <2> HIDE DEF InLine
  <2>6. Rx1
    BY <2>1, <2>3, <2>4
  <2> QED
    BY <2>1, <2>5, <2>6
<1>7. ASSUME BoardResets PROVE Board3 /\ Rx1 /\ Rx2
  <2>1. pending' = None /\ line' = <<>> /\ UNCHANGED <<played, rx, rxHold, chan>>
    BY <1>7 DEF BoardResets
  <2>2. Board3
    BY <2>1
  <2>3. Rx1
    BY <2>1
  <2> QED
    BY <2>1, <2>2, <2>3
<1>8. ASSUME NEW c \in Calls, LockCmdMu(c) \/ Cancel(c) \/ (CallStep(c) /\ ~WriteByte(c))
      PROVE  UNCHANGED <<boardVars, chan, rx, rxHold>>
  BY <1>8 DEF CallStep, SendCommand, LockCmdMu, Register, WriteFails, PaceElapses, PaceAborts,
     AwaitAck, AwaitTimeout, AwaitAborts, FrameReturns, GapElapses, GapAborts, UnlockCmdMu, Cancel
<1>9. RxExits \/ Life \/ UNCHANGED vars => UNCHANGED <<boardVars, chan, rx, rxHold>>
  BY DEF RxExits, Life, MarkDead, Close, Unplug, vars
<1>10. played' = played => Played' = Played
  BY DEF Played
<1> HIDE DEF Board3, Rx1, Rx2
<1>11. Board3 /\ Rx1 /\ Rx2
  <2>1. UNCHANGED <<boardVars, chan, rx, rxHold>> => Board3 /\ Rx1 /\ Rx2
    BY <1>1 DEF Board3, Rx1, Rx2
  <2> QED
    BY <2>1, <1>2, <1>3, <1>4, <1>5, <1>6, <1>7, <1>8, <1>9 DEF Next, Caller, RxSide, Board, Quiet
<1> QED
  BY <1>10, <1>11 DEF Board3, Rx1, Rx2


\* What BoardPlays does.
LEMMA PlayGains ==
  ASSUME TypeOK, LedgerInv, BoardPlays
  PROVE  /\ pending \in Frames /\ pending # None /\ pending' = None
         /\ pending \in OwnFrames =>
              /\ pending = Cur(pending.call)
              /\ ~Unsent(pending.call) /\ ~InLine(pending) /\ chan[pending] = None
              /\ \A i \in DOMAIN rx : rx[i].of # pending
              /\ rxHold # None => rxHold.ack.of # pending
         /\ played' = Append(played, pending) /\ played \in Seq(Frames)
         /\ Played' = Played \cup {pending}
         /\ \A i \in DOMAIN rx' : rx'[i].code = "ok" \/ \E j \in DOMAIN rx : rx'[i] = rx[j]
         /\ UNCHANGED <<callVars, chan, rxHold, line, cmdMu>>
<1>1. /\ pending \in Frames /\ pending # None /\ pending' = None /\ played' = Append(played, pending)
      /\ rx' = Append(rx, Reply(pending, "ok")) /\ UNCHANGED <<callVars, chan, rxHold, line, cmdMu>>
  BY DEF BoardPlays, TypeOK
<1>2. Owed(pending)
  BY <1>1 DEF Owed, BoardPlays
<1>3. pending \in OwnFrames =>
        /\ ~Unsent(pending.call) /\ ~InLine(pending) /\ chan[pending] = None
        /\ \A i \in DOMAIN rx : rx[i].of # pending
        /\ rxHold # None => rxHold.ack.of # pending
        /\ pending.idx = idx[pending.call]
  BY <1>1, <1>2 DEF LedgerInv, DebtInv, PresentInv, BoardPlays
<1>4. pending \in OwnFrames => pending = Cur(pending.call)
  BY <1>1, <1>3, FrameFacts DEF Cur
<1>5. rx \in Seq(Replies) /\ Reply(pending, "ok") \in Replies /\ Reply(pending, "ok").code = "ok"
  BY <1>1, ReplyType DEF TypeOK, Codes
<1>6. \A i \in DOMAIN rx' : rx'[i].code = "ok" \/ \E j \in DOMAIN rx : rx'[i] = rx[j]
  <2>1. \A i \in DOMAIN rx' : (i \in DOMAIN rx /\ rx'[i] = rx[i]) \/ rx'[i] = Reply(pending, "ok")
    BY <1>1, <1>5, AppendFacts
  <2> QED
    BY <1>5, <2>1
<1>7. played \in Seq(Frames)
  BY DEF TypeOK
<1>8. Played' = Played \cup {pending}
  <2>1. /\ \A i \in DOMAIN played : i \in DOMAIN played' /\ played'[i] = played[i]
        /\ Len(played) + 1 \in DOMAIN played' /\ played'[Len(played) + 1] = pending
        /\ \A i \in DOMAIN played' : i \in DOMAIN played \/ i = Len(played) + 1
    BY <1>1, <1>7, AppendFacts
  <2>2. Played' = {played'[i] : i \in DOMAIN played'}
    BY DEF Played
  <2> QED
    BY <2>1, <2>2 DEF Played
<1> QED
  BY <1>1, <1>3, <1>4, <1>6, <1>7, <1>8

\* What was carried out is made of frames.
LEMMA PlayedType == TypeOK => Played \subseteq Frames
  BY DEF TypeOK, Played

-----------------------------------------------------------------------------
(* A frame is carried out once, and a refused one is not carried out. *)

LEMMA OnceNext ==
  ASSUME TypeOK, SentInv, LedgerInv, OnceInv, [Next]_vars
  PROVE  OnceInv'
<1>1. \A d \in Calls : Advances(d)
  BY CallsAdvance
<1>2. \A d \in Calls : idx[d] \in Nat
  BY DEF TypeOK
<1>3. ASSUME NEW f \in Frames, f.idx < idx[f.call] \/ (f.idx = idx[f.call] /\ ~Unsent(f.call))
      PROVE  f.idx < idx'[f.call] \/ (f.idx = idx'[f.call] /\ ~Unsent(f.call)')
  <2>1. f.call \in Calls /\ f.idx \in Nat
    BY FrameFacts
  <2> QED
    BY <1>1, <1>2, <1>3, <2>1 DEF Advances
<1>4. ASSUME ~BoardPlays, NEW f \in Played, f \in OwnFrames
      PROVE  pending' # f /\ ~InLine(f)'
  <2>1. f \in Frames /\ f.call \in Calls /\ f = Cur(f.call) => ~Unsent(f.call)
    BY <1>2, <1>4, PlayedType DEF OnceInv, Cur
  <2>2. f \in Frames /\ f.call \in Calls /\ f # None
    BY <1>4, PlayedType, FrameFacts, NoneAssumption DEF NoneAssumption
  <2>3. pending # f /\ ~InLine(f)
    BY <1>4 DEF OnceInv
  <2>4. \A c \in Calls : Unsent(c) => Cur(c) # f
    BY <2>1, <2>2 DEF Cur
  <2>5. ~InLine(f)'
    BY <1>4, <2>1, <2>2, <2>3, BoardGains DEF Writes
  <2>6. pending' # f
    BY <1>4, <2>2, <2>3, <2>4, BoardGains
  <2> QED
    BY <2>5, <2>6
<1>5. CASE ~BoardPlays
  <2>1. Played' = Played
    BY <1>5, BoardGains
  <2>2. \A f \in Played' \cap OwnFrames : f \in Frames /\ f \in Played /\ f \in OwnFrames
    BY <2>1, PlayedType
  <2> QED
    BY <1>3, <1>4, <1>5, <2>2 DEF OnceInv
<1>6. CASE BoardPlays
  <2>1. /\ pending \in Frames /\ pending' = None
        /\ pending \in OwnFrames => /\ pending = Cur(pending.call)
                                    /\ ~Unsent(pending.call) /\ ~InLine(pending)
        /\ Played' = Played \cup {pending} /\ UNCHANGED line
    BY <1>6, PlayGains
  <2>2. \A f : InLine(f)' <=> InLine(f)
    BY <2>1 DEF InLine
  <2>3. pending \in OwnFrames => pending.idx = idx[pending.call]
    BY <2>1 DEF Cur
  <2>4. ASSUME NEW f \in Played', f \in OwnFrames
        PROVE  f \in Frames /\ ~InLine(f) /\ (f.idx < idx[f.call] \/ (f.idx = idx[f.call] /\ ~Unsent(f.call)))
    <3>1. CASE f \in Played
      BY <2>4, <3>1, PlayedType DEF OnceInv
    <3>2. CASE f = pending
      BY <2>1, <2>3, <2>4, <3>2
    <3> QED
      BY <2>1, <2>4, <3>1, <3>2
  <2>5. \A f \in OwnFrames : None # f
    BY OwnFacts
  <2> QED
    BY <1>3, <2>1, <2>2, <2>4, <2>5 DEF OnceInv
<1> QED
  BY <1>5, <1>6

LEMMA RefusedNext ==
  ASSUME TypeOK, SentInv, LedgerInv, PaidInv, OnceInv, RefusedInv, [Next]_vars
  PROVE  RefusedInv'
<1> USE DEF callVars, lifeVars, rxVars, boardVars, Goto
<1>1. CASE BoardPlays
  <2>1. /\ pending \in Frames
        /\ pending \in OwnFrames => /\ pending = Cur(pending.call) /\ chan[pending] = None
                                    /\ \A i \in DOMAIN rx : rx[i].of # pending
                                    /\ rxHold # None => rxHold.ack.of # pending
        /\ Played' = Played \cup {pending}
        /\ \A i \in DOMAIN rx' : rx'[i].code = "ok" \/ \E j \in DOMAIN rx : rx'[i] = rx[j]
        /\ UNCHANGED <<pc, idx, ret, chan, rxHold>>
    BY <1>1, PlayGains
  <2>2. \A i \in DOMAIN rx' :
          rx'[i].code = "unknown" /\ rx'[i].of \in OwnFrames => rx'[i].of \notin Played'
    BY <2>1 DEF RefusedInv, Refuses
  <2>3. rxHold' # None =>
          (rxHold'.ack.code = "unknown" /\ rxHold'.ack.of \in OwnFrames => rxHold'.ack.of \notin Played')
    BY <2>1 DEF RefusedInv, Refuses
  <2>4. \A f \in Frames : chan'[f] # None =>
          (chan'[f].code = "unknown" /\ chan'[f].of \in OwnFrames => chan'[f].of \notin Played')
    <3> SUFFICES ASSUME NEW f \in Frames, chan[f] # None, chan[f].code = "unknown", chan[f].of \in OwnFrames
                 PROVE  chan[f].of \notin Played \cup {pending}
      BY <2>1
    <3>1. chan[f].of \notin Played
      BY DEF RefusedInv, Refuses
    <3>2. chan[f].of # pending
      <4> SUFFICES ASSUME chan[f].of = pending PROVE FALSE
        OBVIOUS
      <4>1. WireId[f] = WireId[pending]
        BY DEF LedgerInv, ReplyInv, Belongs, Honest
      <4>2. f \in OwnFrames
        BY <2>1, <4>1, OwnFacts
      <4>3. chan[f].of = f
        BY <4>2 DEF LedgerInv, ReplyInv, Belongs
      <4> QED
        BY <2>1, <4>3
    <3> QED
      BY <3>1, <3>2
  <2>5. \A c \in OwnCalls : pc'[c] = "cleanup" /\ ret'[c] = "unknown" => Cur(c) \notin Played'
    <3> SUFFICES ASSUME NEW c \in OwnCalls, pc[c] = "cleanup", ret[c] = "unknown"
                 PROVE  Cur(c) \notin Played \cup {pending}
      BY <2>1
    <3>1. Cur(c) \in OwnFrames /\ chan[Cur(c)] # None
      BY CurType, OwnFacts DEF PaidInv
    <3>2. Cur(c) \notin Played
      BY DEF RefusedInv
    <3> QED
      BY <2>1, <3>1, <3>2
  <2>6. \A c \in OwnCalls : idx'[c] >= 1 => [call |-> c, idx |-> 0] \notin Played'
    <3>1. ASSUME NEW c \in OwnCalls, idx[c] >= 1 PROVE [call |-> c, idx |-> 0] # pending
      <4>1. [call |-> c, idx |-> 0].call = c /\ [call |-> c, idx |-> 0].idx = 0
        OBVIOUS
      <4>2. idx[c] # 0
        BY <3>1, OwnFacts DEF TypeOK
      <4>3. pending.call = c => pending \in OwnFrames
        BY <2>1, OwnFacts
      <4> QED
        BY <2>1, <4>1, <4>2, <4>3 DEF Cur
    <3> QED
      BY <2>1, <3>1 DEF RefusedInv
  <2>7. \A c \in Calls : Cur(c)' = Cur(c)
    BY <2>1 DEF Cur
  <2> QED
    BY <2>1, <2>2, <2>3, <2>4, <2>5, <2>6, <2>7, OwnFacts DEF RefusedInv, Refuses
<1>2. CASE ~BoardPlays
  <2>1. Played' = Played
    BY <1>2, BoardGains
  <2>2. \A f \in OwnFrames :
          (InLine(f) \/ f = pending \/ (Writes(f) /\ Unsent(f.call))) => f \notin Played
    <3>1. ASSUME NEW f \in Played, f \in OwnFrames, Writes(f) PROVE ~Unsent(f.call)
      <4>1. f.idx = idx[f.call] /\ idx[f.call] \in Nat
        BY <3>1, FrameFacts DEF Writes, Cur, TypeOK
      <4> QED
        BY <3>1, <4>1 DEF OnceInv
    <3> QED
      BY <3>1 DEF OnceInv
  <2>3. ASSUME NEW i \in DOMAIN rx' PROVE Refuses(rx'[i])
    <3>1. CASE \E j \in DOMAIN rx : rx'[i] = rx[j]
      BY <3>1 DEF RefusedInv
    <3>2. CASE rx'[i].of \in OwnFrames => rx'[i].of \notin Played
      BY <3>2 DEF Refuses
    <3> QED
      BY <1>2, <2>2, <2>3, <3>1, <3>2, BoardGains
  <2>4. rxHold' # None => Refuses(rxHold'.ack)
    BY <1>2, BoardGains DEF RefusedInv
  <2>5. \A f \in Frames : chan'[f] # None => Refuses(chan'[f])
    BY <1>2, BoardGains DEF RefusedInv
  <2>6. ASSUME NEW c \in Calls, c \in OwnCalls, pc'[c] = "cleanup", ret'[c] = "unknown"
        PROVE  Cur(c)' \notin Played
    <3>1. \/ AwaitAck(c)
          \/ pc[c] = "cleanup" /\ ret[c] = "unknown" /\ idx'[c] = idx[c]
      <4>1. ASSUME NEW d \in Calls, CallStep(d) PROVE AwaitAck(d) \/ ~(pc'[d] = "cleanup" /\ ret'[d] = "unknown")
        BY <4>1 DEF CallStep, SendCommand, Register, WriteFails, WriteByte, PaceElapses, PaceAborts,
           AwaitTimeout, AwaitAborts, EndsWithError, GiveUp, FrameReturns, GapElapses, GapAborts,
           UnlockCmdMu, TypeOK
      <4>2. ASSUME NEW d \in Calls, CallStep(d), d # c
            PROVE  pc'[c] = pc[c] /\ ret'[c] = ret[c] /\ idx'[c] = idx[c]
        BY <4>2 DEF CallStep, SendCommand, Register, WriteFails, WriteByte, PaceElapses, PaceAborts,
           AwaitAck, AwaitTimeout, AwaitAborts, EndsWithError, GiveUp, FrameReturns, GapElapses,
           GapAborts, UnlockCmdMu, TypeOK
      <4>3. ASSUME NEW d \in Calls, LockCmdMu(d)
            PROVE  pc[c] = "cleanup" /\ ret'[c] = ret[c] /\ idx'[c] = idx[c]
        BY <2>6, <4>3 DEF LockCmdMu, TypeOK
      <4>4. (\E d \in Calls : Cancel(d)) \/ RxSide \/ Life \/ Board \/ UNCHANGED vars
              => UNCHANGED callVars
        BY DEF Cancel, RxSide, RxLookup, RxDeliver, RxLoses, RxExits, Life, MarkDead, Close,
               Unplug, Board, BoardPlays, BoardRefuses, BoardResets, vars
      <4> QED
        BY <2>6, <4>1, <4>2, <4>3, <4>4 DEF Next, Caller, Quiet
    <3>2. CASE AwaitAck(c)
      <4>1. chan[Cur(c)] # None /\ UNCHANGED idx /\ chan[Cur(c)].code = "unknown"
        BY <2>6, <3>2 DEF AwaitAck, Outcome, TypeOK
      <4>2. Cur(c) \in OwnFrames /\ chan[Cur(c)].of = Cur(c)
        BY <2>6, <4>1, CurType, OwnFacts DEF LedgerInv, ReplyInv, Belongs
      <4>3. Cur(c) \notin Played
        BY <4>1, <4>2, OwnFacts DEF RefusedInv, Refuses
      <4> QED
        BY <4>1, <4>3 DEF Cur
    <3>3. CASE pc[c] = "cleanup" /\ ret[c] = "unknown" /\ idx'[c] = idx[c]
      BY <2>6, <3>3 DEF RefusedInv, Cur
    <3> QED
      BY <3>1, <3>2, <3>3
  <2>7. ASSUME NEW c \in Calls, c \in OwnCalls, idx'[c] >= 1 PROVE [call |-> c, idx |-> 0] \notin Played
    <3>1. CASE idx[c] >= 1
      BY <2>7, <3>1 DEF RefusedInv
    <3>2. CASE ~(idx[c] >= 1)
      <4>1. FrameReturns(c) /\ FallsBack(c) /\ idx[c] = 0
        BY <2>7, <3>2, CallsAdvance DEF Advances, HasNextNote, TypeOK
      <4> QED
        BY <2>7, <4>1 DEF FrameReturns, FallsBack, RefusedInv, Cur
    <3> QED
      BY <3>1, <3>2
  <2> QED
    BY <2>1, <2>3, <2>4, <2>5, <2>6, <2>7, OwnFacts DEF RefusedInv, Refuses
<1> QED
  BY <1>1, <1>2


-----------------------------------------------------------------------------
(* While a note is due, its predecessor stays on top. *)

\* In the locked region, the caller that writes is the one that holds the lock.
LEMMA OneWriter ==
  ASSUME ControlInv, NEW c \in Calls, NEW d \in Calls, pc[c] = "write", pc[d] \in Critical
  PROVE  c = d
  BY DEF ControlInv, LockInv, Critical

LEMMA RunNext ==
  ASSUME TypeOK, SentInv, ControlInv, LedgerInv, PaidInv, OnceInv, RunInv, [Next]_vars
  PROVE  RunInv'
<1>1. \A d \in Calls : Advances(d) /\ Enters(d)
  BY CallsAdvance
<1>2. \A d \in Calls : idx[d] \in Nat /\ Cur(d) \in Frames /\ Cur(d).call = d /\ Cur(d).idx = idx[d]
                       /\ Cur(d) # None
  BY CurType, NoneAssumption DEF TypeOK, NoneAssumption
<1>3. \A d \in Calls : pc'[d] \in {"enter", "lock"} => idx'[d] <= 1
  BY <1>1 DEF Enters, RunInv
<1>4. ASSUME NEW c \in Calls, c \in OwnCalls, pc'[c] \in Critical, Cur(c)' \in Played'
      PROVE  pending' = None /\ OnTop(Cur(c))'
  <2>1. CASE BoardPlays
    <3>1. /\ pending # None /\ pending' = None /\ played' = Append(played, pending)
          /\ played \in Seq(Frames) /\ pending \in Frames
          /\ Played' = Played \cup {pending} /\ pc' = pc /\ idx' = idx
      BY <2>1, PlayGains, NoneAssumption DEF NoneAssumption, callVars
    <3>2. Cur(c)' = Cur(c)
      BY <3>1 DEF Cur
    <3>3. Cur(c) = pending
      BY <1>4, <3>1, <3>2 DEF RunInv
    <3>4. played' # <<>> /\ played'[Len(played')] = pending
      <4>1. Len(played') = Len(played) + 1 /\ played'[Len(played) + 1] = pending
            /\ DOMAIN played' = 1..(Len(played) + 1) /\ Len(played) \in Nat
        BY <3>1, AppendFacts
      <4> QED
        BY <4>1
    <3> QED
      BY <3>1, <3>2, <3>3, <3>4 DEF OnTop
  <2>2. CASE ~BoardPlays
    <3>1. played' = played /\ Played' = Played
      BY <2>2, BoardGains
    <3>2. idx'[c] = idx[c]
      <4>1. Cur(c)'.call = c /\ Cur(c)'.idx = idx'[c]
        BY DEF Cur
      <4>2. idx'[c] <= idx[c]
        BY <1>1, <1>2, <1>4, <3>1, <4>1, PlayedType, OwnFacts DEF OnceInv, Advances
      <4> QED
        BY <1>1, <1>2, <4>2 DEF Advances
    <3>3. Cur(c)' = Cur(c) /\ Cur(c) \in Played
      BY <1>4, <3>1, <3>2 DEF Cur
    <3>4. ~Unsent(c)
      BY <1>2, <1>4, <3>3, OwnFacts DEF OnceInv
    <3>5. pc[c] \in Critical /\ pc[c] # "write"
      BY <1>1, <1>4, <3>4 DEF Enters, Unsent, SentInv
    <3>6. pending = None /\ OnTop(Cur(c))
      BY <1>4, <3>3, <3>5 DEF RunInv
    <3>7. ~(\E d \in Calls : pc[d] = "write" /\ pending' = Cur(d))
      BY <3>5, OneWriter
    <3>8. pending' = None
      BY <2>2, <3>6, <3>7, BoardGains
    <3> QED
      BY <3>1, <3>3, <3>6, <3>8 DEF OnTop
  <2> QED
    BY <2>1, <2>2
<1>5. ASSUME NEW c \in Calls, c \in OwnCalls, idx'[c] >= 2, Due(c)'
      PROVE  /\ pending' \in {None, Cur(c)'}
             /\ OnTop([call |-> c, idx |-> idx[c] - 1])'
  <2>1. CASE BoardPlays
    <3>1. /\ pending # None /\ pending' = None /\ pending \in Frames
          /\ pending \in OwnFrames => ~Unsent(pending.call)
          /\ pc' = pc /\ idx' = idx /\ sent' = sent
      BY <2>1, PlayGains, NoneAssumption DEF NoneAssumption, callVars
    <3>2. Cur(c)' = Cur(c) /\ (Unsent(c)' <=> Unsent(c))
      BY <3>1 DEF Cur, Unsent
    <3>3. pc[c] \in Critical /\ Unsent(c)
      BY <1>2, <1>5, <3>1, <3>2 DEF Due
    <3>4. pending = Cur(c)
      BY <1>5, <3>1, <3>3 DEF RunInv, Due
    <3>5. pending.call = c /\ pending \in OwnFrames
      BY <1>2, <1>5, <3>4, OwnFacts
    <3> QED
      BY <3>1, <3>3, <3>5
  <2>2. CASE ~BoardPlays
    <3>1. played' = played
      BY <2>2, BoardGains
    <3>2. CASE idx'[c] = idx[c]
      <4>1. Cur(c)' = Cur(c)
        BY <3>2 DEF Cur
      <4>2. pending' \in {pending, None} \/ (pc[c] = "write" /\ Unsent(c) /\ pending' = Cur(c))
            \/ \E d \in Calls \ {c} : pc[d] = "write" /\ pending' = Cur(d)
        BY <2>2, BoardGains
      <4>3. Due(c)
        <5>1. CASE pending' = Cur(c)
          <6>1. \A d \in Calls \ {c} : pending' # Cur(d)
            BY <1>2, <5>1
          <6> QED
            BY <1>2, <4>2, <5>1, <6>1 DEF Due, Critical
        <5>2. CASE pending' # Cur(c)
          <6>1. pc'[c] \in Critical /\ Unsent(c)'
            BY <1>5, <4>1, <5>2 DEF Due
          <6>2. pc[c] # "lock"
            <7>1. pc[c] = "lock" => idx[c] <= 1
              BY DEF RunInv
            <7> QED
              BY <1>2, <1>5, <3>2, <7>1
          <6> QED
            BY <1>1, <1>2, <3>2, <6>1, <6>2 DEF Advances, Enters, Due
        <5> QED
          BY <5>1, <5>2
      <4>4. pending \in {None, Cur(c)} /\ OnTop([call |-> c, idx |-> idx[c] - 1])
        BY <1>5, <3>2, <4>3 DEF RunInv
      <4>5. pending' \in {None, Cur(c)}
        <5>1. CASE pc'[c] \in Critical /\ Unsent(c)'
          <6>1. pc[c] \in Critical
            <7>1. pc[c] = "lock" => idx[c] <= 1
              BY DEF RunInv
            <7> QED
              BY <1>1, <1>2, <1>5, <3>2, <5>1, <7>1 DEF Enters
          <6>2. \A d \in Calls \ {c} : pc[d] # "write"
            BY <6>1, OneWriter
          <6> QED
            BY <4>2, <4>4, <6>2
        <5>2. CASE ~(pc'[c] \in Critical /\ Unsent(c)')
          BY <1>5, <4>1, <5>2 DEF Due
        <5> QED
          BY <5>1, <5>2
      <4> QED
        BY <3>1, <3>2, <4>1, <4>4, <4>5 DEF OnTop
    <3>3. CASE idx'[c] # idx[c]
      <4>1. idx'[c] = idx[c] + 1 /\ FrameReturns(c) /\ (FallsBack(c) \/ HasNextNote(c))
        BY <1>1, <3>3 DEF Advances
      <4>2. idx[c] >= 1 /\ HasNextNote(c)
        BY <1>2, <1>5, <4>1 DEF FallsBack, OnSong
      <4>3. pc[c] = "cleanup" /\ ret[c] = "ok" /\ pending' = pending
        BY <4>1, <4>2 DEF FrameReturns, HasNextNote, boardVars
      <4>4. Cur(c) \in Played
        BY <1>2, <1>5, <4>3, OwnFacts DEF PaidInv, Carried
      <4>5. pending = None /\ OnTop(Cur(c))
        BY <1>5, <4>3, <4>4 DEF RunInv, Critical
      <4>6. Cur(c) = [call |-> c, idx |-> idx'[c] - 1]
        BY <1>2, <4>1 DEF Cur
      <4> QED
        BY <3>1, <4>3, <4>5, <4>6 DEF OnTop
    <3> QED
      BY <3>2, <3>3
  <2> QED
    BY <2>1, <2>2
<1> QED
  BY <1>3, <1>4, <1>5 DEF RunInv

\* A report is made on the way to "end", and "end" is final.
LEMMA ReportNext ==
  ASSUME TypeOK, ReportInv, [Next]_vars
  PROVE  ReportInv'
<1> USE DEF callVars, lifeVars, rxVars, boardVars, Goto
<1>1. ASSUME NEW c \in Calls, SendCommand(c) PROVE ReportInv'
  BY <1>1 DEF SendCommand, ReportInv, TypeOK
<1>2. ASSUME NEW c \in Calls, UnlockCmdMu(c) PROVE ReportInv'
  BY <1>2 DEF UnlockCmdMu, ReportInv, TypeOK
<1>3. ASSUME NEW c \in Calls, NEW l \in PCs, pc[c] # "end", pc' = [pc EXCEPT ![c] = l], result' = result
      PROVE  ReportInv'
  BY <1>3 DEF ReportInv, TypeOK
<1>4. ASSUME NEW c \in Calls, LockCmdMu(c) \/ (CallStep(c) /\ ~SendCommand(c) /\ ~UnlockCmdMu(c))
      PROVE  pc[c] # "end" /\ result' = result /\ \E l \in PCs : pc' = [pc EXCEPT ![c] = l]
  <2>1. CASE LockCmdMu(c) \/ Register(c) \/ WriteByte(c) \/ PaceElapses(c) \/ GapElapses(c) \/ GapAborts(c)
    BY <2>1 DEF LockCmdMu, Register, WriteByte, PaceElapses, GapElapses, GapAborts, PCs
  <2>2. CASE WriteFails(c) \/ PaceAborts(c) \/ AwaitAck(c) \/ AwaitTimeout(c) \/ AwaitAborts(c)
    BY <2>2 DEF WriteFails, PaceAborts, AwaitAck, AwaitTimeout, TimerFires, AwaitAborts, EndsWithError,
                GiveUp, PCs
  <2>3. CASE FrameReturns(c)
    BY <2>3 DEF FrameReturns, PCs
  <2> QED
    BY <1>4, <2>1, <2>2, <2>3 DEF CallStep
<1>5. (\E d \in Calls : Cancel(d)) \/ RxSide \/ Life \/ Board \/ UNCHANGED vars => UNCHANGED callVars
  BY DEF Cancel, RxSide, RxLookup, RxDeliver, RxLoses, RxExits, Life, MarkDead, Close, Unplug, Board,
         BoardPlays, BoardRefuses, BoardResets, vars
<1>6. CASE UNCHANGED callVars
  BY <1>6 DEF ReportInv
<1> QED
  BY <1>1, <1>2, <1>3, <1>4, <1>5, <1>6 DEF Next, Caller, Quiet

-----------------------------------------------------------------------------
(* What the board carries out next. *)

\* The pending frame is the single command or the song of an untouched call, the
\* first note of an untouched call, or the note after the one on top.
LEMMA PlaysInTurn ==
  ASSUME TypeOK, ControlInv, LedgerInv, OnceInv, RefusedInv, RunInv, BoardPlays,
         NEW c \in OwnCalls, c = pending.call
  PROVE  /\ c \in Calls /\ pending = [call |-> c, idx |-> idx[c]]
         /\ idx[c] = 0 => Kind[c] # "notes"
         /\ idx[c] # 0 => Kind[c] # "cmd" /\ idx[c] \in 1..NoteCount[c]
         /\ idx[c] <= 1 => \A i \in DOMAIN played : played[i].call # c
         /\ idx[c] > 1 => OnTop([call |-> c, idx |-> idx[c] - 1])
<1>1. pending \in OwnFrames /\ pending \in Frames /\ pending = Cur(c)
  <2>1. pending \in Frames
    BY PlayGains
  <2>2. pending \in OwnFrames
    BY <2>1, OwnFacts
  <2> QED
    BY <2>1, <2>2, PlayGains
<1>2. c \in Calls /\ idx[c] \in Nat /\ pending = [call |-> c, idx |-> idx[c]]
  BY <1>1, FrameFacts DEF TypeOK, Cur
<1>3. idx[c] = 0 => Kind[c] # "notes"
  BY <1>2 DEF ControlInv, IndexInv
<1>4. idx[c] # 0 => Kind[c] # "cmd" /\ idx[c] \in 1..NoteCount[c]
  <2>1. NoteCount[c] \in Nat
    BY <1>2
  <2> QED
    BY <1>2, <2>1 DEF ControlInv, IndexInv
<1>5. ASSUME idx[c] <= 1, NEW i \in DOMAIN played, played[i].call = c PROVE FALSE
  <2> DEFINE f == played[i]
  <2>1. f \in Played /\ f \in OwnFrames /\ f \in Frames /\ f.idx \in Nat /\ f = [call |-> c, idx |-> f.idx]
    BY <1>5, PlayedType, FrameFacts, OwnFacts DEF Played
  <2>2. f.idx <= idx[c] /\ f # pending
    BY <1>2, <1>5, <2>1 DEF OnceInv
  <2>3. f.idx = 0 /\ idx[c] = 1
    BY <1>2, <1>5, <2>1, <2>2
  <2> QED
    BY <1>2, <2>1, <2>3 DEF RefusedInv
<1>6. idx[c] > 1 => OnTop([call |-> c, idx |-> idx[c] - 1])
  BY <1>1, <1>2 DEF RunInv, Due
<1> QED
  BY <1>2, <1>3, <1>4, <1>5, <1>6

LEMMA UnbrokenNext ==
  ASSUME TypeOK, SentInv, ControlInv, LedgerInv, OnceInv, RefusedInv, RunInv, SequenceUnbroken, [Next]_vars
  PROVE  SequenceUnbroken'
<1>1. CASE ~BoardPlays
  <2>1. played' = played
    BY <1>1, BoardGains
  <2> QED
    BY <2>1 DEF SequenceUnbroken
<1>2. CASE BoardPlays
  <2>1. played \in Seq(Frames) /\ pending \in Frames /\ played' = Append(played, pending)
    BY <1>2, PlayGains
  <2>c. PICK c \in Calls : c = pending.call
    BY <2>1, FrameFacts
  <2>n. PICK n \in Nat : n = Len(played)
    BY <2>1
  <2>2. /\ DOMAIN played = 1..n /\ DOMAIN played' = 1..(n + 1)
        /\ \A i \in 1..n : played'[i] = played[i]
        /\ played'[n + 1] = pending
    BY <2>1, <2>n, AppendFacts
  <2>3. \A i \in 1..n : played[i] \in Frames /\ played[i].idx \in Nat
        /\ played[i] = [call |-> played[i].call, idx |-> played[i].idx]
    BY <2>1, <2>2, FrameFacts
  <2>4. c \in OwnCalls =>
        /\ idx[c] \in Nat /\ pending = [call |-> c, idx |-> idx[c]]
        /\ idx[c] <= 1 => \A i \in DOMAIN played : played[i].call # c
        /\ idx[c] > 1 => OnTop([call |-> c, idx |-> idx[c] - 1])
    <3>1. c \in OwnCalls =>
          /\ pending = [call |-> c, idx |-> idx[c]]
          /\ idx[c] <= 1 => \A i \in DOMAIN played : played[i].call # c
          /\ idx[c] > 1 => OnTop([call |-> c, idx |-> idx[c] - 1])
      BY <1>2, <2>c, PlaysInTurn
    <3>2. idx[c] \in Nat
      BY DEF TypeOK
    <3> QED
      BY <3>1, <3>2
  <2>5. ASSUME NEW i \in 1..n, played[i].call = c, c \in OwnCalls
        PROVE  /\ played[i].idx >= 1
               /\ idx[c] = played[i].idx + (n + 1 - i)
               /\ \A k \in i..n : played[k] = [call |-> c, idx |-> played[i].idx + (k - i)]
    <3>0. idx[c] \in Nat
      BY <2>4, <2>5
    <3>1. idx[c] > 1 /\ played[n] = [call |-> c, idx |-> idx[c] - 1]
      <4>1. i \in DOMAIN played /\ played[i].call = c
        BY <2>2, <2>5
      <4>2. ~(idx[c] <= 1)
        BY <2>4, <2>5, <4>1
      <4> QED
        BY <2>n, <2>4, <2>5, <3>0, <4>2 DEF OnTop
    <3>2. played[n].call = c /\ played[n].idx = idx[c] - 1
      BY <3>1
    <3>3. CASE i = n
      BY <2>3, <2>4, <2>5, <3>1, <3>2, <3>3
    <3>4. CASE i < n
      <4>1. played[n].call = played[i].call /\ i \in DOMAIN played /\ n \in DOMAIN played
        BY <2>2, <2>5, <3>2
      <4>2. played[i].idx >= 1
            /\ \A k \in i..n : played[k] = [call |-> played[i].call, idx |-> played[i].idx + (k - i)]
        BY <2>5, <3>4, <4>1 DEF SequenceUnbroken
      <4>3. played[n].idx = played[i].idx + (n - i) /\ played[n].idx = idx[c] - 1
        <5>1. n \in i..n
          BY <2>5, <3>4
        <5>2. played[n] = [call |-> played[i].call, idx |-> played[i].idx + (n - i)]
          BY <4>2, <5>1
        <5> QED
          BY <3>2, <5>2
      <4>4. played[i].idx \in Nat
        BY <2>3, <2>5
      <4>5. i \in Nat /\ n \in Nat
        BY <2>n, <2>5
      <4>6. PICK p \in Nat : p = played[i].idx
        BY <4>4
      <4>7. idx[c] = p + (n + 1 - i)
        BY <3>0, <4>3, <4>5, <4>6
      <4> QED
        BY <2>5, <4>2, <4>6, <4>7
    <3> QED
      BY <3>3, <3>4
  <2>6. ASSUME NEW i \in DOMAIN played', NEW j \in DOMAIN played', i < j, played'[i].call = played'[j].call,
               played'[i].call \in OwnCalls
        PROVE  /\ played'[i].idx >= 1
               /\ \A k \in i..j : played'[k] = [call |-> played'[i].call, idx |-> played'[i].idx + (k - i)]
    <3>1. i \in 1..n /\ played'[i] = played[i]
      BY <2>2, <2>6
    <3>2. CASE j \in 1..n
      <4>1. played'[j] = played[j] /\ \A k \in i..j : k \in 1..n /\ played'[k] = played[k]
        BY <2>2, <2>6, <3>1, <3>2
      <4>2. /\ played[i].idx >= 1
            /\ \A k \in i..j : played[k] = [call |-> played[i].call, idx |-> played[i].idx + (k - i)]
        BY <2>2, <2>6, <3>1, <3>2, <4>1 DEF SequenceUnbroken
      <4> QED
        BY <3>1, <4>1, <4>2
    <3>3. CASE j = n + 1
      <4>1. played[i].call = c /\ c \in OwnCalls
        BY <2>c, <2>2, <2>6, <3>1, <3>3
      <4>2. /\ played[i].idx >= 1
            /\ idx[c] = played[i].idx + (n + 1 - i)
            /\ \A k \in i..n : played[k] = [call |-> c, idx |-> played[i].idx + (k - i)]
        BY <2>5, <3>1, <4>1
      <4>3. \A k \in i..j : (k \in i..n /\ played'[k] = played[k]) \/ k = n + 1
        BY <2>2, <3>1, <3>3
      <4>4. played'[n + 1] = [call |-> c, idx |-> played[i].idx + (n + 1 - i)]
        BY <2>2, <2>4, <4>1, <4>2
      <4> QED
        BY <3>1, <4>1, <4>2, <4>3, <4>4
    <3> QED
      BY <2>2, <3>2, <3>3
  <2> QED
    BY <2>6 DEF SequenceUnbroken
<1> QED
  BY <1>1, <1>2


-----------------------------------------------------------------------------
(* The theorems. *)

LEMMA ContractInit == Init => ContractInv
<1> SUFFICES ASSUME Init PROVE ContractInv
  OBVIOUS
<1>1. /\ played = <<>> /\ DOMAIN played = {} /\ Played = {} /\ pending = None /\ rxHold = None
      /\ rx = <<>> /\ DOMAIN rx = {}
      /\ \A f \in Frames : chan[f] = None
      /\ \A c \in Calls : pc[c] = "enter" /\ idx[c] \in {0, 1} /\ result[c] = "none"
  BY DEF Init, Played, FirstIdx
<1>2. OnceInv
  BY <1>1 DEF OnceInv
<1>3. RefusedInv
  BY <1>1, OwnFacts DEF RefusedInv
<1>4. RunInv
  <2>1. \A c \in Calls : pc[c] \notin Critical
    BY <1>1 DEF Critical
  <2>2. \A c \in Calls : idx[c] <= 1 /\ ~(idx[c] >= 2)
    <3> SUFFICES ASSUME NEW c \in Calls PROVE idx[c] <= 1 /\ ~(idx[c] >= 2)
      OBVIOUS
    <3>1. idx[c] = 0 \/ idx[c] = 1
      BY <1>1
    <3> QED
      BY <3>1
  <2> QED
    BY <2>1, <2>2 DEF RunInv
<1>5. ReportInv /\ SequenceUnbroken
  BY <1>1 DEF ReportInv, SequenceUnbroken
<1> QED
  BY <1>2, <1>3, <1>4, <1>5 DEF ContractInv

\* IndInv and ContractInv together are inductive.
THEOREM ContractInduction == Spec => [](IndInv /\ ContractInv)
<1>1. Init => ContractInv
  BY ContractInit
<1>2. IndInv /\ ContractInv /\ [Next]_vars => ContractInv'
  <2> SUFFICES ASSUME IndInv, ContractInv, [Next]_vars PROVE ContractInv'
    OBVIOUS
  <2>1. /\ TypeOK /\ SentInv /\ ControlInv /\ LedgerInv /\ PaidInv
        /\ OnceInv /\ RefusedInv /\ RunInv /\ ReportInv /\ SequenceUnbroken
    BY DEF IndInv, ControlInv, LedgerInv, ContractInv
  <2>2. OnceInv'
    BY <2>1, OnceNext
  <2>3. RefusedInv'
    BY <2>1, RefusedNext
  <2>4. RunInv'
    BY <2>1, RunNext
  <2>5. ReportInv'
    BY <2>1, ReportNext
  <2>6. SequenceUnbroken'
    BY <2>1, UnbrokenNext
  <2> QED
    BY <2>2, <2>3, <2>4, <2>5, <2>6 DEF ContractInv
<1> QED
  BY <1>1, <1>2, Induction, PTL DEF Spec

\* What the board carried out for one tone-sequence with an id of its own is one
\* unbroken run of notes with no other call's command in between, whatever ids
\* the other calls share (music.go:188, music.go:200).
THEOREM SequenceUnbrokenHolds == Spec => []SequenceUnbroken
<1>1. ContractInv => SequenceUnbroken
  BY DEF ContractInv
<1> QED
  BY <1>1, ContractInduction, PTL

\* A step of the command path is a step of the contract, or changes nothing that
\* the contract sees.
LEMMA StepKeepsContract ==
  ASSUME IndInv, ContractInv, [Next]_vars
  PROVE  [Contract!Next]_<<played, result>>
<1> USE DEF callVars, lifeVars, rxVars, boardVars, Goto
<1>1. /\ TypeOK /\ SentInv /\ ControlInv /\ LedgerInv /\ TruthInv
      /\ OnceInv /\ RefusedInv /\ RunInv /\ ReportInv
  BY DEF IndInv, ControlInv, LedgerInv, ContractInv
<1>2. CASE BoardPlays
  <2>1. pending \in Frames /\ played' = Append(played, pending) /\ result' = result
    BY <1>1, <1>2, PlayGains
  <2>2. PICK c \in Calls : c = pending.call
    BY <2>1, FrameFacts
  <2>3. c \in OwnCalls =>
        /\ pending = Contract!Unit(c, idx[c])
        /\ idx[c] = 0 => Kind[c] # "notes"
        /\ idx[c] # 0 => Kind[c] # "cmd" /\ idx[c] \in 1..NoteCount[c]
        /\ idx[c] <= 1 => Contract!Untouched(c)
        /\ idx[c] > 1 => played # <<>> /\ played[Len(played)] = Contract!Unit(c, idx[c] - 1)
    BY <1>1, <1>2, <2>2, PlaysInTurn DEF Contract!Unit, Contract!Untouched, OnTop
  <2>4. idx[c] \in Nat
    BY <1>1 DEF TypeOK
  <2>o. CASE c \notin OwnCalls
    <3>1. pending.idx \in 0..MaxNotes /\ pending = Contract!Unit(c, pending.idx)
      BY <2>1, <2>2, FrameFacts DEF Contract!Unit
    <3> QED
      BY <2>1, <2>o, <3>1 DEF Contract!Next, Contract!PerformShared
  <2>5. CASE c \in OwnCalls /\ idx[c] = 0
    BY <2>1, <2>3, <2>5 DEF Contract!Next, Contract!PerformWhole
  <2>6. CASE c \in OwnCalls /\ idx[c] = 1
    BY <2>1, <2>3, <2>6 DEF Contract!Next, Contract!PerformFirstNote
  <2>7. CASE c \in OwnCalls /\ idx[c] > 1
    <3>1. Contract!PerformNextNote(c)
      BY <2>1, <2>3, <2>4, <2>7 DEF Contract!PerformNextNote
    <3> QED
      BY <3>1 DEF Contract!Next
  <2> QED
    BY <2>4, <2>o, <2>5, <2>6, <2>7
<1>3. ASSUME NEW c \in Calls, SendCommand(c) PROVE [Contract!Next]_<<played, result>>
  <2>1. played' = played /\ result[c] = "none"
    BY <1>1, <1>3 DEF SendCommand, ReportInv
  <2>2. result' = result \/ result' = [result EXCEPT ![c] = "FAILED"]
    BY <1>3 DEF SendCommand
  <2> QED
    BY <2>1, <2>2 DEF Contract!Next, Contract!Fail
<1>4. ASSUME NEW c \in Calls, UnlockCmdMu(c) PROVE [Contract!Next]_<<played, result>>
  <2>1. pc[c] = "unlock" /\ played' = played /\ result[c] = "none"
        /\ result' = [result EXCEPT ![c] = IF ret[c] = "ok" THEN "SUCCEEDED" ELSE "FAILED"]
    BY <1>1, <1>4 DEF UnlockCmdMu, ReportInv
  <2>2. CASE ret[c] = "ok"
    <3>1. c \in OwnCalls => Performed(c)
      BY <1>1, <2>1, <2>2, OwnVouched DEF TruthInv
    <3>2. \A i : [call |-> c, idx |-> i] \in Played => Contract!Has(c, i)
      BY DEF Played, Contract!Has, Contract!Unit
    <3>3. c \in OwnCalls => Contract!Complete(c)
      BY <3>1, <3>2 DEF Performed, Notes, Contract!Complete
    <3> QED
      BY <2>1, <2>2, <3>3 DEF Contract!Next, Contract!Succeed
  <2>3. CASE ret[c] # "ok"
    BY <2>1, <2>3 DEF Contract!Next, Contract!Fail
  <2> QED
    BY <2>2, <2>3
<1>5. ASSUME NEW c \in Calls, LockCmdMu(c) \/ Cancel(c) \/ (CallStep(c) /\ ~SendCommand(c) /\ ~UnlockCmdMu(c))
      PROVE  result' = result
  BY <1>5 DEF LockCmdMu, Cancel, CallStep, Register, WriteFails, WriteByte, PaceElapses, PaceAborts,
     AwaitAck, AwaitTimeout, AwaitAborts, FrameReturns, GapElapses, GapAborts
<1>6. RxSide \/ Life \/ BoardRefuses \/ BoardResets \/ UNCHANGED vars => result' = result
  BY DEF RxSide, RxLookup, RxDeliver, RxLoses, RxExits, Life, MarkDead, Close, Unplug, BoardRefuses,
         BoardResets, vars
<1>7. CASE ~BoardPlays /\ result' = result
  BY <1>1, <1>7, BoardGains
<1> QED
  BY <1>2, <1>3, <1>4, <1>5, <1>6, <1>7 DEF Next, Caller, Board, Quiet

\* What the callers are told and what the board carries out is a behaviour of
\* CommandContract: every call is reported once, and of the calls with ids of
\* their own a success was performed whole and a sequence is one song or one
\* unbroken run of notes (device.go:270, music.go:188).
THEOREM KeepsContractHolds == Spec => KeepsContract
<1>1. Init => Contract!Init
  BY DEF Init, Contract!Init
<1>2. IndInv /\ ContractInv /\ [Next]_vars => [Contract!Next]_<<played, result>>
  BY StepKeepsContract
<1> QED
  BY <1>1, <1>2, ContractInduction, PTL DEF Spec, KeepsContract, Contract!Spec

=============================================================================
