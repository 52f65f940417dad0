-------------------------- MODULE StcbCommandProofs --------------------------
(***************************************************************************)
(* Theorems about StcbCommand, for every set of calls, every number of     *)
(* notes, every frame length and every environment fault.                  *)
(***************************************************************************)
EXTENDS StcbCommandInv, TLAPS

USE CallsAssumption, WireAssumption, SubsetAssumption
    DEF CallsAssumption, WireAssumption, SubsetAssumption

\* The sequence t is s with e at its end.
LEMMA AppendFacts ==
  ASSUME NEW S, NEW s \in Seq(S), NEW e \in S, NEW t, t = Append(s, e)
  PROVE  /\ DOMAIN s = 1..Len(s) /\ DOMAIN t = 1..(Len(s) + 1)
         /\ \A i \in DOMAIN s : i \in DOMAIN t /\ t[i] = s[i]
         /\ t[Len(s) + 1] = e
         /\ \A i \in DOMAIN t : i \in DOMAIN s \/ i = Len(s) + 1
         /\ Len(s) \in Nat /\ Len(t) = Len(s) + 1
  OBVIOUS

\* A sequence that agrees with the first elements of w is its initial segment.
LEMMA SegmentFacts ==
  ASSUME NEW S, NEW s \in Seq(S), NEW w \in Seq(S), Len(s) <= Len(w),
         \A i \in DOMAIN s : s[i] = w[i]
  PROVE  s = SubSeq(w, 1, Len(s))
<1>1. SubSeq(w, 1, Len(s)) \in Seq(S) /\ Len(SubSeq(w, 1, Len(s))) = Len(s)
  OBVIOUS
<1>2. \A i \in 1..Len(s) : SubSeq(w, 1, Len(s))[i] = w[i]
  OBVIOUS
<1> QED
  BY <1>1, <1>2

\* A frame is its call and its index.
LEMMA FrameFacts ==
  /\ \A c \in Calls, i \in 0..MaxNotes : [call |-> c, idx |-> i] \in Frames
  /\ \A f \in Frames : f.call \in Calls /\ f.idx \in 0..MaxNotes /\ f = [call |-> f.call, idx |-> f.idx]
  BY DEF Frames

\* The present frame of a call is a frame.
LEMMA CurType == ASSUME TypeOK, NEW c \in Calls PROVE Cur(c) \in Frames /\ Cur(c).call = c /\ Cur(c).idx = idx[c]
  BY FrameFacts DEF TypeOK, Cur

\* A reply to a frame is a reply.
LEMMA ReplyType ==
  ASSUME NEW f \in Frames, NEW code \in Codes
  PROVE  Reply(f, code) \in Replies /\ Reply(f, code).of = f /\ Reply(f, code).code = code
         /\ Reply(f, code).id = WireId[f]
  BY DEF Reply, Replies

\* What the board does with a byte keeps its variables in their types.
LEMMA ReceiveType ==
  ASSUME TypeOK, NEW b \in Bytes, BoardReceives(b)
  PROVE  line' \in Seq(Bytes) /\ pending' \in Frames \cup {None} /\ rx' \in Seq(Replies)
<1> DEFINE l == Append(line, b)
<1>1. l \in Seq(Bytes)
  BY DEF TypeOK
<1>2. b.frame \in Frames
  BY DEF Bytes
<1>3. \A i \in DOMAIN l : l[i].frame \in Frames
  <2>1. \A i \in DOMAIN l : l[i] \in Bytes
    BY <1>1
  <2> QED
    BY <2>1 DEF Bytes
<1>4. CASE b.k < FrameLen
  BY <1>1, <1>4 DEF BoardReceives, TypeOK
<1>5. CASE ~(b.k < FrameLen)
  <2>1. line' = <<>>
    BY <1>5 DEF BoardReceives
  <2>2. pending' = b.frame \/ pending' = pending
    BY <1>5 DEF BoardReceives
  <2>3. rx' = rx \/ rx' = Append(rx, Reply(b.frame, "err"))
        \/ \E i \in DOMAIN l, code \in {"unknown", "err"} : rx' = Append(rx, Reply(l[i].frame, code))
    BY <1>5 DEF BoardReceives
  <2>4. \A f \in Frames, code \in {"unknown", "err"} : Append(rx, Reply(f, code)) \in Seq(Replies)
    BY ReplyType DEF TypeOK, Codes
  <2>5. rx' \in Seq(Replies)
    <3>1. CASE rx' = rx
      BY <3>1 DEF TypeOK
    <3>2. CASE rx' = Append(rx, Reply(b.frame, "err"))
      BY <3>2, <2>4, <1>2
    <3>3. CASE \E i \in DOMAIN l, code \in {"unknown", "err"} : rx' = Append(rx, Reply(l[i].frame, code))
      <4>1. PICK i \in DOMAIN l, code \in {"unknown", "err"} : rx' = Append(rx, Reply(l[i].frame, code))
        BY <3>3
      <4>2. l[i].frame \in Frames
        BY <1>3
      <4> QED
        BY <4>1, <4>2, <2>4
    <3> QED
      BY <2>3, <3>1, <3>2, <3>3
  <2> QED
    BY <2>1, <2>2, <2>5, <1>2 DEF TypeOK
<1> QED
  BY <1>4, <1>5

-----------------------------------------------------------------------------
(* Typing. *)

LEMMA TypeInit == Init => TypeOK /\ SentInv
<1> SUFFICES ASSUME Init PROVE TypeOK /\ SentInv
  OBVIOUS
<1>1. idx \in [Calls -> 0..MaxNotes]
  BY DEF Init, FirstIdx
<1>2. rx \in Seq(Replies) /\ line \in Seq(Bytes) /\ played \in Seq(Frames)
  BY DEF Init
<1>3. sent \in [Calls -> 0..FrameLen] /\ SentInv
  BY DEF Init, SentInv
<1> QED
  BY <1>1, <1>2, <1>3 DEF Init, TypeOK, PCs

\* Each step keeps the variables in their types.
LEMMA TypeNext == TypeOK /\ SentInv /\ [Next]_vars => TypeOK' /\ SentInv'
<1> SUFFICES ASSUME TypeOK, SentInv, [Next]_vars PROVE TypeOK' /\ SentInv'
  OBVIOUS
<1> USE DEF callVars, lifeVars, rxVars, boardVars, Goto
<1>1. ASSUME NEW c \in Calls, SendCommand(c) PROVE TypeOK' /\ SentInv'
  <2>1. pc' \in [Calls -> PCs] /\ result' \in [Calls -> {"none", "SUCCEEDED", "FAILED"}]
    BY <1>1 DEF TypeOK, SendCommand, PCs
  <2>2. SentInv'
    BY <1>1 DEF TypeOK, SentInv, SendCommand
  <2> QED
    BY <1>1, <2>1, <2>2 DEF TypeOK, SendCommand
<1>2. ASSUME NEW c \in Calls, LockCmdMu(c) PROVE TypeOK' /\ SentInv'
  BY <1>2 DEF TypeOK, SentInv, LockCmdMu, PCs
<1>3. ASSUME NEW c \in Calls, Register(c) PROVE TypeOK' /\ SentInv'
  <2>1. pc' \in [Calls -> PCs] /\ ret' \in [Calls -> Codes \cup {"none"}]
    BY <1>3 DEF TypeOK, Register, PCs, Codes
  <2>2. CASE EncodeFails(c)
    <3>1. pc' = [pc EXCEPT ![c] = "unlock"] /\ UNCHANGED <<sent, waiters>>
      BY <1>3, <2>2 DEF Register
    <3> QED
      BY <1>3, <2>1, <3>1 DEF TypeOK, SentInv, Register
  <2>3. CASE ~EncodeFails(c)
    <3>1. /\ pc' = [pc EXCEPT ![c] = "write"]
          /\ sent' = [sent EXCEPT ![c] = 0]
          /\ waiters' = [waiters EXCEPT ![WireId[Cur(c)]] = Cur(c)]
      BY <1>3, <2>3 DEF Register
    <3>2. sent' \in [Calls -> 0..FrameLen] /\ SentInv'
      BY <3>1 DEF TypeOK, SentInv
    <3>3. waiters' \in [WireIds -> Frames \cup {None}]
      BY <3>1, CurType DEF TypeOK
    <3> QED
      BY <1>3, <2>1, <3>2, <3>3 DEF TypeOK, Register
  <2> QED
    BY <2>2, <2>3
<1>4. ASSUME NEW c \in Calls, WriteFails(c) PROVE TypeOK' /\ SentInv'
  <2>1. pc' = [pc EXCEPT ![c] = "cleanup"] /\ ret' = [ret EXCEPT ![c] = "err"]
        /\ killer' \in {killer, "mark"} /\ torn' = torn \cup {Cur(c)}
    BY <1>4 DEF WriteFails, GiveUp
  <2>2. torn' \subseteq Frames
    BY <2>1, CurType DEF TypeOK
  <2>3. SentInv'
    BY <1>4, <2>1 DEF TypeOK, SentInv, WriteFails
  <2> QED
    BY <1>4, <2>1, <2>2, <2>3 DEF TypeOK, WriteFails, PCs, Codes
<1>5. ASSUME NEW c \in Calls, WriteByte(c) PROVE TypeOK' /\ SentInv'
  <2>1. sent[c] + 1 \in 1..FrameLen
    BY <1>5 DEF TypeOK, SentInv, WriteByte
  <2> DEFINE b == [frame |-> Cur(c), k |-> sent[c] + 1]
  <2>2. b \in Bytes
    BY <2>1, CurType DEF Bytes
  <2>3. line' \in Seq(Bytes) /\ pending' \in Frames \cup {None} /\ rx' \in Seq(Replies)
        /\ torn' \subseteq Frames
    BY <1>5, <2>2, ReceiveType, CurType DEF WriteByte, TypeOK
  <2>4. sent' \in [Calls -> 0..FrameLen] /\ pc' \in [Calls -> PCs]
    BY <1>5, <2>1 DEF TypeOK, WriteByte, PCs
  <2>5. SentInv'
    BY <1>5 DEF TypeOK, SentInv, WriteByte
  <2> QED
    BY <1>5, <2>3, <2>4, <2>5 DEF TypeOK, WriteByte
<1>6. ASSUME NEW c \in Calls, PaceElapses(c) PROVE TypeOK' /\ SentInv'
  BY <1>6 DEF TypeOK, SentInv, PaceElapses, AllSent, PCs
<1>7. ASSUME NEW c \in Calls, PaceAborts(c) PROVE TypeOK' /\ SentInv'
  <2>1. pc' = [pc EXCEPT ![c] = "cleanup"] /\ ret' = [ret EXCEPT ![c] = "err"]
    BY <1>7 DEF PaceAborts, GiveUp
  <2>2. torn' \subseteq Frames
    BY <1>7, CurType DEF PaceAborts, TypeOK
  <2>3. SentInv'
    BY <1>7, <2>1 DEF TypeOK, SentInv, PaceAborts
  <2> QED
    BY <1>7, <2>1, <2>2, <2>3 DEF TypeOK, PaceAborts, PCs, Codes
<1>8. ASSUME NEW c \in Calls, AwaitAck(c) PROVE TypeOK' /\ SentInv'
  <2>1. chan[Cur(c)].code \in Codes
    BY <1>8, CurType DEF TypeOK, AwaitAck, Replies
  <2> QED
    BY <1>8, <2>1 DEF TypeOK, SentInv, AwaitAck, Outcome, PCs
<1>9. ASSUME NEW c \in Calls, AwaitTimeout(c) PROVE TypeOK' /\ SentInv'
  BY <1>9 DEF TypeOK, SentInv, AwaitTimeout, GiveUp, PCs, Codes
<1>10. ASSUME NEW c \in Calls, AwaitAborts(c) PROVE TypeOK' /\ SentInv'
  BY <1>10 DEF TypeOK, SentInv, AwaitAborts, EndsWithError, GiveUp, PCs, Codes
<1>11. ASSUME NEW c \in Calls, FrameReturns(c) PROVE TypeOK' /\ SentInv'
  <2>1. idx' \in [Calls -> 0..MaxNotes]
    <3>1. CASE FallsBack(c) \/ HasNextNote(c)
      <4>1. idx[c] + 1 \in 0..MaxNotes
        BY <3>1 DEF TypeOK, FallsBack, HasNextNote, OnSong
      <4> QED
        BY <1>11, <3>1, <4>1 DEF TypeOK, FrameReturns
    <3>2. CASE ~(FallsBack(c) \/ HasNextNote(c))
      BY <1>11, <3>2 DEF TypeOK, FrameReturns
    <3> QED
      BY <3>1, <3>2
  <2>2. pc' \in [Calls -> PCs] /\ waiters' \in [WireIds -> Frames \cup {None}]
    BY <1>11 DEF TypeOK, FrameReturns, DropWaiter, PCs
  <2>3. SentInv'
    BY <1>11 DEF TypeOK, SentInv, FrameReturns
  <2> QED
    BY <1>11, <2>1, <2>2, <2>3 DEF TypeOK, FrameReturns
<1>12. ASSUME NEW c \in Calls, GapElapses(c) PROVE TypeOK' /\ SentInv'
  BY <1>12 DEF TypeOK, SentInv, GapElapses, PCs
<1>13. ASSUME NEW c \in Calls, GapAborts(c) PROVE TypeOK' /\ SentInv'
  BY <1>13 DEF TypeOK, SentInv, GapAborts, PCs, Codes
<1>14. ASSUME NEW c \in Calls, UnlockCmdMu(c) PROVE TypeOK' /\ SentInv'
  BY <1>14 DEF TypeOK, SentInv, UnlockCmdMu, PCs
<1>15. ASSUME NEW c \in Calls, Cancel(c) PROVE TypeOK' /\ SentInv'
  BY <1>15 DEF TypeOK, SentInv, Cancel
<1>16. ASSUME RxLookup PROVE TypeOK' /\ SentInv'
  <2>1. rx # <<>> /\ rx \in Seq(Replies)
    BY <1>16 DEF RxLookup, TypeOK
  <2>2. Head(rx) \in Replies /\ Tail(rx) \in Seq(Replies)
    BY <2>1
  <2>3. rxHold' \in [chan: Frames, ack: Replies] \cup {None}
    BY <1>16, <2>2 DEF RxLookup, TypeOK, Replies
  <2> QED
    BY <1>16, <2>2, <2>3 DEF TypeOK, SentInv, RxLookup
<1>17. ASSUME RxDeliver PROVE TypeOK' /\ SentInv'
  BY <1>17 DEF TypeOK, SentInv, RxDeliver
<1>18. ASSUME RxLoses PROVE TypeOK' /\ SentInv'
  BY <1>18 DEF TypeOK, SentInv, RxLoses
<1>19. ASSUME RxExits PROVE TypeOK' /\ SentInv'
  BY <1>19 DEF TypeOK, SentInv, RxExits, DeferMarkDead
<1>20. ASSUME MarkDead PROVE TypeOK' /\ SentInv'
  BY <1>20 DEF TypeOK, SentInv, MarkDead
<1>21. ASSUME Close PROVE TypeOK' /\ SentInv'
  BY <1>21 DEF TypeOK, SentInv, Close
<1>22. ASSUME Unplug PROVE TypeOK' /\ SentInv'
  BY <1>22 DEF TypeOK, SentInv, Unplug
<1>23. ASSUME BoardPlays PROVE TypeOK' /\ SentInv'
  <2>1. rx' \in Seq(Replies) /\ played' \in Seq(Frames)
    BY <1>23, ReplyType DEF BoardPlays, TypeOK, Codes
  <2> QED
    BY <1>23, <2>1 DEF TypeOK, SentInv, BoardPlays
<1>24. ASSUME BoardRefuses PROVE TypeOK' /\ SentInv'
  <2>1. rx' \in Seq(Replies)
    BY <1>24, ReplyType DEF BoardRefuses, TypeOK, Codes
  <2> QED
    BY <1>24, <2>1 DEF TypeOK, SentInv, BoardRefuses
<1>25. ASSUME BoardResets PROVE TypeOK' /\ SentInv'
  <2>1. \A i \in DOMAIN line : line[i].frame \in Frames
    <3>1. \A i \in DOMAIN line : line[i] \in Bytes
      BY DEF TypeOK
    <3> QED
      BY <3>1 DEF Bytes
  <2> QED
    BY <1>25, <2>1 DEF TypeOK, SentInv, BoardResets
<1>26. CASE UNCHANGED vars
  BY <1>26 DEF TypeOK, SentInv, vars
<1> QED
  BY <1>1, <1>2, <1>3, <1>4, <1>5, <1>6, <1>7, <1>8, <1>9, <1>10, <1>11, <1>12, <1>13, <1>14,
     <1>15, <1>16, <1>17, <1>18, <1>19, <1>20, <1>21, <1>22, <1>23, <1>24, <1>25, <1>26
  DEF Next, Caller, CallStep, RxSide, Life, Board, Quiet

\* Every reachable state is well typed, and no frame is written past its end.
THEOREM Typing == Spec => [](TypeOK /\ SentInv)
  BY TypeInit, TypeNext, PTL DEF Spec

-----------------------------------------------------------------------------
(* The line: two calls never mix their bytes. *)

LEMMA LineInit == Init => LineInv
  BY DEF Init, LineInv, Critical, Sending

\* A step that touches neither the line nor what the callers send.
LEMMA LineKept ==
  ASSUME LineInv, UNCHANGED <<pc, idx, sent, cmdMu, line, torn>>
  PROVE  LineInv'
  BY DEF LineInv, Untorn, Prefix, Sending, InLine, Cur

\* The prefix of another call is left alone.
LEMMA PrefixStays ==
  ASSUME NEW c, NEW d, d # c, Prefix(d), line' = line,
         pc'[d] = pc[d], idx'[d] = idx[d], sent'[d] = sent[d]
  PROVE  Prefix(d)'
  BY DEF Prefix, Sending, Cur

\* Call c moves while it is not sending: the line, if it holds no torn frame,
\* belongs to another call.
LEMMA LineMoves ==
  ASSUME TypeOK, LineInv, NEW c \in Calls, NEW l \in PCs,
         ~Sending(c), l \notin {"write", "pace"},
         pc' = [pc EXCEPT ![c] = l],
         \A d \in Calls \ {c} : idx'[d] = idx[d] /\ sent'[d] = sent[d],
         UNCHANGED <<line, torn>>,
         \/ pc[c] \notin Critical /\ l \notin Critical /\ cmdMu' = cmdMu
         \/ pc[c] \in Critical /\ cmdMu' = (IF l \in Critical THEN c ELSE None)
  PROVE  LineInv'
<1>1. \A d \in Calls \ {c} : pc'[d] = pc[d]
  BY DEF TypeOK
<1>2. pc'[c] = l
  BY DEF TypeOK
<1>3. \A d \in Calls : pc'[d] \in Critical => cmdMu' = d
  BY <1>1, <1>2 DEF LineInv
<1>4. ASSUME line' # <<>>, Untorn' PROVE cmdMu' # None /\ Prefix(cmdMu)'
  <2>1. cmdMu # None /\ Prefix(cmdMu)
    BY <1>4 DEF LineInv, Untorn
  <2>2. cmdMu \in Calls \ {c} /\ pc[c] \notin Critical
    BY <2>1 DEF TypeOK, Prefix, LineInv
  <2>3. PICK h \in Calls \ {c} : h = cmdMu
    BY <2>2
  <2>4. Prefix(h)'
    BY <2>1, <2>3, <1>1, PrefixStays
  <2>5. cmdMu' = h
    BY <2>2, <2>3
  <2> QED
    BY <2>1, <2>3, <2>4, <2>5
<1>5. ASSUME NEW d \in Calls, Sending(d)', sent'[d] > 0, Cur(d)' \notin torn' PROVE InLine(Cur(d)')
  <2>1. d # c
    BY <1>2, <1>5 DEF Sending
  <2>2. Sending(d) /\ sent[d] > 0 /\ Cur(d)' = Cur(d)
    BY <1>1, <1>5, <2>1 DEF Sending, Cur
  <2> QED
    BY <1>5, <2>2 DEF LineInv
<1>6. \A d \in Calls : Sending(d)' /\ sent'[d] > 0 /\ Cur(d)' \notin torn' => InLine(Cur(d))'
  BY <1>5 DEF InLine
<1> QED
  BY <1>3, <1>4, <1>6 DEF LineInv

\* The holder gives its frame up in the middle: the frame is torn.
LEMMA LineTorn ==
  ASSUME TypeOK, LineInv, NEW c \in Calls, pc[c] \in Critical,
         pc' = [pc EXCEPT ![c] = "cleanup"],
         UNCHANGED <<idx, sent, cmdMu, line>>,
         torn' = torn \cup {Cur(c)}
  PROVE  LineInv'
<1>1. cmdMu = c
  BY DEF LineInv
<1>2. \A d \in Calls : pc'[d] = (IF d = c THEN "cleanup" ELSE pc[d])
  BY DEF TypeOK
<1>3. \A d \in Calls : pc'[d] \in Critical => cmdMu' = d
  BY <1>2 DEF LineInv, Critical
<1>4. ~(line' # <<>> /\ Untorn')
  <2> SUFFICES ASSUME line # <<>>, Untorn' PROVE FALSE
    OBVIOUS
  <2>1. Untorn
    BY DEF Untorn
  <2>2. Prefix(c)
    BY <1>1, <2>1 DEF LineInv
  <2>3. 1 \in DOMAIN line
    BY DEF TypeOK
  <2>4. line[1].frame = Cur(c)
    BY <2>2, <2>3 DEF Prefix
  <2> QED
    BY <2>3, <2>4 DEF Untorn
<1>5. \A d \in Calls : Sending(d)' /\ sent'[d] > 0 /\ Cur(d)' \notin torn' => InLine(Cur(d))'
  BY <1>2 DEF LineInv, Sending, InLine, Cur
<1> QED
  BY <1>3, <1>4, <1>5 DEF LineInv

\* One more byte of the holder's frame: lost, or the next one of the prefix.
LEMMA LineWrite ==
  ASSUME TypeOK, SentInv, LineInv, NEW c \in Calls, WriteByte(c)
  PROVE  LineInv'
<1> DEFINE f == Cur(c)
           k == sent[c] + 1
           b == [frame |-> f, k |-> k]
<1>1. pc[c] = "write" /\ cmdMu = c /\ cmdMu' = c /\ c # None /\ UNCHANGED idx
  BY NoneAssumption DEF NoneAssumption, WriteByte, LineInv, Critical
<1>2. \A d \in Calls : pc'[d] = (IF d = c THEN "pace" ELSE pc[d])
                       /\ sent'[d] = (IF d = c THEN k ELSE sent[d])
  BY DEF WriteByte, Goto, TypeOK
<1>3. k \in 1..FrameLen /\ sent[c] \in Nat /\ sent[c] < FrameLen /\ FrameLen \in Nat
  BY <1>1 DEF SentInv, TypeOK
<1>4. b \in Bytes /\ f \in Frames /\ b.frame = f /\ b.k = k
  BY <1>3, CurType DEF Bytes
<1>5. \A d \in Calls : Cur(d)' = Cur(d)
  BY <1>1 DEF Cur
<1>6. \A d \in Calls : pc'[d] \in Critical => cmdMu' = d
  BY <1>1, <1>2 DEF LineInv, Critical
<1>7. \A d \in Calls \ {c} : ~Sending(d)'
  BY <1>1, <1>2 DEF LineInv, Sending, Critical
<1>8. CASE torn' = torn \cup {f} /\ line' = line
  <2>1. ~(line' # <<>> /\ Untorn')
    <3> SUFFICES ASSUME line # <<>>, Untorn' PROVE FALSE
      BY <1>8
    <3>1. Untorn
      BY <1>8 DEF Untorn
    <3>2. Prefix(c)
      BY <1>1, <3>1 DEF LineInv
    <3>3. 1 \in DOMAIN line
      BY DEF TypeOK
    <3>4. line[1].frame = f
      BY <3>2, <3>3 DEF Prefix
    <3> QED
      BY <1>8, <3>3, <3>4 DEF Untorn
  <2>2. \A d \in Calls : Sending(d)' /\ sent'[d] > 0 /\ Cur(d)' \notin torn' => InLine(Cur(d))'
    BY <1>5, <1>7, <1>8
  <2> QED
    BY <1>6, <2>1, <2>2 DEF LineInv
<1>9. CASE BoardReceives(b) /\ torn' = torn
  <2>1. CASE k < FrameLen
    <3>1. line' = Append(line, b)
      BY <1>4, <1>9, <2>1 DEF BoardReceives
    <3>2. /\ Len(line) \in Nat /\ DOMAIN line = 1..Len(line)
          /\ Len(line') = Len(line) + 1 /\ DOMAIN line' = 1..(Len(line) + 1)
          /\ \A i \in DOMAIN line : line'[i] = line[i]
          /\ line'[Len(line) + 1] = b
      <4>1. line \in Seq(Bytes)
        BY DEF TypeOK
      <4>2. b \in Bytes /\ line' = Append(line, b)
        BY <1>4, <3>1
      <4> HIDE DEF b
      <4> QED
        BY <4>1, <4>2, AppendFacts
    <3>3. InLine(Cur(c))'
      <4>1. Len(line) + 1 \in DOMAIN line' /\ line'[Len(line) + 1].frame = Cur(c)'
        BY <1>4, <1>5, <3>2
      <4> QED
        BY <4>1 DEF InLine
    <3>4. ASSUME Untorn' PROVE Prefix(c)'
      <4>1. Untorn /\ f \notin torn
        BY <1>4, <1>9, <3>2, <3>4 DEF Untorn
      <4>2. Len(line) = sent[c] /\ \A i \in DOMAIN line : line[i] = [frame |-> f, k |-> i]
        <5>1. CASE line # <<>>
          BY <1>1, <4>1, <5>1 DEF LineInv, Prefix
        <5>2. CASE line = <<>>
          <6>1. ~InLine(f) /\ Len(line) = 0
            BY <5>2 DEF InLine
          <6>2. Sending(c)
            BY <1>1, <1>3 DEF Sending
          <6>3. ~(sent[c] > 0)
            BY <4>1, <6>1, <6>2 DEF LineInv
          <6> QED
            BY <1>3, <5>2, <6>1, <6>3
        <5> QED
          BY <5>1, <5>2
      <4>3. \A i \in DOMAIN line' : line'[i] = [frame |-> f, k |-> i]
        <5> SUFFICES ASSUME NEW i \in DOMAIN line' PROVE line'[i] = [frame |-> f, k |-> i]
          OBVIOUS
        <5>1. CASE i \in DOMAIN line
          BY <3>2, <4>2, <5>1
        <5>2. CASE i \notin DOMAIN line
          BY <3>2, <4>2, <5>2
        <5> QED
          BY <5>1, <5>2
      <4>4. Sending(c)'
        BY <1>2, <2>1 DEF Sending
      <4>5. Len(line') = sent'[c]
        BY <1>2, <3>2, <4>2
      <4> QED
        BY <1>5, <4>3, <4>4, <4>5 DEF Prefix
    <3>5. \A d \in Calls : Sending(d)' /\ sent'[d] > 0 /\ Cur(d)' \notin torn' => InLine(Cur(d))'
      BY <1>5, <1>7, <3>3 DEF InLine
    <3>6. Untorn' => cmdMu' # None /\ Prefix(cmdMu)'
      BY <1>1, <3>4 DEF Prefix, Sending, Cur
    <3> QED
      BY <1>6, <3>5, <3>6 DEF LineInv
  <2>2. CASE ~(k < FrameLen)
    <3>1. line' = <<>>
      BY <1>4, <1>9, <2>2 DEF BoardReceives
    <3>2. ~Sending(c)'
      BY <1>2, <2>2 DEF Sending
    <3>3. \A d \in Calls : ~Sending(d)'
      BY <1>7, <3>2
    <3> QED
      BY <1>6, <3>1, <3>3 DEF LineInv
  <2> QED
    BY <2>1, <2>2
<1> QED
  BY <1>8, <1>9 DEF WriteByte

\* Every step keeps the line to the holder's prefix.
LEMMA LineNext == TypeOK /\ SentInv /\ LineInv /\ [Next]_vars => LineInv'
<1> SUFFICES ASSUME TypeOK, SentInv, LineInv, [Next]_vars PROVE LineInv'
  OBVIOUS
<1> USE DEF callVars, lifeVars, rxVars, boardVars, Goto, PCs
<1>1. ASSUME NEW c \in Calls, SendCommand(c) PROVE LineInv'
  BY <1>1, LineMoves DEF SendCommand, Sending, Critical
<1>2. ASSUME NEW c \in Calls, LockCmdMu(c) PROVE LineInv'
  <2>1. /\ cmdMu = None /\ cmdMu' = c /\ c # None
        /\ UNCHANGED <<idx, sent, line, torn>>
    BY <1>2, NoneAssumption DEF NoneAssumption, LockCmdMu, MayLock
  <2>2. \A d \in Calls : pc'[d] = (IF d = c THEN "encode" ELSE pc[d])
    BY <1>2 DEF LockCmdMu, TypeOK
  <2>3. \A d \in Calls : pc[d] \notin Critical
    BY <2>1, NoneAssumption DEF NoneAssumption, LineInv
  <2>4. ~(line' # <<>> /\ Untorn')
    BY <2>1 DEF LineInv, Untorn
  <2>5. \A d \in Calls : ~Sending(d)'
    BY <2>2, <2>3 DEF Sending, Critical
  <2> QED
    BY <2>1, <2>2, <2>3, <2>4, <2>5 DEF LineInv
<1>3. ASSUME NEW c \in Calls, Register(c) PROVE LineInv'
  <2>1. pc[c] = "encode" /\ cmdMu = c /\ cmdMu' = c /\ UNCHANGED <<idx, line, torn>>
    BY <1>3 DEF Register, LineInv, Critical
  <2>2. CASE EncodeFails(c)
    BY <1>3, <2>1, <2>2, LineMoves DEF Register, Sending, Critical
  <2>3. CASE ~EncodeFails(c)
    <3>1. \A d \in Calls : pc'[d] = (IF d = c THEN "write" ELSE pc[d])
                           /\ sent'[d] = (IF d = c THEN 0 ELSE sent[d])
      BY <1>3, <2>3 DEF Register, TypeOK
    <3>2. ~(line' # <<>> /\ Untorn')
      BY <2>1 DEF LineInv, Untorn, Prefix, Sending
    <3>3. \A d \in Calls : pc'[d] \in Critical => cmdMu' = d
      BY <2>1, <3>1 DEF LineInv, Critical
    <3>4. \A d \in Calls : ~(Sending(d)' /\ sent'[d] > 0)
      BY <2>1, <3>1, <3>3 DEF Sending, Critical
    <3> QED
      BY <3>2, <3>3, <3>4 DEF LineInv
  <2> QED
    BY <2>2, <2>3
<1>4. ASSUME NEW c \in Calls, WriteFails(c) PROVE LineInv'
  BY <1>4, LineTorn DEF WriteFails, GiveUp, Critical
<1>5. ASSUME NEW c \in Calls, WriteByte(c) PROVE LineInv'
  BY <1>5, LineWrite
<1>6. ASSUME NEW c \in Calls, PaceElapses(c) PROVE LineInv'
  <2>1. pc[c] = "pace" /\ cmdMu = c /\ UNCHANGED <<idx, sent, cmdMu, line, torn>>
    BY <1>6 DEF PaceElapses, LineInv, Critical
  <2>2. CASE AllSent(sent[c])
    <3>1. ~Sending(c) /\ pc' = [pc EXCEPT ![c] = "await"]
      BY <1>6, <2>2 DEF PaceElapses, Sending, AllSent
    <3> QED
      BY <2>1, <3>1, LineMoves DEF Critical
  <2>3. CASE ~AllSent(sent[c])
    <3>1. \A d \in Calls : pc'[d] = (IF d = c THEN "write" ELSE pc[d])
      BY <1>6, <2>3 DEF PaceElapses, TypeOK
    <3>2. \A d \in Calls : (Sending(d)' <=> Sending(d)) /\ Cur(d)' = Cur(d)
      BY <2>1, <3>1 DEF Sending, Cur
    <3>3. \A d \in Calls : Prefix(d)' <=> Prefix(d)
      BY <2>1, <3>2 DEF Prefix
    <3>4. \A d \in Calls : pc'[d] \in Critical => cmdMu' = d
      BY <2>1, <3>1 DEF LineInv, Critical
    <3>5. line' # <<>> /\ Untorn' => cmdMu' # None /\ Prefix(c)'
      BY <2>1, <3>3 DEF LineInv, Untorn
    <3>6. \A d \in Calls : Sending(d)' /\ sent'[d] > 0 /\ Cur(d)' \notin torn' => InLine(Cur(d))'
      BY <2>1, <3>2 DEF LineInv, InLine
    <3>7. cmdMu' = c
      BY <2>1
    <3> QED
      BY <3>4, <3>5, <3>6, <3>7 DEF LineInv, Prefix, Sending, Cur
  <2> QED
    BY <2>2, <2>3
<1>7. ASSUME NEW c \in Calls, PaceAborts(c) PROVE LineInv'
  <2>1. pc[c] = "pace" /\ cmdMu = c /\ UNCHANGED <<idx, sent, cmdMu, line>>
        /\ pc' = [pc EXCEPT ![c] = "cleanup"]
    BY <1>7 DEF PaceAborts, GiveUp, LineInv, Critical
  <2>2. CASE sent[c] < FrameLen
    BY <1>7, <2>1, <2>2, LineTorn DEF PaceAborts, Critical
  <2>3. CASE ~(sent[c] < FrameLen)
    BY <1>7, <2>1, <2>3, LineMoves DEF PaceAborts, Sending, Critical
  <2> QED
    BY <2>2, <2>3
<1>8. ASSUME NEW c \in Calls, AwaitAck(c) \/ AwaitTimeout(c) \/ AwaitAborts(c) PROVE LineInv'
  <2>1. pc[c] = "await" /\ UNCHANGED <<idx, sent, cmdMu, line, torn>>
        /\ pc' = [pc EXCEPT ![c] = "cleanup"]
    BY <1>8 DEF AwaitAck, AwaitTimeout, TimerFires, AwaitAborts, EndsWithError, GiveUp
  <2>2. cmdMu = c
    BY <2>1 DEF LineInv, Critical
  <2> QED
    BY <2>1, <2>2, LineMoves DEF Sending, Critical
<1>9. ASSUME NEW c \in Calls, FrameReturns(c) PROVE LineInv'
  <2>1. pc[c] = "cleanup" /\ UNCHANGED <<sent, cmdMu, line, torn>>
        /\ \A d \in Calls \ {c} : idx'[d] = idx[d]
    BY <1>9 DEF FrameReturns, TypeOK
  <2>2. cmdMu = c
    BY <2>1 DEF LineInv, Critical
  <2>3. \E l \in {"gap", "encode", "unlock"} : pc' = [pc EXCEPT ![c] = l]
    BY <1>9 DEF FrameReturns
  <2> QED
    BY <2>1, <2>2, <2>3, LineMoves DEF Sending, Critical
<1>10. ASSUME NEW c \in Calls, GapElapses(c) \/ GapAborts(c) PROVE LineInv'
  <2>1. pc[c] = "gap" /\ UNCHANGED <<idx, sent, cmdMu, line, torn>>
        /\ \E l \in {"encode", "unlock"} : pc' = [pc EXCEPT ![c] = l]
    BY <1>10 DEF GapElapses, GapAborts
  <2>2. cmdMu = c
    BY <2>1 DEF LineInv, Critical
  <2> QED
    BY <2>1, <2>2, LineMoves DEF Sending, Critical
<1>11. ASSUME NEW c \in Calls, UnlockCmdMu(c) PROVE LineInv'
  BY <1>11, LineMoves DEF UnlockCmdMu, Sending, Critical
<1>12. ASSUME BoardResets PROVE LineInv'
  <2>1. /\ UNCHANGED <<pc, idx, sent, cmdMu>> /\ line' = <<>>
        /\ torn' = torn \cup {line[i].frame : i \in DOMAIN line}
    BY <1>12 DEF BoardResets
  <2>2. \A d \in Calls : InLine(Cur(d)) => Cur(d) \in torn'
    BY <2>1 DEF InLine
  <2>3. \A d \in Calls : ~(Sending(d)' /\ sent'[d] > 0 /\ Cur(d)' \notin torn')
    BY <2>1, <2>2 DEF LineInv, Sending, Cur
  <2> QED
    BY <2>1, <2>3 DEF LineInv
<1>13. CASE UNCHANGED <<pc, idx, sent, cmdMu, line, torn>>
  BY <1>13, LineKept
<1>14. CASE (\E c \in Calls : Cancel(c)) \/ RxSide \/ Life \/ BoardPlays \/ BoardRefuses \/ UNCHANGED vars
  BY <1>13, <1>14 DEF Cancel, RxSide, RxLookup, RxDeliver, RxLoses, RxExits, Life, MarkDead, Close,
                      Unplug, BoardPlays, BoardRefuses, vars
<1> QED
  BY <1>1, <1>2, <1>3, <1>4, <1>5, <1>6, <1>7, <1>8, <1>9, <1>10, <1>11, <1>12, <1>14
  DEF Next, Caller, CallStep, Board, Quiet

\* The inductive invariant of the line, whatever ids the calls have.
THEOREM LineHolds == Spec => []LineInv
<1>1. Init => TypeOK /\ SentInv /\ LineInv
  BY TypeInit, LineInit
<1>2. TypeOK /\ SentInv /\ LineInv /\ [Next]_vars => TypeOK' /\ SentInv' /\ LineInv'
  BY TypeNext, LineNext
<1> QED
  BY <1>1, <1>2, PTL DEF Spec

\* As long as no frame was cut short, what the board has buffered is a prefix of
\* the frame that the holder of cmdMu is sending (device.go:270).
THEOREM OnlyTornFramesGarbleHolds == Spec => []OnlyTornFramesGarble
<1>1. TypeOK /\ LineInv => OnlyTornFramesGarble
  <2> SUFFICES ASSUME TypeOK, LineInv, line # <<>>, Untorn
               PROVE  cmdMu # None /\ line = SubSeq(Whole(Cur(cmdMu)), 1, sent[cmdMu])
    BY DEF OnlyTornFramesGarble, Untorn
  <2>1. cmdMu \in Calls /\ cmdMu # None /\ Prefix(cmdMu)
    BY DEF LineInv, TypeOK
  <2> DEFINE n == sent[cmdMu]
             byte(i) == [frame |-> Cur(cmdMu), k |-> i]
             w == Whole(Cur(cmdMu))
  <2>2. n \in Nat /\ n <= FrameLen /\ Len(line) = n /\ line \in Seq(Bytes) /\ FrameLen \in Nat
    BY <2>1 DEF TypeOK, Prefix, Sending
  <2>3. \A i \in 1..n : line[i] = byte(i)
    BY <2>1, <2>2 DEF Prefix
  <2>4. \A i \in 1..FrameLen : byte(i) \in Bytes
    BY <2>1, CurType DEF Bytes
  <2>5. w = [i \in 1..FrameLen |-> byte(i)]
    BY DEF Whole
  <2> HIDE DEF byte, n, w
  <2>6. w \in Seq(Bytes) /\ Len(w) = FrameLen
    BY <2>2, <2>4, <2>5
  <2>7. \A i \in DOMAIN line : line[i] = w[i]
    BY <2>2, <2>3, <2>5
  <2>8. line = SubSeq(w, 1, n)
    BY <2>2, <2>6, <2>7, SegmentFacts
  <2> QED
    BY <2>1, <2>8 DEF n, w
<1> QED
  BY <1>1, LineHolds, Typing, PTL

=============================================================================
