----------------------- MODULE StcbCommandTruthProofs -----------------------
(***************************************************************************)
(* The proof that a call reported SUCCEEDED is vouched for by what the     *)
(* board carried out, from the inductive invariant of StcbCommandInv, for  *)
(* any mixture of calls with ids of their own and calls that share ids.    *)
(***************************************************************************)
EXTENDS StcbCommandProofs

USE CallsAssumption, WireAssumption, SubsetAssumption
    DEF CallsAssumption, WireAssumption, SubsetAssumption

\* The conjuncts of the induction that are about the lock and the index.
ControlInv == LockInv /\ IndexInv

LEMMA ControlInit == Init => ControlInv
<1>1. Init => LockInv
  BY DEF Init, LockInv, Critical
<1>2. \A c \in Calls : NoteCount[c] \in 0..MaxNotes
  OBVIOUS
<1>3. Init => IndexInv
  <2>1. ASSUME Init, NEW c \in Calls
        PROVE  idx[c] = (IF Kind[c] = "notes" THEN 1 ELSE 0) /\ NoteCount[c] >= 0
               /\ (Kind[c] # "cmd" => NoteCount[c] >= 1)
    BY <1>2, <2>1 DEF Init, FirstIdx
  <2>2. ASSUME Init, NEW c \in Calls
        PROVE  /\ Kind[c] = "notes" => idx[c] >= 1
               /\ Kind[c] = "cmd" => idx[c] = 0
               /\ Kind[c] # "cmd" => idx[c] <= NoteCount[c]
    BY <1>2, <2>1, <2>2
  <2> QED
    BY <2>2 DEF IndexInv
<1> QED
  BY <1>1, <1>3 DEF ControlInv

\* A step that leaves the locked region, the waiters and the index alone.
LEMMA ControlKept ==
  ASSUME ControlInv, UNCHANGED <<pc, idx, cmdMu, waiters>>
  PROVE  ControlInv'
  BY DEF ControlInv, LockInv, IndexInv, Critical, Cur

\* A step inside the locked region that keeps its waiter.
LEMMA ControlMoves ==
  ASSUME TypeOK, ControlInv, NEW c \in Calls,
         pc[c] \in {"write", "pace", "await"},
         NEW l \in {"write", "pace", "await", "cleanup"},
         pc' = [pc EXCEPT ![c] = l],
         UNCHANGED <<idx, cmdMu, waiters>>
  PROVE  ControlInv'
<1>1. LockInv'
  BY DEF ControlInv, LockInv, Critical, Cur, TypeOK
<1>2. IndexInv'
  BY DEF ControlInv, IndexInv
<1> QED
  BY <1>1, <1>2 DEF ControlInv

LEMMA ControlNext == TypeOK /\ ControlInv /\ [Next]_vars => ControlInv'
<1> SUFFICES ASSUME TypeOK, ControlInv, [Next]_vars PROVE ControlInv'
  OBVIOUS
<1> USE DEF callVars, lifeVars, rxVars, boardVars, Goto
<1>1. ASSUME NEW c \in Calls, SendCommand(c) PROVE ControlInv'
  <2>1. pc' = [pc EXCEPT ![c] = "end"] \/ pc' = [pc EXCEPT ![c] = "lock"]
    BY <1>1 DEF SendCommand
  <2>2. pc[c] = "enter" /\ UNCHANGED <<idx, cmdMu, waiters>>
    BY <1>1 DEF SendCommand
  <2>3. \A d \in Calls : pc'[d] \in Critical => cmdMu' = d
    BY <2>1, <2>2 DEF ControlInv, LockInv, Critical, TypeOK
  <2>4. \A w \in WireIds : waiters[w] # None => waiters[w].call \in Calls \ {c}
    <3>1. ASSUME NEW w \in WireIds, waiters[w] # None PROVE waiters[w].call \in Calls \ {c}
      <4>1. waiters[w] \in Frames
        BY <3>1 DEF TypeOK
      <4>2. waiters[w].call \in Calls
        BY <4>1, FrameFacts
      <4> QED
        BY <2>2, <3>1, <4>2 DEF ControlInv, LockInv
    <3> QED
      BY <3>1
  <2>5. LockInv'
    BY <2>1, <2>2, <2>3, <2>4 DEF ControlInv, LockInv, Cur, TypeOK
  <2>6. IndexInv'
    BY <2>2 DEF ControlInv, IndexInv
  <2> QED
    BY <2>5, <2>6 DEF ControlInv
<1>2. ASSUME NEW c \in Calls, LockCmdMu(c) PROVE ControlInv'
  <2>1. pc' = [pc EXCEPT ![c] = "encode"] /\ cmdMu = None /\ cmdMu' = c
    BY <1>2 DEF LockCmdMu, MayLock
  <2>2. UNCHANGED <<idx, waiters>>
    BY <1>2 DEF LockCmdMu
  <2>3. \A d \in Calls : pc[d] \notin Critical
    BY <2>1, NoneAssumption DEF NoneAssumption, ControlInv, LockInv
  <2>4. \A w \in WireIds : waiters[w] = None
    BY <2>1, NoneAssumption, FrameFacts DEF NoneAssumption, ControlInv, LockInv, TypeOK
  <2>5. LockInv'
    BY <2>1, <2>2, <2>3, <2>4 DEF LockInv, TypeOK
  <2>6. IndexInv'
    BY <2>2 DEF ControlInv, IndexInv
  <2> QED
    BY <2>5, <2>6 DEF ControlInv
<1>3. ASSUME NEW c \in Calls, Register(c) PROVE ControlInv'
  <2>1. pc[c] = "encode" /\ cmdMu = c /\ UNCHANGED <<idx, cmdMu>>
    BY <1>3 DEF Register, ControlInv, LockInv, Critical
  <2>2. IndexInv'
    BY <2>1 DEF ControlInv, IndexInv
  <2>3. \A w \in WireIds : waiters[w] = None
    BY <2>1, NoneAssumption, FrameFacts DEF NoneAssumption, ControlInv, LockInv, TypeOK
  <2>4. CASE EncodeFails(c)
    <3>1. pc' = [pc EXCEPT ![c] = "unlock"] /\ UNCHANGED waiters
      BY <1>3, <2>4 DEF Register
    <3>2. LockInv'
      BY <2>1, <2>3, <3>1 DEF ControlInv, LockInv, Critical, TypeOK
    <3> QED
      BY <2>2, <3>2 DEF ControlInv
  <2>5. CASE ~EncodeFails(c)
    <3>1. pc' = [pc EXCEPT ![c] = "write"] /\ waiters' = [waiters EXCEPT ![WireId[Cur(c)]] = Cur(c)]
      BY <1>3, <2>5 DEF Register
    <3>2. \A d \in Calls : pc'[d] \in Critical => cmdMu' = d
      BY <2>1, <3>1 DEF ControlInv, LockInv, Critical, TypeOK
    <3>3. Cur(c) \in Frames /\ Cur(c)' = Cur(c) /\ Cur(c).call = c
      BY <2>1, CurType DEF Cur
    <3>4. ASSUME NEW w \in WireIds, waiters'[w] # None
          PROVE  w = WireId[Cur(c)] /\ waiters'[w] = Cur(c)
      BY <3>1, <3>4, <2>3 DEF TypeOK
    <3>5. pc'[c] = "write"
      BY <3>1 DEF TypeOK
    <3>6. LockInv'
      BY <2>1, <3>2, <3>3, <3>4, <3>5 DEF LockInv
    <3> QED
      BY <2>2, <3>6 DEF ControlInv
  <2> QED
    BY <2>4, <2>5
<1>4. ASSUME NEW c \in Calls, WriteFails(c) PROVE ControlInv'
  BY <1>4, ControlMoves DEF WriteFails, GiveUp
<1>5. ASSUME NEW c \in Calls, WriteByte(c) PROVE ControlInv'
  BY <1>5, ControlMoves DEF WriteByte
<1>6. ASSUME NEW c \in Calls, PaceElapses(c) PROVE ControlInv'
  BY <1>6, ControlMoves DEF PaceElapses
<1>7. ASSUME NEW c \in Calls, PaceAborts(c) PROVE ControlInv'
  BY <1>7, ControlMoves DEF PaceAborts, GiveUp
<1>8. ASSUME NEW c \in Calls, AwaitAck(c) PROVE ControlInv'
  BY <1>8, ControlMoves DEF AwaitAck
<1>9. ASSUME NEW c \in Calls, AwaitTimeout(c) PROVE ControlInv'
  BY <1>9, ControlMoves DEF AwaitTimeout, TimerFires, GiveUp
<1>10. ASSUME NEW c \in Calls, AwaitAborts(c) PROVE ControlInv'
  BY <1>10, ControlMoves DEF AwaitAborts, EndsWithError, GiveUp
<1>11. ASSUME NEW c \in Calls, FrameReturns(c) PROVE ControlInv'
  <2>1. pc[c] = "cleanup" /\ cmdMu = c /\ UNCHANGED cmdMu
        /\ waiters' = [waiters EXCEPT ![WireId[Cur(c)]] = None]
    BY <1>11 DEF FrameReturns, DropWaiter, ControlInv, LockInv, Critical
  <2>2. \E l \in {"gap", "encode", "unlock"} : pc' = [pc EXCEPT ![c] = l]
    BY <1>11 DEF FrameReturns
  <2>3. \A w \in WireIds : waiters'[w] = None
    BY <2>1, FrameFacts DEF ControlInv, LockInv, TypeOK
  <2>4. \A d \in Calls : pc'[d] \in Critical => cmdMu' = d
    BY <2>1, <2>2 DEF ControlInv, LockInv, Critical, TypeOK
  <2>5. LockInv'
    BY <2>3, <2>4 DEF LockInv
  <2>6. IndexInv'
    <3>1. CASE FallsBack(c) \/ HasNextNote(c)
      <4>1. idx' = [idx EXCEPT ![c] = @ + 1]
        BY <1>11, <3>1 DEF FrameReturns
      <4>2. Kind[c] # "cmd" /\ idx[c] + 1 <= NoteCount[c] /\ idx[c] + 1 >= 1
        <5>1. idx[c] \in Nat /\ NoteCount[c] \in Nat
          BY DEF TypeOK
        <5>2. CASE FallsBack(c)
          BY <5>1, <5>2 DEF FallsBack, OnSong
        <5>3. CASE HasNextNote(c)
          BY <5>1, <5>3 DEF HasNextNote, ControlInv, IndexInv
        <5> QED
          BY <3>1, <5>2, <5>3
      <4> QED
        BY <4>1, <4>2 DEF ControlInv, IndexInv, TypeOK
    <3>2. CASE ~(FallsBack(c) \/ HasNextNote(c))
      BY <1>11, <3>2 DEF FrameReturns, ControlInv, IndexInv
    <3> QED
      BY <3>1, <3>2
  <2> QED
    BY <2>5, <2>6 DEF ControlInv
<1>12. ASSUME NEW c \in Calls, GapElapses(c) PROVE ControlInv'
  <2>1. LockInv'
    BY <1>12 DEF GapElapses, ControlInv, LockInv, Critical, Cur, TypeOK
  <2> QED
    BY <1>12, <2>1 DEF GapElapses, ControlInv, IndexInv
<1>13. ASSUME NEW c \in Calls, GapAborts(c) PROVE ControlInv'
  <2>1. LockInv'
    BY <1>13 DEF GapAborts, ControlInv, LockInv, Critical, Cur, TypeOK
  <2> QED
    BY <1>13, <2>1 DEF GapAborts, ControlInv, IndexInv
<1>14. ASSUME NEW c \in Calls, UnlockCmdMu(c) PROVE ControlInv'
  <2>1. pc[c] = "unlock" /\ cmdMu = c /\ cmdMu' = None /\ pc' = [pc EXCEPT ![c] = "end"]
        /\ UNCHANGED <<idx, waiters>>
    BY <1>14 DEF UnlockCmdMu, ControlInv, LockInv, Critical
  <2>2. \A w \in WireIds : waiters[w] = None
    BY <2>1 DEF ControlInv, LockInv
  <2>3. \A d \in Calls : pc'[d] \notin Critical
    BY <2>1 DEF ControlInv, LockInv, Critical, TypeOK
  <2>4. LockInv'
    BY <2>1, <2>2, <2>3 DEF LockInv
  <2> QED
    BY <2>1, <2>4 DEF ControlInv, IndexInv
<1>15. ASSUME NEW c \in Calls, Cancel(c) PROVE ControlInv'
  BY <1>15, ControlKept DEF Cancel
<1>16. CASE RxSide
  BY <1>16, ControlKept DEF RxSide, RxLookup, RxDeliver, RxLoses, RxExits
<1>17. CASE Life
  BY <1>17, ControlKept DEF Life, MarkDead, Close, Unplug
<1>18. CASE Board
  BY <1>18, ControlKept DEF Board, BoardPlays, BoardRefuses, BoardResets
<1>19. CASE UNCHANGED vars
  BY <1>19, ControlKept DEF vars
<1> QED
  BY <1>1, <1>2, <1>3, <1>4, <1>5, <1>6, <1>7, <1>8, <1>9, <1>10, <1>11, <1>12, <1>13, <1>14,
     <1>15, <1>16, <1>17, <1>18, <1>19
  DEF Next, Caller, CallStep, Quiet

-----------------------------------------------------------------------------
(* The debts of the board. *)

LedgerInv == DebtInv /\ PresentInv /\ ReplyInv

\* The frames of the calls that have their ids for themselves.
LEMMA OwnFacts ==
  /\ \A f \in OwnFrames : f \in Frames /\ f.call \in OwnCalls /\ f # None
  /\ \A f \in Frames : f.call \in OwnCalls => f \in OwnFrames
  /\ \A c \in OwnCalls : c \in Calls
  /\ \A f \in OwnFrames, g \in Frames : WireId[g] = WireId[f] => g.call = f.call
  BY FrameFacts, NoneAssumption DEF NoneAssumption, OwnFrames, OwnCalls

\* What taking the tail does to a sequence.
LEMMA TailFacts ==
  ASSUME NEW S, NEW s \in Seq(S), s # <<>>, NEW t, t = Tail(s)
  PROVE  /\ 1 \in DOMAIN s /\ Head(s) = s[1]
         /\ \A i \in DOMAIN t : i \in Nat /\ i + 1 \in DOMAIN s /\ i + 1 # 1 /\ t[i] = s[i + 1]
  OBVIOUS

\* What the board has carried out stays so.
LEMMA PlayedGrows ==
  ASSUME TypeOK
  PROVE  /\ BoardPlays => Played \subseteq Played' /\ pending \in Played'
         /\ [Next]_vars => Played \subseteq Played'
<1>1. ASSUME BoardPlays PROVE Played \subseteq Played' /\ pending \in Played'
  <2>1. played \in Seq(Frames) /\ pending \in Frames /\ played' = Append(played, pending)
    BY <1>1 DEF BoardPlays, TypeOK
  <2>2. /\ \A i \in DOMAIN played : i \in DOMAIN played' /\ played'[i] = played[i]
        /\ Len(played) + 1 \in DOMAIN played' /\ played'[Len(played) + 1] = pending
    BY <2>1, AppendFacts
  <2> QED
    BY <2>2 DEF Played
<1>2. ASSUME [Next]_vars, ~BoardPlays PROVE played' = played
  <2>1. UNCHANGED vars => played' = played
    BY DEF vars
  <2>2. Caller => played' = played
    BY DEF Caller, CallStep, SendCommand, LockCmdMu, Register, WriteFails, WriteByte, PaceElapses,
           PaceAborts, AwaitAck, AwaitTimeout, AwaitAborts, FrameReturns, GapElapses, GapAborts,
           UnlockCmdMu, Cancel, boardVars
  <2>3. RxSide \/ Life \/ BoardRefuses \/ BoardResets => played' = played
    BY DEF RxSide, RxLookup, RxDeliver, RxLoses, RxExits, Life, MarkDead, Close, Unplug,
           BoardRefuses, BoardResets, boardVars
  <2> QED
    BY <1>2, <2>1, <2>2, <2>3 DEF Next, Board, Quiet
<1>3. played' = played => Played' = Played
  BY DEF Played
<1> QED
  BY <1>1, <1>2, <1>3

LEMMA LedgerInit == Init => LedgerInv
<1> SUFFICES ASSUME Init PROVE LedgerInv
  OBVIOUS
<1>1. rx = <<>> /\ line = <<>> /\ pending = None /\ rxHold = None /\ DOMAIN rx = {} /\ DOMAIN line = {}
      /\ \A f \in Frames : chan[f] = None
  BY DEF Init
<1>2. \A f \in OwnFrames : ~Owed(f) /\ ~InLine(f) /\ chan[f] = None /\ pending # f
  BY <1>1, OwnFacts DEF Owed, InLine
<1> QED
  BY <1>1, <1>2 DEF LedgerInv, DebtInv, PresentInv, ReplyInv

\* A step of a caller that has no part in the debts, or a board that forgets.
LEMMA LedgerKept ==
  ASSUME TypeOK, LedgerInv,
         UNCHANGED <<idx, chan, rx, rxHold, played>>,
         line' = line \/ line' = <<>>,
         pending' = pending \/ pending' = None,
         \A c \in Calls : Unsent(c)' => Unsent(c),
         \A c \in Calls : pc'[c] \in {"enter", "lock", "encode", "gap"}
                            => pc[c] \in {"enter", "lock", "encode", "gap"}
  PROVE  LedgerInv'
<1>0. \A f \in OwnFrames : (Owed(f)' => Owed(f)) /\ (InLine(f)' => InLine(f))
                           /\ (pending' = f => pending = f) /\ f.call \in Calls
  BY OwnFacts DEF Owed, InLine
<1>1. DebtInv'
  BY <1>0 DEF LedgerInv, DebtInv
<1>2. PresentInv'
  BY <1>0 DEF LedgerInv, PresentInv
<1>3. ReplyInv'
  BY DEF LedgerInv, ReplyInv, Belongs, Honest, Played
<1> QED
  BY <1>1, <1>2, <1>3 DEF LedgerInv

\* The board answers for a frame that has no debt elsewhere, if it is one of a
\* call with its own id: the pending one, or one in the line that is cleared.
LEMMA LedgerAnswer ==
  ASSUME TypeOK, LedgerInv, NEW f \in Frames, NEW code \in Codes,
         rx' = Append(rx, Reply(f, code)),
         UNCHANGED <<idx, chan, rxHold>>,
         pending' \in {pending, None},
         line' = <<>> \/ line' = line,
         f \in OwnFrames =>
           /\ chan[f] = None
           /\ \A i \in DOMAIN rx : rx[i].of # f
           /\ rxHold # None => rxHold.ack.of # f
           /\ pending' # f /\ (line' = <<>> \/ ~InLine(f))
           /\ f.idx = idx[f.call] /\ ~Unsent(f.call)',
         \A c \in Calls : Unsent(c)' => Unsent(c),
         \A c \in Calls : pc'[c] \in {"enter", "lock", "encode", "gap"}
                            => pc[c] \in {"enter", "lock", "encode", "gap"},
         Played \subseteq Played', code = "ok" => f \in Played'
  PROVE  LedgerInv'
<1>1. rx \in Seq(Replies) /\ Reply(f, code) \in Replies /\ Reply(f, code).of = f
      /\ Honest(Reply(f, code))'
  BY ReplyType DEF TypeOK, Honest
<1>2. /\ DOMAIN rx = 1..Len(rx) /\ Len(rx) \in Nat
      /\ rx'[Len(rx) + 1].of = f /\ rx'[Len(rx) + 1] = Reply(f, code)
      /\ Len(rx) + 1 \notin DOMAIN rx
      /\ \A i \in DOMAIN rx : i \in DOMAIN rx' /\ rx'[i] = rx[i]
      /\ \A i \in DOMAIN rx' : (i \in DOMAIN rx /\ rx'[i] = rx[i]) \/ i = Len(rx) + 1
  BY <1>1, AppendFacts
<1>3. \A g \in OwnFrames : /\ Owed(g)' => Owed(g) \/ g = f
                           /\ InLine(g)' => InLine(g) /\ g # f
                           /\ pending' = g => pending = g /\ g # f
                           /\ g \in Frames /\ g.call \in Calls
  <2> SUFFICES ASSUME NEW g \in OwnFrames
               PROVE  /\ Owed(g)' => Owed(g) \/ g = f
                      /\ InLine(g)' => InLine(g) /\ g # f
                      /\ pending' = g => pending = g /\ g # f
                      /\ g \in Frames /\ g.call \in Calls
    OBVIOUS
  <2>1. g \in Frames /\ g.call \in Calls /\ g # None
    BY OwnFacts
  <2>2. Owed(g)' => Owed(g) \/ g = f
    BY <1>2, <2>1 DEF Owed
  <2>3. InLine(g)' => InLine(g) /\ g # f
    BY DEF InLine
  <2> QED
    BY <2>1, <2>2, <2>3
<1>5. DebtInv'
  <2> SUFFICES ASSUME NEW g \in OwnFrames
               PROVE  /\ \A i, j \in DOMAIN rx' : rx'[i].of = g /\ rx'[j].of = g => i = j
                      /\ rxHold' # None /\ rxHold'.ack.of = g => \A i \in DOMAIN rx' : rx'[i].of # g
                      /\ pending' = g => /\ \A i \in DOMAIN rx' : rx'[i].of # g
                                         /\ rxHold' # None => rxHold'.ack.of # g
                      /\ chan'[g] # None => ~Owed(g)'
                      /\ InLine(g)' => ~Owed(g)' /\ chan'[g] = None
    BY DEF DebtInv
  <2>1. \A i, j \in DOMAIN rx' : rx'[i].of = g /\ rx'[j].of = g => i = j
    BY <1>2 DEF LedgerInv, DebtInv
  <2>2. rxHold' # None /\ rxHold'.ack.of = g => \A i \in DOMAIN rx' : rx'[i].of # g
    BY <1>2 DEF LedgerInv, DebtInv
  <2>3. pending' = g => /\ \A i \in DOMAIN rx' : rx'[i].of # g
                        /\ rxHold' # None => rxHold'.ack.of # g
    BY <1>2, <1>3 DEF LedgerInv, DebtInv
  <2>4. chan'[g] # None => ~Owed(g)'
    BY <1>3 DEF LedgerInv, DebtInv
  <2>5. InLine(g)' => ~Owed(g)' /\ chan'[g] = None
    BY <1>3 DEF LedgerInv, DebtInv
  <2> QED
    BY <2>1, <2>2, <2>3, <2>4, <2>5
<1>6. PresentInv'
  BY <1>3 DEF LedgerInv, PresentInv
<1>7. ReplyInv'
  BY <1>1, <1>2 DEF LedgerInv, ReplyInv, Belongs, Honest
<1> QED
  BY <1>5, <1>6, <1>7 DEF LedgerInv

\* A caller leaves the set of unsent frames, or stays where it is.
LEMMA UnsentMoves ==
  ASSUME TypeOK, NEW c \in Calls, NEW l \in PCs,
         pc' = [pc EXCEPT ![c] = l],
         \A d \in Calls \ {c} : sent'[d] = sent[d],
         Unsent(c)' => Unsent(c),
         l \in {"enter", "lock", "encode", "gap"} => pc[c] \in {"enter", "lock", "encode", "gap"}
  PROVE  /\ \A d \in Calls : Unsent(d)' => Unsent(d)
         /\ \A d \in Calls : pc'[d] \in {"enter", "lock", "encode", "gap"}
                              => pc[d] \in {"enter", "lock", "encode", "gap"}
  BY DEF TypeOK, Unsent

\* The step of a caller that sends nothing.
LEMMA LedgerMoves ==
  ASSUME TypeOK, LedgerInv, NEW c \in Calls, NEW l \in PCs,
         pc' = [pc EXCEPT ![c] = l],
         UNCHANGED <<idx, sent, chan, rx, rxHold, line, pending, played>>,
         \/ l \in {"cleanup", "unlock", "end", "await"}
         \/ l \in {"lock", "encode"} /\ pc[c] \in {"enter", "lock", "gap"}
         \/ l \in {"write"} /\ pc[c] = "pace"
  PROVE  LedgerInv'
<1>1. Unsent(c)' => Unsent(c)
  BY DEF Unsent, TypeOK
<1>2. l \in {"enter", "lock", "encode", "gap"} => pc[c] \in {"enter", "lock", "encode", "gap"}
  OBVIOUS
<1> QED
  BY <1>1, <1>2, UnsentMoves, LedgerKept

\* A byte is sent.
LEMMA LedgerWrite ==
  ASSUME TypeOK, SentInv, ControlInv, LedgerInv, NEW c \in Calls, WriteByte(c)
  PROVE  LedgerInv'
<1> DEFINE f == Cur(c)
<1> DEFINE b == [frame |-> f, k |-> sent[c] + 1]
<1> DEFINE l == Append(line, b)
<1>1. f \in Frames /\ f.call = c /\ f.idx = idx[c] /\ b \in Bytes /\ b.frame = f /\ b.k = sent[c] + 1
  <2>1. sent[c] + 1 \in 1..FrameLen
    BY DEF TypeOK, SentInv, WriteByte
  <2> QED
    BY <2>1, CurType DEF Bytes
<1>2. /\ pc[c] = "write" /\ pc' = [pc EXCEPT ![c] = "pace"] /\ sent' = [sent EXCEPT ![c] = @ + 1]
      /\ UNCHANGED <<idx, chan, rxHold, played>>
      /\ BoardReceives(b) \/ UNCHANGED <<line, pending, rx>>
  BY DEF WriteByte, Goto
<1>3. Unsent(c) /\ sent'[c] = sent[c] + 1 /\ sent[c] \in 0..FrameLen /\ sent[c] < FrameLen
      /\ pc'[c] = "pace"
  BY <1>2 DEF Unsent, SentInv, TypeOK
<1>4. /\ \A d \in Calls : Unsent(d)' => Unsent(d)
      /\ \A d \in Calls : pc'[d] \in {"enter", "lock", "encode", "gap"}
                           => pc[d] \in {"enter", "lock", "encode", "gap"}
  <2>1. \A d \in Calls \ {c} : sent'[d] = sent[d]
    BY <1>2 DEF TypeOK
  <2>2. "pace" \in PCs
    BY DEF PCs
  <2> QED
    BY <1>2, <1>3, <2>1, <2>2, UnsentMoves
<1>5. f \in OwnFrames => ~Owed(f) /\ chan[f] = None
  <2>1. idx[c] \in Nat
    BY DEF TypeOK
  <2>2. f \in OwnFrames => ~Owed(f)
    BY <1>1, <1>3 DEF LedgerInv, PresentInv
  <2>3. f \in OwnFrames => chan[f] = None
    BY <1>1, <1>3, <2>1 DEF LedgerInv, PresentInv
  <2> QED
    BY <2>2, <2>3
<1>6. f \in OwnFrames => /\ pending # f /\ \A i \in DOMAIN rx : rx[i].of # f
                         /\ rxHold # None => rxHold.ack.of # f
  BY <1>5 DEF Owed
<1>6a. \A i \in DOMAIN l : (i \in DOMAIN line /\ l[i] = line[i]) \/ l[i] = b
  <2>1. line \in Seq(Bytes)
    BY DEF TypeOK
  <2> QED
    BY <1>1, <2>1, AppendFacts
<1>7. CASE UNCHANGED <<line, pending, rx>>
  BY <1>2, <1>4, <1>7, LedgerKept
<1>8. CASE BoardReceives(b) /\ b.k < FrameLen
  <2>1. line' = l /\ UNCHANGED <<pending, rx>>
    BY <1>8 DEF BoardReceives
  <2>3. \A g \in OwnFrames : /\ InLine(g)' => InLine(g) \/ g = f
                             /\ Owed(g)' <=> Owed(g)
                             /\ g.call \in Calls
    <3>1. \A g : InLine(g)' => InLine(g) \/ g = f
      BY <1>1, <1>6a, <2>1 DEF InLine
    <3> QED
      BY <1>2, <2>1, <3>1, OwnFacts DEF Owed
  <2>4. DebtInv'
    BY <1>2, <1>5, <2>1, <2>3 DEF LedgerInv, DebtInv
  <2>5. PresentInv'
    <3> SUFFICES ASSUME NEW g \in OwnFrames
                 PROVE  /\ Owed(g)' => g.idx = idx'[g.call] /\ ~Unsent(g.call)'
                        /\ InLine(g)' => g.idx = idx'[g.call]
                                         /\ pc'[g.call] \notin {"enter", "lock", "encode", "gap"}
                        /\ chan'[g] # None =>
                             g.idx < idx'[g.call] \/ (g.idx = idx'[g.call] /\ ~Unsent(g.call)')
      BY DEF PresentInv
    <3>1. Owed(g)' => g.idx = idx'[g.call] /\ ~Unsent(g.call)'
      BY <1>2, <1>4, <2>3 DEF LedgerInv, PresentInv
    <3>2. InLine(g)' => g.idx = idx'[g.call] /\ pc'[g.call] \notin {"enter", "lock", "encode", "gap"}
      BY <1>1, <1>2, <1>3, <1>4, <2>3 DEF LedgerInv, PresentInv
    <3>3. chan'[g] # None => g.idx < idx'[g.call] \/ (g.idx = idx'[g.call] /\ ~Unsent(g.call)')
      BY <1>2, <1>4, <2>3 DEF LedgerInv, PresentInv
    <3> QED
      BY <3>1, <3>2, <3>3
  <2>6. ReplyInv'
    BY <1>2, <2>1 DEF LedgerInv, ReplyInv, Belongs, Honest, Played
  <2> QED
    BY <2>4, <2>5, <2>6 DEF LedgerInv
<1>9. CASE BoardReceives(b) /\ ~(b.k < FrameLen)
  <2>1. sent'[c] = FrameLen /\ ~Unsent(c)'
    BY <1>1, <1>3, <1>9 DEF Unsent
  <2>2. line' = <<>>
    BY <1>9 DEF BoardReceives
  <2>3. \/ pending' = f /\ pending = None /\ UNCHANGED rx
        \/ pending' = pending /\ UNCHANGED rx
        \/ pending' = pending /\ rx' = Append(rx, Reply(f, "err"))
        \/ /\ pending' = pending
           /\ \E i \in DOMAIN l, code \in {"unknown", "err"} : rx' = Append(rx, Reply(l[i].frame, code))
    BY <1>1, <1>9 DEF BoardReceives
  <2>4. CASE pending' = f /\ pending = None /\ UNCHANGED rx
    <3>1. \A g \in OwnFrames : ~InLine(g)' /\ (Owed(g)' => Owed(g) \/ g = f) /\ g.call \in Calls
      BY <1>2, <2>2, <2>4, OwnFacts DEF InLine, Owed
    <3>2. DebtInv'
    <4> SUFFICES ASSUME NEW g \in OwnFrames
                 PROVE  /\ \A i, j \in DOMAIN rx' : rx'[i].of = g /\ rx'[j].of = g => i = j
                        /\ rxHold' # None /\ rxHold'.ack.of = g => \A i \in DOMAIN rx' : rx'[i].of # g
                        /\ pending' = g => /\ \A i \in DOMAIN rx' : rx'[i].of # g
                                           /\ rxHold' # None => rxHold'.ack.of # g
                        /\ chan'[g] # None => ~Owed(g)'
                        /\ InLine(g)' => ~Owed(g)' /\ chan'[g] = None
      BY DEF DebtInv
      <4>1. pending' = g => g = f
        BY <2>4
      <4>2. (chan'[g] # None => ~Owed(g)') /\ ~InLine(g)'
        BY <1>2, <1>5, <3>1 DEF LedgerInv, DebtInv
      <4>3. \A i, j \in DOMAIN rx : rx[i].of = g /\ rx[j].of = g => i = j
        BY DEF LedgerInv, DebtInv
      <4>4. rxHold # None /\ rxHold.ack.of = g => \A i \in DOMAIN rx : rx[i].of # g
        BY DEF LedgerInv, DebtInv
      <4> QED
        BY <1>2, <1>6, <2>4, <4>1, <4>2, <4>3, <4>4
    <3>3. PresentInv'
      BY <1>1, <1>2, <1>4, <2>1, <3>1 DEF LedgerInv, PresentInv
    <3>4. ReplyInv'
      BY <1>2, <2>4 DEF LedgerInv, ReplyInv, Belongs, Honest, Played
    <3> QED
      BY <3>2, <3>3, <3>4 DEF LedgerInv
  <2>5. CASE pending' = pending /\ UNCHANGED rx
    BY <1>2, <1>4, <2>2, <2>5, LedgerKept
  <2>6. ASSUME NEW g \in Frames, g = f \/ InLine(g), NEW code \in {"unknown", "err"},
               pending' = pending, rx' = Append(rx, Reply(g, code))
        PROVE  LedgerInv'
    <3>1. g \in OwnFrames => chan[g] = None /\ ~Owed(g)
      BY <1>5, <2>6 DEF LedgerInv, DebtInv
    <3>2. g \in OwnFrames => /\ pending # g /\ \A i \in DOMAIN rx : rx[i].of # g
                             /\ rxHold # None => rxHold.ack.of # g
      BY <3>1 DEF Owed
    <3>3. g \in OwnFrames => g.idx = idx[g.call] /\ ~Unsent(g.call)'
      <4> SUFFICES ASSUME g \in OwnFrames PROVE g.idx = idx[g.call] /\ ~Unsent(g.call)'
        OBVIOUS
      <4>1. CASE g.call = c
        BY <1>1, <2>1, <2>6, <4>1 DEF LedgerInv, PresentInv
      <4>2. CASE g.call # c
        <5>1. InLine(g) /\ g.call \in Calls
          BY <1>1, <2>6, <4>2, FrameFacts
        <5>2. g.idx = idx[g.call] /\ pc[g.call] \notin {"enter", "lock", "encode", "gap"}
          BY <5>1 DEF LedgerInv, PresentInv
        <5>3. pc[g.call] \notin Critical
          BY <1>2, <4>2, <5>1 DEF ControlInv, LockInv, Critical
        <5>4. ~Unsent(g.call)
          BY <5>2, <5>3 DEF Unsent, Critical
        <5> QED
          BY <5>1, <5>2, <5>4, <1>4
      <4> QED
        BY <4>1, <4>2
    <3>4. code \in Codes /\ code # "ok" /\ Played' = Played
      BY <1>2 DEF Codes, Played
    <3>5. g \in OwnFrames =>
            /\ chan[g] = None
            /\ \A i \in DOMAIN rx : rx[i].of # g
            /\ rxHold # None => rxHold.ack.of # g
            /\ pending' # g /\ (line' = <<>> \/ ~InLine(g))
            /\ g.idx = idx[g.call] /\ ~Unsent(g.call)'
      BY <2>2, <2>6, <3>1, <3>2, <3>3
    <3>6. pending' \in {pending, None} /\ UNCHANGED <<idx, chan, rxHold>>
      BY <1>2, <2>6
    <3> HIDE DEF f, b, l
    <3> QED
      BY <1>4, <2>2, <2>6, <3>4, <3>5, <3>6, LedgerAnswer
  <2>7. CASE pending' = pending /\ rx' = Append(rx, Reply(f, "err"))
    BY <1>1, <2>6, <2>7
  <2>8. CASE /\ pending' = pending
             /\ \E i \in DOMAIN l, code \in {"unknown", "err"} : rx' = Append(rx, Reply(l[i].frame, code))
    <3>1. PICK i \in DOMAIN l, code \in {"unknown", "err"} : rx' = Append(rx, Reply(l[i].frame, code))
      BY <2>8
    <3>2. (i \in DOMAIN line /\ l[i] = line[i]) \/ l[i] = b
      BY <1>6a, <3>1
    <3>3. l[i].frame = f \/ InLine(l[i].frame)
      BY <1>1, <3>2 DEF InLine
    <3>4. l[i].frame \in Frames
      <4>1. i \in DOMAIN line => line[i] \in Bytes
        BY DEF TypeOK
      <4> QED
        BY <1>1, <3>2, <4>1 DEF Bytes
    <3> QED
      BY <2>6, <2>8, <3>1, <3>3, <3>4
  <2> QED
    BY <2>3, <2>4, <2>5, <2>7, <2>8
<1> QED
  BY <1>2, <1>7, <1>8, <1>9

\* The debt of the head of rx passes to the RX loop, and it is the present
\* frame of the holder of cmdMu that waits for it.
LEMMA LedgerLookup ==
  ASSUME TypeOK, ControlInv, LedgerInv, RxLookup
  PROVE  LedgerInv'
<1> DEFINE h == rx[1]
<1> DEFINE ch == waiters[h.id]
<1>1. /\ rxHold = None /\ rx # <<>> /\ rx \in Seq(Replies) /\ rx' = Tail(rx)
      /\ Head(rx) = h
      /\ UNCHANGED <<pc, sent, idx, chan, line, pending, played>>
  BY TailFacts DEF RxLookup, TypeOK, callVars, boardVars
<1>2. /\ 1 \in DOMAIN rx /\ h \in Replies /\ h.of \in Frames /\ h.id \in WireIds
      /\ \A i \in DOMAIN rx' : i \in Nat /\ i + 1 \in DOMAIN rx /\ i + 1 # 1 /\ rx'[i] = rx[i + 1]
  <2>1. 1 \in DOMAIN rx
        /\ \A i \in DOMAIN rx' : i \in Nat /\ i + 1 \in DOMAIN rx /\ i + 1 # 1 /\ rx'[i] = rx[i + 1]
    BY <1>1, TailFacts
  <2>2. h \in Replies
    BY <1>1, <2>1
  <2> QED
    BY <2>1, <2>2 DEF Replies
<1>3. rxHold' = IF ch = None THEN None ELSE [chan |-> ch, ack |-> h]
  BY <1>1 DEF RxLookup
<1>4. /\ Owed(h.of) /\ Honest(h)
      /\ h.of \in OwnFrames => /\ \A i \in DOMAIN rx' : rx'[i].of # h.of
                               /\ pending # h.of
  BY <1>2, OwnFacts DEF LedgerInv, DebtInv, ReplyInv, Owed
<1>5. rxHold' # None => rxHold'.ack = h /\ rxHold'.chan = ch /\ ch # None
  BY <1>3
<1>6. \A g \in OwnFrames : (Owed(g)' => Owed(g)) /\ (InLine(g)' <=> InLine(g)) /\ g.call \in Calls
  BY <1>1, <1>2, <1>4, <1>5, OwnFacts DEF Owed, InLine
<1>7. ch # None => ch \in Frames /\ WireId[ch] = h.id /\ (ch \in OwnFrames => h.of = ch)
  <2>1. SUFFICES ASSUME ch # None
                 PROVE  ch \in Frames /\ WireId[ch] = h.id /\ (ch \in OwnFrames => h.of = ch)
    OBVIOUS
  <2>2. ch \in Frames /\ ch = Cur(ch.call) /\ WireId[ch] = h.id
    BY <1>2, <2>1 DEF TypeOK, ControlInv, LockInv
  <2>3. ASSUME ch \in OwnFrames PROVE h.of = ch
    <3>1. h.of.call = ch.call
      BY <1>2, <1>4, <2>2, <2>3, OwnFacts DEF Honest
    <3>2. h.of \in OwnFrames
      BY <1>2, <2>3, <3>1, OwnFacts
    <3>3. h.of.idx = idx[h.of.call]
      BY <1>4, <3>2 DEF LedgerInv, PresentInv
    <3>4. ch.idx = idx[ch.call]
      BY <2>2 DEF Cur
    <3> QED
      BY <1>2, <2>2, <3>1, <3>3, <3>4, FrameFacts
  <2> QED
    BY <2>2, <2>3
<1>8. DebtInv'
  <2> SUFFICES ASSUME NEW g \in OwnFrames
               PROVE  /\ \A i, j \in DOMAIN rx' : rx'[i].of = g /\ rx'[j].of = g => i = j
                      /\ rxHold' # None /\ rxHold'.ack.of = g => \A i \in DOMAIN rx' : rx'[i].of # g
                      /\ pending' = g => /\ \A i \in DOMAIN rx' : rx'[i].of # g
                                         /\ rxHold' # None => rxHold'.ack.of # g
                      /\ chan'[g] # None => ~Owed(g)'
                      /\ InLine(g)' => ~Owed(g)' /\ chan'[g] = None
    BY DEF DebtInv
  <2>1. \A i, j \in DOMAIN rx' : rx'[i].of = g /\ rx'[j].of = g => i = j
    BY <1>2 DEF LedgerInv, DebtInv
  <2>2. rxHold' # None /\ rxHold'.ack.of = g => \A i \in DOMAIN rx' : rx'[i].of # g
    BY <1>4, <1>5
  <2>3. pending' = g => /\ \A i \in DOMAIN rx' : rx'[i].of # g
                        /\ rxHold' # None => rxHold'.ack.of # g
    BY <1>1, <1>2, <1>4, <1>5 DEF LedgerInv, DebtInv
  <2>4. (chan'[g] # None => ~Owed(g)') /\ (InLine(g)' => ~Owed(g)' /\ chan'[g] = None)
    BY <1>1, <1>6 DEF LedgerInv, DebtInv
  <2> QED
    BY <2>1, <2>2, <2>3, <2>4
<1>9. PresentInv'
  <2>1. \A d \in Calls : Unsent(d)' <=> Unsent(d)
    BY <1>1 DEF Unsent
  <2> QED
    BY <1>1, <1>6, <2>1 DEF LedgerInv, PresentInv
<1>10. ReplyInv'
  <2>1. Played' = Played
    BY <1>1 DEF Played
  <2>2. \A i \in DOMAIN rx' : Honest(rx'[i])
    BY <1>2 DEF LedgerInv, ReplyInv
  <2>3. rxHold' # None => Belongs(rxHold'.ack, rxHold'.chan)
    BY <1>4, <1>5, <1>7 DEF Belongs
  <2>4. \A f \in Frames : chan'[f] # None => Belongs(chan'[f], f)
    BY <1>1 DEF LedgerInv, ReplyInv
  <2> QED
    BY <2>1, <2>2, <2>3, <2>4 DEF ReplyInv, Belongs, Honest
<1> QED
  BY <1>8, <1>9, <1>10 DEF LedgerInv

\* The debt in the hands of the RX loop is paid into the channel of its frame,
\* which is empty; where calls share an id, into a channel of that id.
LEMMA LedgerDeliver ==
  ASSUME TypeOK, LedgerInv, RxDeliver
  PROVE  LedgerInv'
<1>0. rxHold # None /\ rxHold.chan \in Frames /\ rxHold.ack \in Replies
  BY DEF RxDeliver, TypeOK
<1>g. PICK g \in Frames : g = rxHold.chan
  BY <1>0
<1>r. PICK r \in Replies : r = rxHold.ack
  BY <1>0
<1>1. /\ Belongs(r, g) /\ rxHold' = None
      /\ chan' = [chan EXCEPT ![g] = IF @ = None THEN r ELSE @]
      /\ UNCHANGED <<pc, sent, idx, rx, line, pending, played>>
  BY <1>g, <1>r DEF RxDeliver, TypeOK, LedgerInv, ReplyInv, callVars, boardVars
<1>2. \A f \in Frames : chan'[f] = chan[f] \/ (f = g /\ chan[f] = None /\ chan'[f] = r)
  BY <1>1 DEF TypeOK
<1>3. \A f \in OwnFrames : /\ Owed(f)' => Owed(f)
                           /\ InLine(f)' <=> InLine(f)
                           /\ f \in Frames /\ f.call \in Calls
  BY <1>1, OwnFacts DEF Owed, InLine
<1>4. ASSUME g \in OwnFrames
      PROVE  /\ ~InLine(g) /\ g.idx = idx[g.call] /\ ~Unsent(g.call) /\ ~Owed(g)'
  <2>1. r.of = g /\ r = rxHold.ack
    BY <1>1, <1>4, <1>r DEF Belongs
  <2>2. Owed(g)
    BY <1>0, <2>1 DEF Owed
  <2>3. pending # g /\ \A i \in DOMAIN rx : rx[i].of # g
    BY <1>0, <1>4, <2>1 DEF LedgerInv, DebtInv
  <2>4. ~InLine(g) /\ g.idx = idx[g.call] /\ ~Unsent(g.call)
    BY <1>4, <2>2 DEF LedgerInv, DebtInv, PresentInv
  <2>5. ~Owed(g)'
    <3>1. UNCHANGED <<pending, rx>> /\ rxHold' = None
      BY <1>1
    <3> QED
      BY <2>3, <3>1 DEF Owed
  <2> QED
    BY <2>4, <2>5
<1>5. \A d \in Calls : Unsent(d)' <=> Unsent(d)
  BY <1>1 DEF Unsent
<1>6. DebtInv'
  <2> SUFFICES ASSUME NEW f \in OwnFrames
               PROVE  /\ \A i, j \in DOMAIN rx' : rx'[i].of = f /\ rx'[j].of = f => i = j
                      /\ rxHold' # None /\ rxHold'.ack.of = f => \A i \in DOMAIN rx' : rx'[i].of # f
                      /\ pending' = f => /\ \A i \in DOMAIN rx' : rx'[i].of # f
                                         /\ rxHold' # None => rxHold'.ack.of # f
                      /\ chan'[f] # None => ~Owed(f)'
                      /\ InLine(f)' => ~Owed(f)' /\ chan'[f] = None
    BY DEF DebtInv
  <2>1. chan'[f] = chan[f] \/ f = g
    BY <1>2, <1>3
  <2>2. (chan'[f] # None => ~Owed(f)') /\ (InLine(f)' => ~Owed(f)' /\ chan'[f] = None)
    <3>1. CASE f = g
      BY <1>3, <1>4, <3>1
    <3>2. CASE chan'[f] = chan[f]
      BY <1>3, <3>2 DEF LedgerInv, DebtInv
    <3> QED
      BY <2>1, <3>1, <3>2
  <2>3. /\ \A i, j \in DOMAIN rx : rx[i].of = f /\ rx[j].of = f => i = j
        /\ pending = f => \A i \in DOMAIN rx : rx[i].of # f
    BY DEF LedgerInv, DebtInv
  <2> QED
    BY <1>1, <2>2, <2>3
<1>7. PresentInv'
  <2> SUFFICES ASSUME NEW f \in OwnFrames
               PROVE  /\ Owed(f)' => f.idx = idx'[f.call] /\ ~Unsent(f.call)'
                      /\ InLine(f)' => f.idx = idx'[f.call]
                                       /\ pc'[f.call] \notin {"enter", "lock", "encode", "gap"}
                      /\ chan'[f] # None =>
                           f.idx < idx'[f.call] \/ (f.idx = idx'[f.call] /\ ~Unsent(f.call)')
    BY DEF PresentInv
  <2>1. chan'[f] = chan[f] \/ f = g
    BY <1>2, <1>3
  <2> QED
    BY <1>1, <1>3, <1>4, <1>5, <2>1 DEF LedgerInv, PresentInv
<1>8. ReplyInv'
  <2>1. Played' = Played
    BY <1>1 DEF Played
  <2>2. \A f \in Frames : chan'[f] # None => Belongs(chan'[f], f)
    BY <1>1, <1>2 DEF LedgerInv, ReplyInv
  <2> QED
    BY <1>1, <2>1, <2>2 DEF LedgerInv, ReplyInv, Belongs, Honest
<1> QED
  BY <1>6, <1>7, <1>8 DEF LedgerInv

\* A reply is lost.
LEMMA LedgerLoses ==
  ASSUME TypeOK, LedgerInv, RxLoses
  PROVE  LedgerInv'
<1>1. /\ rx # <<>> /\ rx \in Seq(Replies) /\ rx' = Tail(rx)
      /\ UNCHANGED <<pc, sent, idx, chan, rxHold, line, pending, played>>
  BY DEF RxLoses, TypeOK, callVars, boardVars
<1>2. \A i \in DOMAIN rx' : i \in Nat /\ i + 1 \in DOMAIN rx /\ i + 1 # 1 /\ rx'[i] = rx[i + 1]
  BY <1>1, TailFacts
<1>3. \A g \in OwnFrames : (Owed(g)' => Owed(g)) /\ (InLine(g)' <=> InLine(g)) /\ g.call \in Calls
  BY <1>1, <1>2, OwnFacts DEF Owed, InLine
<1>4. DebtInv'
  <2> SUFFICES ASSUME NEW g \in OwnFrames
               PROVE  /\ \A i, j \in DOMAIN rx' : rx'[i].of = g /\ rx'[j].of = g => i = j
                      /\ rxHold' # None /\ rxHold'.ack.of = g => \A i \in DOMAIN rx' : rx'[i].of # g
                      /\ pending' = g => /\ \A i \in DOMAIN rx' : rx'[i].of # g
                                         /\ rxHold' # None => rxHold'.ack.of # g
                      /\ chan'[g] # None => ~Owed(g)'
                      /\ InLine(g)' => ~Owed(g)' /\ chan'[g] = None
    BY DEF DebtInv
  <2>1. \A i, j \in DOMAIN rx' : rx'[i].of = g /\ rx'[j].of = g => i = j
    BY <1>2 DEF LedgerInv, DebtInv
  <2> QED
    BY <1>1, <1>2, <1>3, <2>1 DEF LedgerInv, DebtInv
<1>5. PresentInv'
  <2>1. \A d \in Calls : Unsent(d)' <=> Unsent(d)
    BY <1>1 DEF Unsent
  <2> QED
    BY <1>1, <1>3, <2>1 DEF LedgerInv, PresentInv
<1>6. ReplyInv'
  BY <1>1, <1>2 DEF LedgerInv, ReplyInv, Belongs, Honest, Played
<1> QED
  BY <1>4, <1>5, <1>6 DEF LedgerInv

\* The call goes on to its next frame: its present one is paid for.
LEMMA LedgerAdvances ==
  ASSUME TypeOK, LedgerInv, PaidInv, NEW c \in Calls, FrameReturns(c),
         FallsBack(c) \/ HasNextNote(c)
  PROVE  LedgerInv'
<1>1. /\ pc[c] = "cleanup" /\ idx' = [idx EXCEPT ![c] = @ + 1]
      /\ pc' = [pc EXCEPT ![c] = IF c \in Gapped THEN "gap" ELSE "encode"]
      /\ UNCHANGED <<sent, chan, rx, rxHold, line, pending, played>>
  BY DEF FrameReturns, Goto, rxVars, boardVars
<1>2. chan[Cur(c)] # None /\ Cur(c) \in Frames
  BY <1>1, CurType DEF PaidInv, FallsBack, HasNextNote
<1>3. Cur(c) \in OwnFrames => ~Owed(Cur(c)) /\ ~InLine(Cur(c))
  BY <1>2 DEF LedgerInv, DebtInv
<1>4. \A f \in OwnFrames : f.call = c => ~Owed(f) /\ ~InLine(f)
  BY <1>3, OwnFacts, FrameFacts DEF LedgerInv, PresentInv, Cur
<1>5. \A f \in Frames : (Owed(f)' <=> Owed(f)) /\ (InLine(f)' <=> InLine(f))
  BY <1>1 DEF Owed, InLine
<1>6. \A d \in Calls : d # c => idx'[d] = idx[d] /\ pc'[d] = pc[d] /\ (Unsent(d)' <=> Unsent(d))
  BY <1>1 DEF TypeOK, Unsent
<1>7. idx'[c] = idx[c] + 1 /\ idx[c] \in Nat
  BY <1>1 DEF TypeOK
<1>8. DebtInv'
  BY <1>1, <1>5, OwnFacts DEF LedgerInv, DebtInv
<1>9. PresentInv'
  <2> SUFFICES ASSUME NEW f \in OwnFrames
               PROVE  /\ Owed(f)' => f.idx = idx'[f.call] /\ ~Unsent(f.call)'
                      /\ InLine(f)' => f.idx = idx'[f.call]
                                       /\ pc'[f.call] \notin {"enter", "lock", "encode", "gap"}
                      /\ chan'[f] # None =>
                           f.idx < idx'[f.call] \/ (f.idx = idx'[f.call] /\ ~Unsent(f.call)')
    BY DEF PresentInv
  <2>1. f \in Frames /\ f.call \in Calls /\ f.idx \in Nat
    BY OwnFacts, FrameFacts
  <2>2. CASE f.call = c
    <3>1. ~Owed(f)' /\ ~InLine(f)'
      BY <1>4, <1>5, <2>1, <2>2
    <3>2. chan[f] # None => f.idx <= idx[c]
      BY <1>7, <2>1, <2>2 DEF LedgerInv, PresentInv
    <3> QED
      BY <1>1, <1>7, <2>1, <2>2, <3>1, <3>2
  <2>3. CASE f.call # c
    BY <1>1, <1>5, <1>6, <2>1, <2>3 DEF LedgerInv, PresentInv
  <2> QED
    BY <2>2, <2>3
<1>10. ReplyInv'
  BY <1>1 DEF LedgerInv, ReplyInv, Belongs, Honest, Played
<1> QED
  BY <1>8, <1>9, <1>10 DEF LedgerInv

LEMMA LedgerNext ==
  ASSUME TypeOK, SentInv, ControlInv, LedgerInv, PaidInv, [Next]_vars
  PROVE  LedgerInv'
<1> USE DEF callVars, lifeVars, rxVars, boardVars, Goto, PCs
<1>1. ASSUME NEW c \in Calls, SendCommand(c) PROVE LedgerInv'
  BY <1>1, LedgerMoves DEF SendCommand
<1>2. ASSUME NEW c \in Calls, LockCmdMu(c) PROVE LedgerInv'
  BY <1>2, LedgerMoves DEF LockCmdMu
<1>3. ASSUME NEW c \in Calls, Register(c) PROVE LedgerInv'
  <2>1. PICK l \in {"unlock", "write"} : pc' = [pc EXCEPT ![c] = l]
    BY <1>3 DEF Register
  <2>2. \A d \in Calls \ {c} : sent'[d] = sent[d]
    BY <1>3 DEF Register, TypeOK
  <2>3. Unsent(c)
    BY <1>3 DEF Register, Unsent
  <2>4. UNCHANGED <<idx, chan, rx, rxHold, line, pending, played>>
    BY <1>3 DEF Register
  <2>5. /\ \A d \in Calls : Unsent(d)' => Unsent(d)
        /\ \A d \in Calls : pc'[d] \in {"enter", "lock", "encode", "gap"}
                             => pc[d] \in {"enter", "lock", "encode", "gap"}
    BY <2>1, <2>2, <2>3, UnsentMoves
  <2> QED
    BY <2>4, <2>5, LedgerKept
<1>4. ASSUME NEW c \in Calls, WriteFails(c) PROVE LedgerInv'
  BY <1>4, LedgerMoves DEF WriteFails, GiveUp
<1>5. ASSUME NEW c \in Calls, WriteByte(c) PROVE LedgerInv'
  BY <1>5, LedgerWrite
<1>6. ASSUME NEW c \in Calls, PaceElapses(c) PROVE LedgerInv'
  BY <1>6, LedgerMoves DEF PaceElapses
<1>7. ASSUME NEW c \in Calls, PaceAborts(c) PROVE LedgerInv'
  BY <1>7, LedgerMoves DEF PaceAborts, GiveUp
<1>8. ASSUME NEW c \in Calls, AwaitAck(c) PROVE LedgerInv'
  BY <1>8, LedgerMoves DEF AwaitAck
<1>9. ASSUME NEW c \in Calls, AwaitTimeout(c) PROVE LedgerInv'
  BY <1>9, LedgerMoves DEF AwaitTimeout, GiveUp
<1>10. ASSUME NEW c \in Calls, AwaitAborts(c) PROVE LedgerInv'
  BY <1>10, LedgerMoves DEF AwaitAborts, EndsWithError, GiveUp
<1>11. ASSUME NEW c \in Calls, FrameReturns(c) PROVE LedgerInv'
  <2>1. CASE FallsBack(c) \/ HasNextNote(c)
    BY <1>11, <2>1, LedgerAdvances
  <2>2. CASE ~(FallsBack(c) \/ HasNextNote(c))
    BY <1>11, <2>2, LedgerMoves DEF FrameReturns
  <2> QED
    BY <2>1, <2>2
<1>12. ASSUME NEW c \in Calls, GapElapses(c) PROVE LedgerInv'
  BY <1>12, LedgerMoves DEF GapElapses
<1>13. ASSUME NEW c \in Calls, GapAborts(c) PROVE LedgerInv'
  BY <1>13, LedgerMoves DEF GapAborts
<1>14. ASSUME NEW c \in Calls, UnlockCmdMu(c) PROVE LedgerInv'
  BY <1>14, LedgerMoves DEF UnlockCmdMu
<1>15. CASE UNCHANGED <<callVars, chan, rx, rxHold, boardVars>>
  BY <1>15, LedgerKept DEF Unsent
<1>16. ASSUME NEW c \in Calls, Cancel(c) PROVE LedgerInv'
  BY <1>15, <1>16 DEF Cancel
<1>17. CASE RxSide
  <2>1. CASE RxLookup
    BY <2>1, LedgerLookup
  <2>2. CASE RxDeliver
    BY <2>2, LedgerDeliver
  <2>3. CASE RxLoses
    BY <2>3, LedgerLoses
  <2>4. CASE RxExits
    BY <1>15, <2>4 DEF RxExits
  <2> QED
    BY <1>17, <2>1, <2>2, <2>3, <2>4 DEF RxSide
<1>18. CASE Life
  BY <1>15, <1>18 DEF Life, MarkDead, Close, Unplug
<1>19. CASE BoardPlays \/ BoardRefuses
  <2>1. /\ pending \in Frames /\ pending # None /\ pending' = None
        /\ UNCHANGED <<pc, idx, sent, chan, rxHold, line>>
    BY <1>19 DEF BoardPlays, BoardRefuses, TypeOK
  <2>2. PICK p \in Frames : p = pending
    BY <2>1
  <2>3. p.call \in Calls /\ Owed(p)
    BY <2>2, FrameFacts DEF Owed
  <2>4. \A d \in Calls : Unsent(d)' <=> Unsent(d)
    BY <2>1 DEF Unsent
  <2>5. p \in OwnFrames =>
          /\ chan[p] = None
          /\ \A i \in DOMAIN rx : rx[i].of # p
          /\ rxHold # None => rxHold.ack.of # p
          /\ pending' # p /\ (line' = <<>> \/ ~InLine(p))
          /\ p.idx = idx[p.call] /\ ~Unsent(p.call)'
    <3>1. p \in OwnFrames => /\ chan[p] = None /\ ~InLine(p)
                             /\ \A i \in DOMAIN rx : rx[i].of # p
                             /\ rxHold # None => rxHold.ack.of # p
      BY <2>2, <2>3 DEF LedgerInv, DebtInv
    <3>2. p \in OwnFrames => p.idx = idx[p.call] /\ ~Unsent(p.call)
      BY <2>3 DEF LedgerInv, PresentInv
    <3> QED
      BY <2>1, <2>2, <2>3, <2>4, <3>1, <3>2
  <2>6. CASE BoardPlays
    <3>1. rx' = Append(rx, Reply(p, "ok"))
      BY <2>2, <2>6 DEF BoardPlays
    <3>2. Played \subseteq Played' /\ p \in Played'
      BY <2>2, <2>6, PlayedGrows
    <3> QED
      BY <2>1, <2>4, <2>5, <3>1, <3>2, LedgerAnswer DEF Codes
  <2>7. CASE BoardRefuses
    <3>1. PICK code \in {"unknown", "err"} : rx' = Append(rx, Reply(p, code))
      BY <2>2, <2>7 DEF BoardRefuses
    <3>2. Played' = Played /\ code \in Codes /\ code # "ok"
      BY <2>7 DEF BoardRefuses, Played, Codes
    <3> QED
      BY <2>1, <2>4, <2>5, <3>1, <3>2, LedgerAnswer
  <2> QED
    BY <1>19, <2>6, <2>7
<1>20. CASE BoardResets
  BY <1>20, LedgerKept DEF BoardResets, Unsent
<1>21. CASE UNCHANGED vars
  BY <1>15, <1>21 DEF vars
<1> QED
  BY <1>1, <1>2, <1>3, <1>4, <1>5, <1>6, <1>7, <1>8, <1>9, <1>10, <1>11, <1>12, <1>13, <1>14,
     <1>16, <1>17, <1>18, <1>19, <1>20, <1>21
  DEF Next, Caller, CallStep, Board, Quiet

-----------------------------------------------------------------------------
(* What the callers go by and what they report. *)

\* A step that brings no call to cleanup with a reply in hand.
LEMMA PaidKept ==
  ASSUME PaidInv, TypeOK, Played \subseteq Played',
         \A f \in Frames : chan[f] # None => chan'[f] # None,
         \A c \in Calls : (pc'[c] = "cleanup" /\ ret'[c] \in {"ok", "unknown"}) =>
           pc[c] = "cleanup" /\ ret'[c] = ret[c] /\ idx'[c] = idx[c]
  PROVE  PaidInv'
<1> SUFFICES ASSUME NEW c \in Calls, pc'[c] = "cleanup", ret'[c] \in {"ok", "unknown"}
             PROVE  chan'[Cur(c)'] # None /\ (ret'[c] = "ok" => Carried(Cur(c))')
  BY DEF PaidInv
<1>1. Cur(c)' = Cur(c) /\ Cur(c) \in Frames
  BY CurType DEF Cur
<1> QED
  BY <1>1 DEF PaidInv, Carried

LEMMA PaidNext ==
  ASSUME TypeOK, LedgerInv, PaidInv, [Next]_vars
  PROVE  PaidInv'
<1> USE DEF callVars, lifeVars, rxVars, boardVars, Goto
<1>0. Played \subseteq Played'
  BY PlayedGrows
<1> DEFINE Kept == \A d \in Calls : (pc'[d] = "cleanup" /\ ret'[d] \in {"ok", "unknown"}) =>
                     pc[d] = "cleanup" /\ ret'[d] = ret[d] /\ idx'[d] = idx[d]
<1>1. ASSUME Kept, chan' = chan PROVE PaidInv'
  BY <1>0, <1>1, PaidKept
<1> HIDE DEF Kept
\* A caller goes to another label, or gives up with an error.
<1>2. ASSUME NEW c \in Calls, NEW l \in PCs \ {"cleanup"}, pc' = [pc EXCEPT ![c] = l],
             \A d \in Calls \ {c} : ret'[d] = ret[d] /\ idx'[d] = idx[d], chan' = chan
      PROVE  PaidInv'
  <2>1. Kept
    BY <1>2 DEF Kept, TypeOK
  <2> QED
    BY <1>1, <1>2, <2>1
<1>3. ASSUME NEW c \in Calls, GiveUp(c), UNCHANGED <<idx, chan>> PROVE PaidInv'
  <2>1. Kept
    BY <1>3 DEF Kept, GiveUp, TypeOK
  <2> QED
    BY <1>1, <1>3, <2>1
<1>4. ASSUME NEW c \in Calls, AwaitAck(c) PROVE PaidInv'
  <2>1. /\ pc' = [pc EXCEPT ![c] = "cleanup"] /\ ret' = [ret EXCEPT ![c] = chan[Cur(c)].code]
        /\ chan[Cur(c)] # None /\ UNCHANGED <<idx, chan, played>>
    BY <1>4 DEF AwaitAck, Outcome
  <2>2. Cur(c) \in Frames /\ \A d \in Calls : Cur(d)' = Cur(d)
    BY <2>1, CurType DEF Cur
  <2>3. chan[Cur(c)].code = "ok" => Carried(Cur(c))
    BY <2>1, <2>2 DEF LedgerInv, ReplyInv, Belongs, Honest, Carried
  <2>4. \A d \in Calls \ {c} : pc'[d] = pc[d] /\ ret'[d] = ret[d]
    BY <2>1 DEF TypeOK
  <2>5. ret'[c] = chan[Cur(c)].code
    BY <2>1 DEF TypeOK
  <2>6. Played' = Played
    BY <2>1 DEF Played
  <2> QED
    BY <2>1, <2>2, <2>3, <2>4, <2>5, <2>6 DEF PaidInv, Carried
<1>5. ASSUME NEW c \in Calls, CallStep(c) PROVE PaidInv'
  <2>1. CASE SendCommand(c) \/ Register(c) \/ GapElapses(c) \/ GapAborts(c) \/ UnlockCmdMu(c)
             \/ FrameReturns(c)
    BY <1>2, <2>1 DEF SendCommand, Register, GapElapses, GapAborts, UnlockCmdMu, FrameReturns,
                      PCs, TypeOK
  <2>2. CASE WriteByte(c) \/ PaceElapses(c)
    BY <1>2, <2>2 DEF WriteByte, PaceElapses, PCs
  <2>3. CASE WriteFails(c) \/ PaceAborts(c) \/ AwaitTimeout(c) \/ AwaitAborts(c)
    BY <1>3, <2>3 DEF WriteFails, PaceAborts, AwaitTimeout, AwaitAborts, EndsWithError
  <2> QED
    BY <1>4, <1>5, <2>1, <2>2, <2>3 DEF CallStep
<1>6. ASSUME NEW c \in Calls, LockCmdMu(c) PROVE PaidInv'
  BY <1>2, <1>6 DEF LockCmdMu, PCs
<1>7. CASE UNCHANGED <<pc, idx, ret, chan>>
  <2>1. Kept
    BY <1>7 DEF Kept
  <2> QED
    BY <1>1, <1>7, <2>1
<1>8. CASE RxDeliver
  <2>1. /\ rxHold # None /\ rxHold.chan \in Frames /\ rxHold.ack \in Replies
        /\ chan' = [chan EXCEPT ![rxHold.chan] = IF @ = None THEN rxHold.ack ELSE @]
        /\ UNCHANGED <<pc, idx, ret>>
    BY <1>8 DEF RxDeliver, TypeOK
  <2>2. \A f \in Frames : chan[f] # None => chan'[f] # None
    BY <2>1 DEF TypeOK
  <2> QED
    BY <1>0, <2>1, <2>2, PaidKept
<1>9. CASE (\E c \in Calls : Cancel(c)) \/ RxLookup \/ RxLoses \/ RxExits \/ Life \/ Board
           \/ UNCHANGED vars
  BY <1>7, <1>9 DEF Cancel, RxLookup, RxLoses, RxExits, Life, MarkDead, Close, Unplug, Board,
                    BoardPlays, BoardRefuses, BoardResets, vars
<1> QED
  BY <1>5, <1>6, <1>8, <1>9 DEF Next, Caller, RxSide, Quiet

LEMMA TruthInit == Init => PaidInv /\ TruthInv
<1> SUFFICES ASSUME Init PROVE PaidInv /\ TruthInv
  OBVIOUS
<1>1. \A c \in Calls : pc[c] = "enter" /\ result[c] = "none"
  BY DEF Init
<1>2. \A c \in Calls : \A i \in 1..(idx[c] - 1) : FALSE
  <2>1. ASSUME NEW c \in Calls, NEW i \in 1..(idx[c] - 1) PROVE FALSE
    <3>1. idx[c] = 0 \/ idx[c] = 1
      BY DEF Init, FirstIdx
    <3> QED
      BY <3>1, <2>1
  <2> QED
    BY <2>1
<1>3. \A c \in Calls : \A i \in 1..(idx[c] - 1) : Carried([call |-> c, idx |-> i])
  BY <1>2
<1>4. PaidInv
  BY <1>1 DEF PaidInv
<1> QED
  BY <1>1, <1>3, <1>4 DEF TruthInv, SuccessVouched

\* What is carried out stays so, and with it what vouches for a call.
LEMMA CarriedStays ==
  ASSUME Played \subseteq Played', NEW f, Carried(f)
  PROVE  Carried(f)'
  BY DEF Carried

LEMMA VouchedStays ==
  ASSUME Played \subseteq Played', NEW c \in Calls, Vouched(c)
  PROVE  Vouched(c)'
  BY CarriedStays DEF Vouched, Notes

LEMMA VouchedSame ==
  ASSUME played' = played
  PROVE  (\A f : Carried(f)' <=> Carried(f)) /\ (\A c \in Calls : Vouched(c)' <=> Vouched(c))
<1>1. \A f : Carried(f)' <=> Carried(f)
  BY DEF Carried, Played
<1> QED
  BY <1>1 DEF Vouched, Notes

\* A step that makes no new claim.
LEMMA TruthKept ==
  ASSUME TruthInv, Played \subseteq Played', idx' = idx,
         \A c \in Calls : (pc'[c] = "unlock" /\ ret'[c] = "ok") => (pc[c] = "unlock" /\ ret[c] = "ok"),
         \A c \in Calls : result'[c] = "SUCCEEDED" => result[c] = "SUCCEEDED"
  PROVE  TruthInv'
<1>1. \A c \in Calls : \A i \in 1..(idx'[c] - 1) : Carried([call |-> c, idx |-> i])'
  BY CarriedStays DEF TruthInv
<1>2. \A c \in Calls : (pc'[c] = "unlock" /\ ret'[c] = "ok") => Vouched(c)'
  BY VouchedStays DEF TruthInv
<1>3. SuccessVouched'
  BY VouchedStays DEF TruthInv, SuccessVouched
<1> QED
  BY <1>1, <1>2, <1>3 DEF TruthInv

\* A frame is done: the call advances past a performed note, or returns.
LEMMA TruthFrameReturns ==
  ASSUME TypeOK, ControlInv, PaidInv, TruthInv, NEW c \in Calls, FrameReturns(c)
  PROVE  TruthInv'
<1>1. pc[c] = "cleanup" /\ UNCHANGED <<ret, result, played>> /\ Played' = Played
      /\ idx[c] \in 0..MaxNotes /\ NoteCount[c] \in 0..MaxNotes
  BY DEF FrameReturns, boardVars, Played, TypeOK
<1>2. (\A f : Carried(f)' <=> Carried(f)) /\ (\A d \in Calls : Vouched(d)' <=> Vouched(d))
  BY <1>1, VouchedSame
<1>3. SuccessVouched'
  BY <1>1, <1>2 DEF TruthInv, SuccessVouched
<1>4. ret[c] = "ok" => Carried(Cur(c))
  BY <1>1 DEF PaidInv
<1>5. CASE FallsBack(c) \/ HasNextNote(c)
  <2>1. /\ idx' = [idx EXCEPT ![c] = @ + 1]
        /\ \E l \in {"gap", "encode"} : pc' = [pc EXCEPT ![c] = l]
    BY <1>5 DEF FrameReturns, Goto
  <2>2. \A d \in Calls : (pc'[d] = "unlock" /\ ret'[d] = "ok") => Vouched(d)'
    BY <1>1, <1>2, <2>1 DEF TruthInv, TypeOK
  <2>3. ASSUME NEW d \in Calls, NEW i \in 1..(idx'[d] - 1)
        PROVE  Carried([call |-> d, idx |-> i])'
    <3>1. CASE d # c \/ i \in 1..(idx[c] - 1)
      BY <1>1, <1>2, <2>1, <2>3, <3>1 DEF TruthInv, TypeOK
    <3>2. CASE d = c /\ i \notin 1..(idx[c] - 1)
      <4>1. idx'[c] = idx[c] + 1 /\ i = idx[c] /\ idx[c] >= 1
        BY <1>1, <2>1, <2>3, <3>2 DEF TypeOK
      <4>2. HasNextNote(c)
        BY <1>5, <4>1 DEF FallsBack, OnSong
      <4> QED
        BY <1>2, <1>4, <3>2, <4>1, <4>2 DEF HasNextNote, Cur
    <3> QED
      BY <3>1, <3>2
  <2> QED
    BY <1>3, <2>2, <2>3 DEF TruthInv
<1>6. CASE ~(FallsBack(c) \/ HasNextNote(c))
  <2>1. pc' = [pc EXCEPT ![c] = "unlock"] /\ idx' = idx
    BY <1>6 DEF FrameReturns, Goto
  <2>2. ASSUME ret[c] = "ok" PROVE Vouched(c)
    <3>1. Carried(Cur(c))
      BY <1>4, <2>2
    <3>2. CASE idx[c] = 0
      BY <3>1, <3>2 DEF ControlInv, IndexInv, Vouched, Cur
    <3>3. CASE idx[c] # 0
      <4>1. Kind[c] # "cmd" /\ idx[c] = NoteCount[c]
        BY <1>1, <1>6, <2>2, <3>3 DEF HasNextNote, ControlInv, IndexInv
      <4>2. \A i \in 1..NoteCount[c] : i \in 1..(idx[c] - 1) \/ i = idx[c]
        BY <1>1, <4>1
      <4>3. \A f \in Notes(c) : Carried(f)
        BY <3>1, <4>2 DEF TruthInv, Notes, Cur
      <4> QED
        BY <4>1, <4>3 DEF Vouched
    <3> QED
      BY <3>2, <3>3
  <2>3. \A d \in Calls : (pc'[d] = "unlock" /\ ret'[d] = "ok") => Vouched(d)'
    BY <1>1, <1>2, <2>1, <2>2 DEF TruthInv, TypeOK
  <2> QED
    BY <1>2, <1>3, <2>1, <2>3 DEF TruthInv
<1> QED
  BY <1>5, <1>6

LEMMA TruthNext ==
  ASSUME TypeOK, ControlInv, PaidInv, TruthInv, [Next]_vars
  PROVE  TruthInv'
<1> USE DEF callVars, lifeVars, rxVars, boardVars, Goto
<1>0. Played \subseteq Played'
  BY PlayedGrows
\* A caller goes to another label, or returns an error, and reports nothing.
<1>1. ASSUME NEW c \in Calls, NEW l \in PCs, pc' = [pc EXCEPT ![c] = l],
             \A d \in Calls \ {c} : ret'[d] = ret[d],
             l # "unlock" \/ ret'[c] = "err", UNCHANGED <<idx, result>>
      PROVE  TruthInv'
  <2>1. \A d \in Calls : (pc'[d] = "unlock" /\ ret'[d] = "ok") => (pc[d] = "unlock" /\ ret[d] = "ok")
    BY <1>1 DEF TypeOK
  <2> QED
    BY <1>0, <1>1, <2>1, TruthKept
<1>2. ASSUME NEW c \in Calls, CallStep(c) PROVE TruthInv'
  <2>1. CASE SendCommand(c)
    <3>1. UNCHANGED <<ret, idx>> /\ \E l \in {"end", "lock"} : pc' = [pc EXCEPT ![c] = l]
      BY <2>1 DEF SendCommand
    <3>2. \A d \in Calls : pc'[d] = "unlock" => pc[d] = "unlock"
      BY <3>1 DEF TypeOK
    <3>3. \A d \in Calls : result'[d] = "SUCCEEDED" => result[d] = "SUCCEEDED"
      BY <2>1 DEF SendCommand, TypeOK
    <3> QED
      BY <1>0, <3>1, <3>2, <3>3, TruthKept
  <2>2. CASE Register(c)
    <3>1. PICK l \in {"unlock", "write"} :
            pc' = [pc EXCEPT ![c] = l] /\ (l = "unlock" => ret' = [ret EXCEPT ![c] = "err"])
      BY <2>2 DEF Register
    <3>2. \A d \in Calls \ {c} : ret'[d] = ret[d]
      BY <2>2 DEF Register, TypeOK
    <3> QED
      BY <1>1, <2>2, <3>1, <3>2 DEF Register, PCs, TypeOK
  <2>3. CASE GapAborts(c)
    BY <1>1, <2>3 DEF GapAborts, PCs, TypeOK
  <2>4. CASE WriteFails(c) \/ PaceAborts(c) \/ AwaitAck(c) \/ AwaitTimeout(c) \/ AwaitAborts(c)
    <3>1. pc' = [pc EXCEPT ![c] = "cleanup"] /\ UNCHANGED <<idx, result>>
      BY <2>4 DEF WriteFails, PaceAborts, AwaitAck, AwaitTimeout, AwaitAborts, EndsWithError, GiveUp
    <3>2. \A d \in Calls \ {c} : ret'[d] = ret[d]
      BY <2>4 DEF WriteFails, PaceAborts, AwaitAck, AwaitTimeout, AwaitAborts, EndsWithError,
                  GiveUp, TypeOK
    <3> QED
      BY <1>1, <3>1, <3>2 DEF PCs
  <2>5. CASE WriteByte(c) \/ PaceElapses(c) \/ GapElapses(c)
    BY <1>1, <2>5 DEF WriteByte, PaceElapses, GapElapses, PCs
  <2>6. CASE FrameReturns(c)
    BY <2>6, TruthFrameReturns
  <2>7. CASE UnlockCmdMu(c)
    <3>1. /\ pc[c] = "unlock" /\ pc' = [pc EXCEPT ![c] = "end"] /\ UNCHANGED <<idx, ret, played>>
          /\ result' = [result EXCEPT ![c] = IF ret[c] = "ok" THEN "SUCCEEDED" ELSE "FAILED"]
      BY <2>7 DEF UnlockCmdMu
    <3>2. (\A f : Carried(f)' <=> Carried(f)) /\ (\A d \in Calls : Vouched(d)' <=> Vouched(d))
      BY <3>1, VouchedSame
    <3>3. \A d \in Calls : (pc'[d] = "unlock" /\ ret'[d] = "ok") => Vouched(d)'
      BY <3>1, <3>2 DEF TruthInv, TypeOK
    <3>4. SuccessVouched'
      BY <3>1, <3>2 DEF TruthInv, SuccessVouched, TypeOK
    <3>5. \A d \in Calls : \A i \in 1..(idx'[d] - 1) : Carried([call |-> d, idx |-> i])'
      BY <3>1, <3>2 DEF TruthInv
    <3> QED
      BY <3>3, <3>4, <3>5 DEF TruthInv
  <2> QED
    BY <1>2, <2>1, <2>2, <2>3, <2>4, <2>5, <2>6, <2>7 DEF CallStep
<1>3. ASSUME NEW c \in Calls, LockCmdMu(c) PROVE TruthInv'
  BY <1>1, <1>3 DEF LockCmdMu, PCs
<1>4. CASE UNCHANGED <<pc, idx, ret, result>>
  BY <1>0, <1>4, TruthKept
<1>5. CASE (\E c \in Calls : Cancel(c)) \/ RxSide \/ Life \/ Board \/ UNCHANGED vars
  BY <1>4, <1>5 DEF Cancel, RxSide, RxLookup, RxDeliver, RxLoses, RxExits, Life, MarkDead, Close,
                    Unplug, Board, BoardPlays, BoardRefuses, BoardResets, vars
<1> QED
  BY <1>2, <1>3, <1>5 DEF Next, Caller, Quiet

\* The invariant that carries the proof is kept by every step, whatever ids the
\* calls have on the wire.
THEOREM Induction == Spec => []IndInv
<1>1. Init => IndInv
  BY TypeInit, ControlInit, LedgerInit, TruthInit DEF IndInv, ControlInv, LedgerInv
<1>2. IndInv /\ [Next]_vars => IndInv'
  <2> SUFFICES ASSUME IndInv, [Next]_vars PROVE IndInv'
    OBVIOUS
  <2>1. TypeOK /\ SentInv /\ ControlInv /\ LedgerInv /\ PaidInv /\ TruthInv
    BY DEF IndInv, ControlInv, LedgerInv
  <2> QED
    BY <2>1, TypeNext, ControlNext, LedgerNext, PaidNext, TruthNext
    DEF IndInv, ControlInv, LedgerInv
<1> QED
  BY <1>1, <1>2, PTL DEF Spec

\* A call that ends SUCCEEDED and has its id for itself was carried out by the
\* board, whatever is lost, late, torn or cancelled, and whatever ids the other
\* calls share; of a call that shares its id, as the syncs of a Watch do, some
\* command of that id was carried out (device.go:314, README.md:103).
THEOREM SuccessVouchedHolds == Spec => []SuccessVouched
<1>1. IndInv => SuccessVouched
  BY DEF IndInv, TruthInv
<1> QED
  BY <1>1, Induction, PTL

\* What vouches for a call with an id of its own is that it was performed.
LEMMA OwnVouched == ASSUME NEW c \in OwnCalls, Vouched(c) PROVE Performed(c)
<1>1. c \in Calls /\ NoteCount[c] \in 0..MaxNotes /\ 0 \in 0..MaxNotes
  BY OwnFacts
<1>2. \A i \in 0..MaxNotes : Carried([call |-> c, idx |-> i]) => [call |-> c, idx |-> i] \in Played
  BY <1>1, OwnFacts, FrameFacts DEF Carried
<1>3. \A f \in Notes(c) : \E i \in 0..MaxNotes : f = [call |-> c, idx |-> i]
  BY <1>1 DEF Notes
<1> QED
  BY <1>1, <1>2, <1>3 DEF Vouched, Performed

\* What SuccessVouched says of a call with an id of its own: it is what the
\* README says of every command (README.md:103).
THEOREM OwnSuccessIsTrue ==
  Spec => [](\A c \in OwnCalls : result[c] = "SUCCEEDED" => Performed(c))
<1>1. SuccessVouched => \A c \in OwnCalls : result[c] = "SUCCEEDED" => Performed(c)
  BY OwnFacts, OwnVouched DEF SuccessVouched
<1> QED
  BY <1>1, SuccessVouchedHolds, PTL

\* No waiter outlives its command, and this owes nothing to the ids
\* (device.go:288, device.go:291).
THEOREM WaiterOwnedHolds == Spec => []WaiterOwned
<1> DEFINE Inv == TypeOK /\ SentInv /\ ControlInv
<1>1. Init => Inv
  BY TypeInit, ControlInit
<1>2. Inv /\ [Next]_vars => Inv'
  BY TypeNext, ControlNext
<1>3. Inv => WaiterOwned
  <2> SUFFICES ASSUME Inv, NEW w \in WireIds, waiters[w] # None
               PROVE  /\ waiters[w].call = cmdMu /\ waiters[w] = Cur(cmdMu)
                      /\ pc[cmdMu] \in {"write", "pace", "await", "cleanup"}
    BY DEF WaiterOwned
  <2> QED
    BY DEF ControlInv, LockInv
<1> QED
  BY <1>1, <1>2, <1>3, PTL DEF Spec
=============================================================================
