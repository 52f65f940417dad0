--------------------------- MODULE StcbCommandInv ---------------------------
(***************************************************************************)
(* Why SuccessVouched holds: the inductive invariant of StcbCommand.       *)
(*                                                                         *)
(* The board owes at most one reply for each frame.  The debt of a frame   *)
(* is in one place at a time: in bytes of the line buffer, in the pending  *)
(* slot, in transit, in the hands of the RX loop or in the channel of the  *)
(* waiter, and a call goes on to its next frame only after the debt of the *)
(* present one has been paid into its channel.  So no reply of an earlier  *)
(* frame can be taken for one of the frame that waits, even though the     *)
(* frames of one call may share their wire id.  All this is so for a call  *)
(* whose ids no other call uses; a call that shares its id may take        *)
(* another's reply, and disturbs nobody else.                              *)
(***************************************************************************)
EXTENDS StcbCommand

\* The next byte to write is one of the frame.
SentInv == \A c \in Calls : pc[c] = "write" => sent[c] < FrameLen

\* Between Lock and Unlock of cmdMu.
Critical == {"encode", "write", "pace", "await", "cleanup", "gap", "unlock"}

\* cmdMu is exclusive, and the only waiter is that of its holder's frame.
LockInv ==
  /\ \A c \in Calls : pc[c] \in Critical => cmdMu = c
  /\ \A w \in WireIds : waiters[w] # None =>
       /\ waiters[w] = Cur(waiters[w].call)
       /\ waiters[w].call = cmdMu
       /\ WireId[waiters[w]] = w
       /\ pc[waiters[w].call] \in {"write", "pace", "await", "cleanup"}

\* Where call c is in its sequence.
IndexInv ==
  \A c \in Calls :
    /\ Kind[c] = "notes" => idx[c] >= 1
    /\ Kind[c] = "cmd" => idx[c] = 0
    /\ Kind[c] # "cmd" => idx[c] <= NoteCount[c]

\* The last byte of the present frame has not been sent yet.
Unsent(c) ==
  \/ pc[c] \in {"enter", "lock", "encode", "gap"}
  \/ pc[c] \in {"write", "pace"} /\ sent[c] < FrameLen

\* A reply for frame f is still to come to the waiter.
Owed(f) ==
  \/ pending = f
  \/ \E i \in DOMAIN rx : rx[i].of = f
  \/ rxHold # None /\ rxHold.ack.of = f

InLine(f) == \E i \in DOMAIN line : line[i].frame = f

\* One debt for each frame of a call with its own id, in one place.
DebtInv ==
  \A f \in OwnFrames :
    /\ \A i, j \in DOMAIN rx : rx[i].of = f /\ rx[j].of = f => i = j
    /\ rxHold # None /\ rxHold.ack.of = f => \A i \in DOMAIN rx : rx[i].of # f
    /\ pending = f => /\ \A i \in DOMAIN rx : rx[i].of # f
                      /\ rxHold # None => rxHold.ack.of # f
    /\ chan[f] # None => ~Owed(f)
    /\ InLine(f) => ~Owed(f) /\ chan[f] = None

\* Only the present frame of such a call can have a debt, and only once it is sent.
PresentInv ==
  \A f \in OwnFrames :
    /\ Owed(f) => f.idx = idx[f.call] /\ ~Unsent(f.call)
    /\ InLine(f) => f.idx = idx[f.call] /\ pc[f.call] \notin {"enter", "lock", "encode", "gap"}
    /\ chan[f] # None => f.idx < idx[f.call] \/ (f.idx = idx[f.call] /\ ~Unsent(f.call))

\* A reply is what it says, it is in a channel of its id, and where the id is
\* the call's own it is in the channel of its own frame.
Honest(r) == r.id = WireId[r.of] /\ (r.code = "ok" => r.of \in Played)
Belongs(r, f) == Honest(r) /\ r.id = WireId[f] /\ (f \in OwnFrames => r.of = f)

ReplyInv ==
  /\ \A i \in DOMAIN rx : Honest(rx[i])
  /\ rxHold # None => Belongs(rxHold.ack, rxHold.chan)
  /\ \A f \in Frames : chan[f] # None => Belongs(chan[f], f)

\* A reply that lets the call go on is in the channel of the present frame.
PaidInv ==
  \A c \in Calls : (pc[c] = "cleanup" /\ ret[c] \in {"ok", "unknown"}) =>
    chan[Cur(c)] # None /\ (ret[c] = "ok" => Carried(Cur(c)))

\* What a call claims is vouched for.
TruthInv ==
  /\ \A c \in Calls : \A i \in 1..(idx[c] - 1) : Carried([call |-> c, idx |-> i])
  /\ \A c \in Calls : (pc[c] = "unlock" /\ ret[c] = "ok") => Vouched(c)
  /\ SuccessVouched

\* The inductive invariant of the command path.
IndInv == /\ TypeOK /\ SentInv /\ LockInv /\ IndexInv
          /\ DebtInv /\ PresentInv /\ ReplyInv /\ PaidInv /\ TruthInv

-----------------------------------------------------------------------------
(***************************************************************************)
(* Why the bytes of two calls never mix: a frame that is under way and not *)
(* torn has its bytes in the line, and a line without a torn frame is just *)
(* those bytes.                                                            *)
(***************************************************************************)

Sending(c) == pc[c] \in {"write", "pace"} /\ sent[c] < FrameLen

\* The line is what call c has sent of its present frame.
Prefix(c) ==
  /\ Sending(c) /\ Len(line) = sent[c]
  /\ \A i \in DOMAIN line : line[i] = [frame |-> Cur(c), k |-> i]

Untorn == \A i \in DOMAIN line : line[i].frame \notin torn

\* Only the holder's frame can be in a line that holds no torn frame.
LineInv ==
  /\ \A c \in Calls : pc[c] \in Critical => cmdMu = c
  /\ line # <<>> /\ Untorn => cmdMu # None /\ Prefix(cmdMu)
  /\ \A c \in Calls : Sending(c) /\ sent[c] > 0 /\ Cur(c) \notin torn => InLine(Cur(c))

-----------------------------------------------------------------------------
(***************************************************************************)
(* Why a sequence is one unbroken run: a frame is carried out once; a song *)
(* that was refused is not carried out any more; and while a note is due,  *)
(* its predecessor is the last thing the board did and no other command is *)
(* waiting in the pending slot.  The slot matters because a call that gave *)
(* up may leave its frame there for a later call to meet.                  *)
(***************************************************************************)

\* Frame f was the last thing that the board carried out.
OnTop(f) == played # <<>> /\ played[Len(played)] = f

\* What was carried out is behind its call, and does not come back.
OnceInv ==
  \A f \in Played \cap OwnFrames :
    /\ f.idx < idx[f.call] \/ (f.idx = idx[f.call] /\ ~Unsent(f.call))
    /\ pending # f /\ ~InLine(f)

\* "unknown" means that the frame was not carried out.
Refuses(r) == r.code = "unknown" /\ r.of \in OwnFrames => r.of \notin Played

RefusedInv ==
  /\ \A i \in DOMAIN rx : Refuses(rx[i])
  /\ rxHold # None => Refuses(rxHold.ack)
  /\ \A f \in Frames : chan[f] # None => Refuses(chan[f])
  /\ \A c \in OwnCalls :
       /\ pc[c] = "cleanup" /\ ret[c] = "unknown" => Cur(c) \notin Played
       /\ idx[c] >= 1 => [call |-> c, idx |-> 0] \notin Played

\* The present frame of c may still be carried out.
Due(c) == pending = Cur(c) \/ (pc[c] \in Critical /\ Unsent(c))

RunInv ==
  \A c \in Calls :
    /\ pc[c] \in {"enter", "lock"} => idx[c] <= 1
    /\ c \in OwnCalls /\ pc[c] \in Critical /\ Cur(c) \in Played => pending = None /\ OnTop(Cur(c))
    /\ c \in OwnCalls /\ idx[c] >= 2 /\ Due(c) =>
         /\ pending \in {None, Cur(c)}
         /\ OnTop([call |-> c, idx |-> idx[c] - 1])

\* A call reports when it ends.
ReportInv == \A c \in Calls : result[c] # "none" => pc[c] = "end"

\* What has to be added to IndInv for the contract and SequenceUnbroken.
ContractInv == OnceInv /\ RefusedInv /\ RunInv /\ ReportInv /\ SequenceUnbroken
=============================================================================
