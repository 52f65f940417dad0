----------------------------- MODULE StcbCommand -----------------------------
(***************************************************************************)
(* One open STC-B board and the goroutines that send it Protocol v1        *)
(* commands: plugin/device.go (sendV1Command, writeSlow, the RX loop and   *)
(* the death of the port) and plugin/music.go (tone-sequence).             *)
(*                                                                         *)
(* A call is one invocation of device.sendCommand: an Execute handler, or  *)
(* the sync that a Watch sends with its own 4 s context.  A call transmits *)
(* frames one after the other: frame 0 is the single command or the native *)
(* song, frames 1..n are the notes of a tone-sequence.                     *)
(*                                                                         *)
(* The board is external.  It is modelled from what the driver's comments, *)
(* tests and README rely on: a line buffer that consumes one byte at a     *)
(* time, one pending-ACK slot, at most one reply for each line, and a late *)
(* reply being possible.  Bytes reach the board when port.Write returns    *)
(* (the 20 ms pacing is longer than a byte on the wire); replies travel    *)
(* through rx and may be arbitrarily late.                                 *)
(***************************************************************************)
EXTENDS Naturals, Sequences

CONSTANTS
  Calls,      \* invocations of sendCommand on this device
  Kind,       \* Kind[c]: "cmd", "song" (notes match a native song) or "notes"
  NoteCount,  \* NoteCount[c]: notes of the sequence (0 for "cmd")
  MaxNotes,   \* bound of NoteCount
  WireIds,    \* the ids that can appear on the line
  WireId,     \* WireId[f]: the first 11 bytes of the id of frame f (the frames
              \* that a call never sends have the id of its first)
  FrameLen,   \* bytes of a frame; the last one is the end of line
  BadArgs,    \* calls whose arguments fail validation
  BadId,      \* calls whose id holds ':', CR, LF or NUL
  Gapped,     \* sequences with gap_ms > 0
  Faults,     \* which environment faults may happen
  None        \* no call, no frame, no channel, no reply

Frames == [call: Calls, idx: 0..MaxNotes]
Codes  == {"ok", "unknown", "err"}
\* A reply line as parsed by ParseDeviceAck; `of` is a ghost: the frame that
\* the board was answering.
Replies == [id: WireIds, of: Frames, code: Codes]
Bytes   == [frame: Frames, k: 1..FrameLen]

FaultKinds == {"cancel", "byteloss", "replyloss", "reset", "unplug", "close", "openctx"}

ASSUME CallsAssumption  == /\ Kind \in [Calls -> {"cmd", "song", "notes"}]
                           /\ MaxNotes \in Nat
                           /\ NoteCount \in [Calls -> 0..MaxNotes]
                           /\ \A c \in Calls : Kind[c] # "cmd" => NoteCount[c] >= 1
                           /\ \A c \in Gapped : Kind[c] = "notes"
ASSUME WireAssumption   == /\ WireId \in [Frames -> WireIds]
                           /\ FrameLen \in Nat /\ FrameLen >= 2
ASSUME NoneAssumption   == None \notin Calls /\ None \notin Frames /\ None \notin Replies
ASSUME SubsetAssumption == /\ BadArgs \subseteq Calls
                           /\ BadId \subseteq Calls
                           /\ Gapped \subseteq Calls
                           /\ Faults \subseteq FaultKinds

VARIABLES
  pc, idx, sent, ret, result, ctxDone,      \* the calling goroutines
  cmdMu, waiters, chan,                     \* shared by callers and RX loop
  dead, done, killer, port, closer,         \* life of the port
  rx, rxLoop, rxHold,                       \* replies in transit, the RX loop
  line, pending, played,                    \* the board
  torn                                      \* ghost: frames not sent whole

callVars  == <<pc, idx, sent, ret, result>>
lifeVars  == <<dead, done, killer, port, closer>>
rxVars    == <<rx, rxLoop, rxHold>>
boardVars == <<line, pending, played>>
vars == <<pc, idx, sent, ret, result, ctxDone, cmdMu, waiters, chan, dead, done, killer,
          port, closer, rx, rxLoop, rxHold, line, pending, played, torn>>

PCs == {"enter", "lock", "encode", "write", "pace", "await", "cleanup", "gap", "unlock", "end"}

TypeOK ==
  /\ pc \in [Calls -> PCs]
  /\ idx \in [Calls -> 0..MaxNotes]
  /\ sent \in [Calls -> 0..FrameLen]
  /\ ret \in [Calls -> Codes \cup {"none"}]
  /\ result \in [Calls -> {"none", "SUCCEEDED", "FAILED"}]
  /\ ctxDone \in [Calls -> BOOLEAN]
  /\ cmdMu \in Calls \cup {None}
  /\ waiters \in [WireIds -> Frames \cup {None}]
  /\ chan \in [Frames -> Replies \cup {None}]
  /\ dead \in BOOLEAN /\ done \in BOOLEAN /\ port \in BOOLEAN
  /\ killer \in {"idle", "mark", "close", "over"}
  /\ closer \in {"idle", "port", "over"}
  /\ rx \in Seq(Replies)
  /\ rxLoop \in {"run", "exit"}
  /\ rxHold \in [chan: Frames, ack: Replies] \cup {None}
  /\ line \in Seq(Bytes)
  /\ pending \in Frames \cup {None}
  /\ played \in Seq(Frames)
  /\ torn \subseteq Frames

\* The frame that call c is at; a fresh channel is made for each frame.
Cur(c) == [call |-> c, idx |-> idx[c]]
OnSong(c) == Kind[c] = "song" /\ idx[c] = 0
FirstIdx(c) == IF Kind[c] = "notes" THEN 1 ELSE 0

Init ==
  /\ pc = [c \in Calls |-> "enter"]
  /\ idx = [c \in Calls |-> FirstIdx(c)]
  /\ sent = [c \in Calls |-> 0]
  /\ ret = [c \in Calls |-> "none"]
  /\ result = [c \in Calls |-> "none"]
  /\ ctxDone = [c \in Calls |-> FALSE]
  /\ cmdMu = None
  /\ waiters = [w \in WireIds |-> None]
  /\ chan = [f \in Frames |-> None]
  /\ dead = FALSE /\ done = FALSE /\ port = TRUE
  /\ killer = "idle" /\ closer = "idle"
  /\ rx = <<>> /\ rxLoop = "run" /\ rxHold = None
  /\ line = <<>> /\ pending = None /\ played = <<>>
  /\ torn = {}

-----------------------------------------------------------------------------
(* The board (external). *)

Reply(f, code) == [id |-> WireId[f], of |-> f, code |-> code]

\* The line buffer after one more byte, and what the board does at the end of
\* a line: take the command, refuse it as busy, or make nothing of a line that
\* is not exactly one frame (it then stays silent, or answers ERR with the id of
\* some frame that is in the line).
Whole(f) == [k \in 1..FrameLen |-> [frame |-> f, k |-> k]]

BoardReceives(b) ==
  LET l == Append(line, b) IN
  IF b.k < FrameLen
  THEN line' = l /\ UNCHANGED <<pending, rx>>
  ELSE /\ line' = <<>>
       /\ \/ l = Whole(b.frame) /\ pending = None
             /\ pending' = b.frame /\ UNCHANGED rx
          \/ l = Whole(b.frame) /\ pending # None
             /\ rx' = Append(rx, Reply(b.frame, "err")) /\ UNCHANGED pending
          \/ l # Whole(b.frame)
             /\ \/ UNCHANGED rx
                \/ \E i \in DOMAIN l, code \in {"unknown", "err"} :
                     rx' = Append(rx, Reply(l[i].frame, code))
             /\ UNCHANGED pending

\* The pending command is carried out and acknowledged.
BoardPlays ==
  /\ pending # None
  /\ played' = Append(played, pending)
  /\ rx' = Append(rx, Reply(pending, "ok"))
  /\ pending' = None
  /\ UNCHANGED <<callVars, ctxDone, cmdMu, waiters, chan, lifeVars, rxLoop, rxHold, line, torn>>

\* The pending command is not carried out: ERR:<id>:unknown or another code.
BoardRefuses ==
  /\ pending # None
  /\ \E code \in {"unknown", "err"} : rx' = Append(rx, Reply(pending, code))
  /\ pending' = None
  /\ UNCHANGED <<callVars, ctxDone, cmdMu, waiters, chan, lifeVars, rxLoop, rxHold, line, played, torn>>

\* The board restarts and forgets what it was doing.
BoardResets ==
  /\ "reset" \in Faults
  /\ pending # None \/ line # <<>>
  /\ pending' = None /\ line' = <<>>
  /\ torn' = torn \cup {line[i].frame : i \in DOMAIN line}
  /\ UNCHANGED <<callVars, ctxDone, cmdMu, waiters, chan, lifeVars, rxVars, played>>

-----------------------------------------------------------------------------
(* A caller. *)

Goto(c, label) == pc' = [pc EXCEPT ![c] = label]

\* sendCommand on a v1 device; a tone-sequence parses its arguments before it
\* takes the lock.
ParsesArgs(c) == Kind[c] = "cmd" \/ c \notin BadArgs

SendCommand(c) ==
  /\ pc[c] = "enter"
  /\ IF ParsesArgs(c)
     THEN Goto(c, "lock") /\ UNCHANGED result
     ELSE Goto(c, "end") /\ result' = [result EXCEPT ![c] = "FAILED"]
  /\ UNCHANGED <<idx, sent, ret, ctxDone, cmdMu, waiters, chan, lifeVars, rxVars, boardVars, torn>>

\* cmdMu.Lock() waits for the holder; it does not look at the context.
NoLock(c)  == TRUE                          \* mutant: the lock is forgotten
MayLock(c) == cmdMu = None

LockCmdMu(c) ==
  /\ pc[c] = "lock"
  /\ MayLock(c)
  /\ cmdMu' = c
  /\ Goto(c, "encode")
  /\ UNCHANGED <<idx, sent, ret, result, ctxDone, waiters, chan, lifeVars, rxVars, boardVars, torn>>

\* encodeV1Command, then the waiter for the truncated id is registered.
EncodeFails(c) == c \in BadId \/ (Kind[c] = "cmd" /\ c \in BadArgs)

Register(c) ==
  /\ pc[c] = "encode"
  /\ IF EncodeFails(c)
     THEN /\ Goto(c, "unlock")
          /\ ret' = [ret EXCEPT ![c] = "err"]
          /\ UNCHANGED <<sent, waiters>>
     ELSE /\ Goto(c, "write")
          /\ waiters' = [waiters EXCEPT ![WireId[Cur(c)]] = Cur(c)]
          /\ sent' = [sent EXCEPT ![c] = 0]
          /\ ret' = [ret EXCEPT ![c] = "none"]
  /\ UNCHANGED <<idx, result, ctxDone, cmdMu, chan, lifeVars, rxVars, boardVars, torn>>

\* The frame is given up with an error.
GiveUp(c) ==
  /\ Goto(c, "cleanup")
  /\ ret' = [ret EXCEPT ![c] = "err"]

\* device.write of the next byte: fails on a dead device, and on a port whose
\* Write fails, which also starts `go markDead()`.
WriteFails(c) ==
  /\ pc[c] = "write"
  /\ dead \/ ~port
  /\ GiveUp(c)
  /\ killer' = IF ~dead /\ killer = "idle" THEN "mark" ELSE killer
  /\ torn' = torn \cup {Cur(c)}
  /\ UNCHANGED <<idx, sent, result, ctxDone, cmdMu, waiters, chan, dead, done, port, closer,
                 rxVars, boardVars>>

WriteByte(c) ==
  /\ pc[c] = "write"
  /\ ~dead /\ port
  /\ sent' = [sent EXCEPT ![c] = @ + 1]
  /\ Goto(c, "pace")
  /\ \/ /\ BoardReceives([frame |-> Cur(c), k |-> sent[c] + 1])
        /\ UNCHANGED torn
     \/ /\ "byteloss" \in Faults      \* the board's 1-byte UART buffer overruns
        /\ torn' = torn \cup {Cur(c)}
        /\ UNCHANGED <<line, pending, rx>>
  /\ UNCHANGED <<idx, ret, result, ctxDone, cmdMu, waiters, chan, lifeVars, rxLoop, rxHold, played>>

\* The select after each byte: 20 ms pass, or the context or the port ends.
AllSent(n)     == n = FrameLen

PaceElapses(c) ==
  /\ pc[c] = "pace"
  /\ Goto(c, IF AllSent(sent[c]) THEN "await" ELSE "write")
  /\ UNCHANGED <<idx, sent, ret, result, ctxDone, cmdMu, waiters, chan, lifeVars, rxVars,
                 boardVars, torn>>

PaceAborts(c) ==
  /\ pc[c] = "pace"
  /\ ctxDone[c] \/ done
  /\ GiveUp(c)
  /\ torn' = IF sent[c] < FrameLen THEN torn \cup {Cur(c)} ELSE torn
  /\ UNCHANGED <<idx, sent, result, ctxDone, cmdMu, waiters, chan, lifeVars, rxVars, boardVars>>

\* The select of sendV1CommandLocked.  When several cases are ready Go picks
\* one at random, so no case excludes another.
ErrIsOk(ack) == "ok"                        \* mutant: ack.OK is not looked at
Outcome(ack) == ack.code

AwaitAck(c) ==
  /\ pc[c] = "await"
  /\ chan[Cur(c)] # None
  /\ ret' = [ret EXCEPT ![c] = Outcome(chan[Cur(c)])]
  /\ Goto(c, "cleanup")
  /\ UNCHANGED <<idx, sent, result, ctxDone, cmdMu, waiters, chan, lifeVars, rxVars, boardVars, torn>>

WaitsForEver(c) == FALSE                    \* mutant: there is no timer
TimerFires(c)   == pc[c] = "await"

AwaitTimeout(c) ==
  /\ TimerFires(c)
  /\ GiveUp(c)
  /\ UNCHANGED <<idx, sent, result, ctxDone, cmdMu, waiters, chan, lifeVars, rxVars, boardVars, torn>>

EndsQuietly(c) ==                           \* mutant: a closed device is no error
  Goto(c, "cleanup") /\ ret' = [ret EXCEPT ![c] = IF done THEN "ok" ELSE "err"]
EndsWithError(c) == GiveUp(c)

AwaitAborts(c) ==
  /\ pc[c] = "await"
  /\ ctxDone[c] \/ done
  /\ EndsWithError(c)
  /\ UNCHANGED <<idx, sent, result, ctxDone, cmdMu, waiters, chan, lifeVars, rxVars, boardVars, torn>>

\* What follows the return of sendV1CommandLocked inside the locked region.
AnyError(c)    == OnSong(c) /\ ret[c] # "ok"  \* mutant: replay on every error
SameNote(c)    == idx[c] >= 1 /\ ret[c] # "none" /\ idx[c] < NoteCount[c] \* mutant: errors are skipped
FallsBack(c)   == OnSong(c) /\ ret[c] = "unknown"
HasNextNote(c) == idx[c] >= 1 /\ ret[c] = "ok" /\ idx[c] < NoteCount[c]

Forget(c)       == UNCHANGED waiters        \* mutant: the waiter is not deleted
DropWaiter(c)   == waiters' = [waiters EXCEPT ![WireId[Cur(c)]] = None]

\* The deferred delete of the waiter, then: the single command (or the song)
\* returns, the song falls back to its notes, or the next note is due.
FrameReturns(c) ==
  /\ pc[c] = "cleanup"
  /\ DropWaiter(c)
  /\ IF FallsBack(c) \/ HasNextNote(c)
     THEN /\ idx' = [idx EXCEPT ![c] = @ + 1]
          /\ Goto(c, IF c \in Gapped THEN "gap" ELSE "encode")
     ELSE Goto(c, "unlock") /\ UNCHANGED idx
  /\ UNCHANGED <<sent, ret, result, ctxDone, cmdMu, chan, lifeVars, rxVars, boardVars, torn>>

\* waitSequenceGap, between two notes.
GapElapses(c) ==
  /\ pc[c] = "gap"
  /\ Goto(c, "encode")
  /\ UNCHANGED <<idx, sent, ret, result, ctxDone, cmdMu, waiters, chan, lifeVars, rxVars,
                 boardVars, torn>>

GapAborts(c) ==
  /\ pc[c] = "gap"
  /\ ctxDone[c] \/ done
  /\ Goto(c, "unlock")
  /\ ret' = [ret EXCEPT ![c] = "err"]
  /\ UNCHANGED <<idx, sent, result, ctxDone, cmdMu, waiters, chan, lifeVars, rxVars, boardVars, torn>>

\* The deferred Unlock; Execute turns the error into FAILED.
UnlockCmdMu(c) ==
  /\ pc[c] = "unlock"
  /\ cmdMu' = None
  /\ result' = [result EXCEPT ![c] = IF ret[c] = "ok" THEN "SUCCEEDED" ELSE "FAILED"]
  /\ Goto(c, "end")
  /\ UNCHANGED <<idx, sent, ret, ctxDone, waiters, chan, lifeVars, rxVars, boardVars, torn>>

\* Everything but taking the lock.
CallStep(c) ==
  \/ SendCommand(c) \/ Register(c)
  \/ WriteFails(c) \/ WriteByte(c) \/ PaceElapses(c) \/ PaceAborts(c)
  \/ AwaitAck(c) \/ AwaitTimeout(c) \/ AwaitAborts(c)
  \/ FrameReturns(c) \/ GapElapses(c) \/ GapAborts(c) \/ UnlockCmdMu(c)

\* The request is cancelled or its deadline passes.
Cancel(c) ==
  /\ "cancel" \in Faults
  /\ pc[c] # "end" /\ ~ctxDone[c]
  /\ ctxDone' = [ctxDone EXCEPT ![c] = TRUE]
  /\ UNCHANGED <<callVars, cmdMu, waiters, chan, lifeVars, rxVars, boardVars, torn>>

-----------------------------------------------------------------------------
(* The RX loop and the life of the port. *)

\* handleLine of an ACK/ERR line, up to the Unlock: the waiter is looked up.
RxLookup ==
  /\ rxLoop = "run" /\ rxHold = None /\ rx # <<>>
  /\ rx' = Tail(rx)
  /\ LET ch == waiters[Head(rx).id] IN
     rxHold' = IF ch = None THEN None ELSE [chan |-> ch, ack |-> Head(rx)]
  /\ UNCHANGED <<callVars, ctxDone, cmdMu, waiters, chan, lifeVars, rxLoop, boardVars, torn>>

\* The non-blocking send that follows: a full channel drops the reply.
RxDeliver ==
  /\ rxHold # None
  /\ chan' = [chan EXCEPT ![rxHold.chan] = IF @ = None THEN rxHold.ack ELSE @]
  /\ rxHold' = None
  /\ UNCHANGED <<callVars, ctxDone, cmdMu, waiters, lifeVars, rx, rxLoop, boardVars, torn>>

\* A reply that never becomes a line (noise, the 200-byte flood reset).
RxLoses ==
  /\ "replyloss" \in Faults
  /\ rx # <<>>
  /\ rx' = Tail(rx)
  /\ UNCHANGED <<callVars, ctxDone, cmdMu, waiters, chan, lifeVars, rxLoop, rxHold, boardVars, torn>>

\* The loop returns: done is closed, Read fails, or the context of OpenDevice
\* ends; the deferred markDead starts.
NoDefer       == UNCHANGED killer           \* mutant: the loop just returns
DeferMarkDead == killer' = IF killer = "idle" THEN "mark" ELSE killer

RxExits ==
  /\ rxLoop = "run" /\ rxHold = None
  /\ done \/ ~port \/ "openctx" \in Faults
  /\ rxLoop' = "exit"
  /\ DeferMarkDead
  /\ UNCHANGED <<callVars, ctxDone, cmdMu, waiters, chan, dead, done, port, closer, rx, rxHold,
                 boardVars, torn>>

\* markDead: dead under mu, then doneOnce.
MarkDead ==
  /\ \/ killer = "mark" /\ dead' = TRUE /\ killer' = "close" /\ UNCHANGED done
     \/ killer = "close" /\ done' = TRUE /\ killer' = "over" /\ UNCHANGED dead
  /\ UNCHANGED <<callVars, ctxDone, cmdMu, waiters, chan, port, closer, rxVars, boardVars, torn>>

\* device.Close, from CloseDevice or Shutdown: doneOnce, then port.Close.
Close ==
  /\ \/ "close" \in Faults /\ closer = "idle" /\ closer' = "port" /\ done' = TRUE /\ UNCHANGED port
     \/ closer = "port" /\ closer' = "over" /\ port' = FALSE /\ UNCHANGED done
  /\ UNCHANGED <<callVars, ctxDone, cmdMu, waiters, chan, dead, killer, rxVars, boardVars, torn>>

\* The cable is pulled: Read and Write start to fail.
Unplug ==
  /\ "unplug" \in Faults
  /\ port
  /\ port' = FALSE
  /\ UNCHANGED <<callVars, ctxDone, cmdMu, waiters, chan, dead, done, killer, closer, rxVars,
                 boardVars, torn>>

\* Every call has returned: nothing is left to happen here.
Quiet == (\A c \in Calls : pc[c] = "end") /\ UNCHANGED vars

Caller == \E c \in Calls : LockCmdMu(c) \/ CallStep(c) \/ Cancel(c)
RxSide == RxLookup \/ RxDeliver \/ RxLoses \/ RxExits
Life   == MarkDead \/ Close \/ Unplug
Board  == BoardPlays \/ BoardRefuses \/ BoardResets

Next == Caller \/ RxSide \/ Life \/ Board \/ Quiet

Spec == Init /\ [][Next]_vars

(***************************************************************************)
(* Every timer fires and every goroutine that can run is scheduled; a      *)
(* sync.Mutex hands itself over to a waiter that has starved for 1 ms, so  *)
(* a call that keeps waiting for cmdMu gets it.  The RX loop's Read returns *)
(* within its 200 ms timeout, so the loop notices a closed device.         *)
(* Nothing is assumed of the board, of the line or of the contexts.        *)
(***************************************************************************)
Fairness ==
  /\ \A c \in Calls : WF_vars(CallStep(c)) /\ SF_vars(LockCmdMu(c))
  /\ WF_vars(RxDeliver) /\ WF_vars((done \/ ~port) /\ RxExits)
  /\ WF_vars(MarkDead) /\ WF_vars(closer = "port" /\ Close)

FairSpec == Spec /\ Fairness
-----------------------------------------------------------------------------
(* Properties. *)

Played == {played[i] : i \in DOMAIN played}

Notes(c) == {[call |-> c, idx |-> i] : i \in 1..NoteCount[c]}

\* The calls whose ids, cut to 11 bytes, no other call on this board uses.  The
\* syncs of a Watch are not among them once there are two: each is named
\* "sync-watch" (driver.go:755).  The frames of one call may share an id:
\* "<key>-1" and "<key>-2" do, as soon as the key has 10 bytes.
OwnCalls ==
  {c \in Calls : \A f, g \in Frames : f.call = c /\ WireId[g] = WireId[f] => g.call = c}
OwnFrames == {f \in Frames : f.call \in OwnCalls}

\* What the board must have carried out for call c to be a success.
Performed(c) ==
  \/ Kind[c] # "notes" /\ [call |-> c, idx |-> 0] \in Played
  \/ Kind[c] # "cmd" /\ Notes(c) \subseteq Played

\* SUCCEEDED means that the board carried out this very call: the command, or
\* the native song, or every note of the sequence (device.go:314,
\* README.md:103).  That is what the README says of every command; it needs an
\* id that no other call shares.
CommandTruth == \A c \in Calls : result[c] = "SUCCEEDED" => Performed(c)

\* What an accepted reply shows of frame f: that it was carried out, or, when
\* other calls share its id, that some frame of that id was.
Carried(f) ==
  IF f \in OwnFrames THEN f \in Played ELSE \E g \in Played : WireId[g] = WireId[f]

Vouched(c) ==
  \/ Kind[c] # "notes" /\ Carried([call |-> c, idx |-> 0])
  \/ Kind[c] # "cmd" /\ \A f \in Notes(c) : Carried(f)

\* A call that ends SUCCEEDED and has its id for itself was carried out whole by
\* the board, this very call and not an earlier one; for a call that shares its
\* id, as every sync of a Watch does, a command of that id was carried out
\* (device.go:314, driver.go:755).  Late, lost and misattributed replies,
\* cancelled calls and garbled lines must not add up to a false success.
SuccessVouched == \A c \in Calls : result[c] = "SUCCEEDED" => Vouched(c)

\* What the board carried out for one tone-sequence is one unbroken run of
\* notes, each once and in order, with no other call's command in between, and
\* a song that was played is never replayed note by note (music.go:188,
\* music.go:200).  It holds of every sequence that has its id for itself,
\* whatever ids the other calls share.
SequenceUnbroken ==
  \A i, j \in DOMAIN played :
    (i < j /\ played[i].call = played[j].call /\ played[i].call \in OwnCalls) =>
      /\ played[i].idx >= 1
      /\ \A k \in i..j : played[k] = [call |-> played[i].call, idx |-> played[i].idx + (k - i)]

\* As long as no frame was cut short on the line, what the board has buffered
\* is a prefix of the frame that the holder of cmdMu is sending: two v1 calls
\* never mix their bytes (device.go:270).
OnlyTornFramesGarble ==
  (line # <<>> /\ \A i \in DOMAIN line : line[i].frame \notin torn) =>
    /\ cmdMu # None
    /\ line = SubSeq(Whole(Cur(cmdMu)), 1, sent[cmdMu])

\* A waiter exists only while its call is between registration and the
\* deferred delete, and that call holds cmdMu: no waiter outlives its command,
\* so a late reply finds none (device.go:288, device.go:291).
WaiterOwned ==
  \A w \in WireIds : waiters[w] # None =>
    /\ waiters[w].call = cmdMu
    /\ waiters[w] = Cur(cmdMu)
    /\ pc[cmdMu] \in {"write", "pace", "await", "cleanup"}

\* Each call keeps the contract of CommandContract under this view of it.
Contract == INSTANCE CommandContract WITH
  Own <- OwnCalls, performed <- played, report <- result

\* What the callers are told and what the board carries out is a behaviour of
\* the contract: reports are final, and of every call with an id of its own a
\* success was performed whole and a sequence is one song or one unbroken run of
\* notes, whatever the board does for the other calls.
KeepsContract == Contract!Spec

\* Every call returns, whatever the board, the line and the port do.
CallsReturn == \A c \in Calls : pc[c] = "enter" ~> pc[c] = "end"

\* A port that fails or is closed is noticed: the device is marked dead and
\* done is closed (device.go:61).
DeathNoticed == ~port ~> (dead /\ done)
=============================================================================
