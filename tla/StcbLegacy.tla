------------------------------ MODULE StcbLegacy ------------------------------
(***************************************************************************)
(* The legacy half of the command path (plugin/device.go: sendCommand for  *)
(* a board that has not spoken Protocol v1, write, writeSlow,              *)
(* waitSensorAfter; plugin/command.go: encodeCommand; plugin/driver.go:    *)
(* the S and V that Watch writes on each tick).  A legacy board            *)
(* acknowledges nothing: a command is reported as sent, or with the sensor *)
(* frame that was parsed after it.  None of this takes cmdMu.              *)
(*                                                                         *)
(* A byte is [by, ch]: who wrote it and the letter, or "x" for an argument *)
(* byte, whose value is left out.  A V frame is the value of the board's   *)
(* clock when it was sent, and a clock is the writer of the T frame that   *)
(* set it.  Times are counts of the frames parsed so far.                  *)
(*                                                                         *)
(* External: the board, as far as the encoders and the waits of the code   *)
(* rely on it.  After a command letter it takes as many bytes as the       *)
(* letter has arguments, whatever they are, and carries the command out    *)
(* without an end of line; it may answer T with a V frame; D takes it out  *)
(* of service (the ISP download mode).                                     *)
(***************************************************************************)
EXTENDS Naturals, Sequences

CONSTANTS
  Calls,      \* sendCommand calls: Execute's, and the clock sync of Watch
  Watches,    \* Watch streams that poll the board
  Requests,   \* Requests[c]: what call c may be asked for
  ArgBytes,   \* ArgBytes[l]: argument bytes of letter l (code: B,L 2, M 1, N 8, T 4)
  MaxPolls,   \* bound: ticks of each stream
  Faults, None

Writers == Calls \cup Watches
FaultKinds == {"byteloss", "frameloss", "cancel", "unplug", "close", "openctx"}

\* encodeCommand: the letter of an action, and how the frame is written.  The
\* text of raw is one byte here; the code sends up to 64 of them in one write.
Letter == [buzzer |-> "B", led |-> "L", display |-> "N", motor |-> "M", sensor |-> "V", sync |-> "T", isp |-> "D"]
Letters == {Letter[a] : a \in DOMAIN Letter} \cup {"S"}
Paced   == {"buzzer", "led", "display", "motor", "sync"}
Awaited == {"sensor", "sync", "raw"}      \* those that wait for a V frame
V1Only  == {"tone", "tone-sequence", "diag"}

ASSUME ArgsAssumption == ArgBytes \in [Letters -> Nat] /\ \A l \in {"S", "V", "D"} : ArgBytes[l] = 0
ASSUME RequestsAssumption ==
  \A c \in Calls : None \notin Requests[c] /\ \A r \in Requests[c] :
                      /\ r.action \in DOMAIN Letter \cup V1Only \cup {"raw"}
                      /\ r.valid \in BOOLEAN
                      /\ r.action = "raw" => r.text \in Letters
ASSUME BoundsAssumption == /\ MaxPolls \in Nat /\ Faults \subseteq FaultKinds
                           /\ Calls \cap Watches = {} /\ None \notin Writers

ShortLed(r) ==                            \* mutant: encodeLED without the closing '0'
  IF r.action = "raw" THEN <<r.text>> ELSE
  <<Letter[r.action]>> \o [i \in 1..(IF r.action = "led" THEN 1 ELSE ArgBytes[Letter[r.action]]) |-> "x"]
Frame(r) ==
  IF r.action = "raw" THEN <<r.text>>
  ELSE <<Letter[r.action]>> \o [i \in 1..ArgBytes[Letter[r.action]] |-> "x"]

VARIABLES
  pc, req, sent, before, told,                \* calls
  polls, poll,                                \* streams: ticks left, what is written next
  sensor,                                     \* the last V frame and its time, under d.mu
  port, done, dead, marking, rxLoop,          \* the life of the device
  line, clock, isp, air,                      \* the board, and its frames on the wire
  misread, blame, disturbed                   \* history, for the properties

callVars  == <<pc, req, sent, before, told>>
pollVars  == <<polls, poll>>
lifeVars  == <<port, done, dead, marking, rxLoop>>
boardVars == <<line, clock, isp, air>>
history   == <<misread, blame, disturbed>>
vars == <<callVars, pollVars, sensor, lifeVars, boardVars, history>>

Bytes  == [by: Writers, ch: Letters \cup {"x"}]
Clocks == Writers \cup {None, "garbage"}
Frames == [clock: Clocks, at: Nat]

\* What a call answers: FAILED, or SUCCEEDED with one of three summaries.
Answers == [as: {"none", "FAILED", "sent", "noframe"}, frame: {None}]
             \cup [as: {"frame"}, frame: [clock: Clocks, at: Nat \ {0}]]

TypeOK ==
  /\ pc \in [Calls -> {"enter", "write", "pace", "wait", "claim", "end"}]
  /\ req \in [Calls -> (UNION {Requests[c] : c \in Calls}) \cup {None}]
  /\ \A c \in Calls : req[c] \in Requests[c] \cup {None}
  /\ sent \in [Calls -> Nat] /\ before \in [Calls -> Nat]
  /\ told \in [Calls -> Answers]
  /\ polls \in [Watches -> 0..MaxPolls] /\ poll \in [Watches -> {"tick", "S", "V"}]
  /\ sensor \in Frames
  /\ {port, done, dead, marking} \subseteq BOOLEAN /\ rxLoop \in {"run", "exit"}
  /\ line \in Seq(Bytes) /\ air \in Seq(Clocks)
  /\ clock \in Clocks /\ isp \in BOOLEAN
  /\ {misread, blame} \subseteq BOOLEAN /\ disturbed \subseteq Calls

Nothing == [as |-> "none", frame |-> None]

Init ==
  /\ pc = [c \in Calls |-> "enter"]
  /\ req = [c \in Calls |-> None]
  /\ sent = [c \in Calls |-> 0] /\ before = [c \in Calls |-> 0]
  /\ told = [c \in Calls |-> Nothing]
  /\ polls = [w \in Watches |-> MaxPolls] /\ poll = [w \in Watches |-> "tick"]
  /\ sensor = [clock |-> None, at |-> 0]
  /\ port = TRUE /\ done = FALSE /\ dead = FALSE
  /\ marking = FALSE /\ rxLoop = "run"
  /\ line = <<>> /\ air = <<>> /\ clock = None /\ isp = FALSE
  /\ misread = FALSE /\ blame = FALSE /\ disturbed = {}

Goto(c, label) == pc' = [pc EXCEPT ![c] = label]
Tell(c, what, f) == Goto(c, "end") /\ told' = [told EXCEPT ![c] = [as |-> what, frame |-> f]]

-----------------------------------------------------------------------------
(* The board. *)

\* The board has taken a whole command: its letter and that many bytes.
Complete(buf) == Len(buf) = 1 + ArgBytes[Head(buf).ch]
Chars(buf)    == [i \in DOMAIN buf |-> buf[i].ch]

\* The bytes that writer w hands over for one command.
WholeFrame(w, buf) ==
  \/ w \in Watches /\ Chars(buf) \in {<<"S">>, <<"V">>}
  \/ w \in Calls /\ req[w] # None /\ Chars(buf) = Frame(req[w])

OneWriter(buf) == \A i \in DOMAIN buf : buf[i].by = buf[1].by

\* What the board does with a command, in terms of its clock, its service mode
\* and its answer.  A command that is not one writer's frame may do anything.
CarriesOut(buf) ==
  LET by == Head(buf).by
      letter == Head(buf).ch
      answers(c) == air' = Append(air, c)
  IN IF OneWriter(buf) /\ WholeFrame(by, buf)
     THEN /\ clock' = IF letter = "T" THEN by ELSE clock
          /\ isp' = (letter = "D")
          /\ \/ letter \in {"V", "T"} /\ answers(clock')
             \/ letter # "V" /\ UNCHANGED air
          /\ UNCHANGED misread
     ELSE /\ clock' \in {clock, "garbage"}
          /\ isp' = (letter = "D")
          /\ answers(clock') \/ UNCHANGED air
          /\ misread' = TRUE

\* One byte arrives.
Takes(byte) ==
  LET buf == Append(line, byte) IN
  \/ (isp \/ Head(buf).ch = "x") /\ UNCHANGED <<boardVars, misread>>
  \/ ~isp /\ Head(buf).ch # "x" /\ Complete(buf) /\ line' = <<>> /\ CarriesOut(buf)
  \/ ~isp /\ Head(buf).ch # "x" /\ ~Complete(buf) /\ line' = buf /\ UNCHANGED <<clock, isp, air, misread>>

-----------------------------------------------------------------------------
(* device.write and writeSlow. *)

\* The commands that are between their first and their last byte.
Halfway == {c \in Calls : pc[c] \in {"write", "pace"} /\ sent[c] \in 1..(Len(Frame(req[c])) - 1)}

\* write returns nil: the byte is the port's, though the one-byte buffer of the
\* board's UART (device.go:252) may be overrun.
Writes(w, ch) ==
  /\ ~dead /\ port
  /\ \/ Takes([by |-> w, ch |-> ch]) /\ blame' = (blame \/ Halfway \ {w} # {})
     \/ "byteloss" \in Faults /\ blame' = TRUE /\ UNCHANGED <<boardVars, misread>>
  /\ disturbed' = disturbed \cup {c \in Calls \ {w} : pc[c] \in {"write", "pace", "wait", "claim"}}

\* write returns an error; when it was the port's, markDead starts.
CannotWrite ==
  /\ dead \/ ~port
  /\ marking' = (marking \/ ~dead)

\* The rest of a frame that is given up is missing on the board.
GivesUp(c) == blame' = (blame \/ c \in Halfway)

\* How many bytes there are to send.
OneShort(c) == Len(Frame(req[c])) - 1          \* mutant: the last byte stays behind
Total(c)    == Len(Frame(req[c]))

\* One byte of writeSlow, or the whole of sensor, isp and raw.
Write(c) ==
  /\ pc[c] = "write"
  /\ \/ /\ Writes(c, Frame(req[c])[sent[c] + 1])
        /\ sent' = [sent EXCEPT ![c] = @ + 1]
        /\ IF req[c].action \in Paced THEN Goto(c, "pace") /\ UNCHANGED told
           ELSE IF req[c].action = "isp" THEN Tell(c, "sent", None)
           ELSE Goto(c, "wait") /\ UNCHANGED told
        /\ UNCHANGED lifeVars
     \/ /\ CannotWrite /\ Tell(c, "FAILED", None) /\ GivesUp(c)
        /\ UNCHANGED <<sent, boardVars, misread, disturbed, port, done, dead, rxLoop>>
  /\ UNCHANGED <<req, before, pollVars, sensor>>

\* A select finds that the device or the context of the call has ended; a context
\* may end at any moment, and is then seen at the next select or, when the timer
\* is ready as well, at a later one.
Ended == done \/ "cancel" \in Faults

\* After each byte writeSlow waits 20 ms, or gives up.
Pace(c) ==
  /\ pc[c] = "pace"
  /\ \/ /\ IF sent[c] < Total(c) THEN Goto(c, "write") /\ UNCHANGED told
           ELSE IF req[c].action = "sync" THEN Goto(c, "wait") /\ UNCHANGED told
           ELSE Tell(c, "sent", None)
        /\ UNCHANGED blame
     \/ Ended /\ Tell(c, "FAILED", None) /\ GivesUp(c)
  /\ UNCHANGED <<req, sent, before, pollVars, sensor, lifeVars, boardVars, misread, disturbed>>

-----------------------------------------------------------------------------
(* sendCommand. *)

\* encodeCommand for the actions that go through it; sensor and isp have no
\* arguments to refuse.  Actions of Protocol v1 fall to the default branch.
Refused(r) == \/ r.action \in V1Only
              \/ r.action \notin {"sensor", "isp"} /\ ~r.valid

\* Up to the snapshot of the last frame's time.  What is on its way to the
\* board or back at that moment may be taken for an effect of this command.
SendCommand(c) ==
  /\ pc[c] = "enter"
  /\ \E r \in Requests[c] :
       /\ req' = [req EXCEPT ![c] = r]
       /\ IF Refused(r) THEN Tell(c, "FAILED", None)
          ELSE Goto(c, "write") /\ UNCHANGED told
  /\ before' = [before EXCEPT ![c] = sensor.at]
  /\ disturbed' = IF line = <<>> /\ air = <<>> /\ Halfway = {} THEN disturbed ELSE disturbed \cup {c}
  /\ UNCHANGED <<sent, pollVars, sensor, lifeVars, boardVars, misread, blame>>

\* hasFreshSensor.
AnyFrame(c) == sensor.at # 0                    \* mutant: the snapshot is not compared
HasFresh(c) == sensor.at # 0 /\ sensor.at > before[c]

AtLast(c)   == TRUE                             \* mutant: the window closes with a success
LastLook(c) == HasFresh(c)

\* One turn of the loop of waitSensorAfter that leaves it: the context or the
\* device ended, or a new frame is there.
WaitLooks(c) ==
  /\ pc[c] = "wait"
  /\ \/ Ended /\ Tell(c, "noframe", None)
     \/ ~done /\ HasFresh(c) /\ Goto(c, "claim") /\ UNCHANGED told
  /\ UNCHANGED <<req, sent, before, pollVars, sensor, lifeVars, boardVars, history>>

\* The window is over: one last look, whatever became of the context.
NeverOver(c) == FALSE                           \* mutant: a loop without a deadline
WindowOver(c) == pc[c] = "wait"

WaitEnds(c) ==
  /\ WindowOver(c)
  /\ IF LastLook(c) THEN Goto(c, "claim") /\ UNCHANGED told ELSE Tell(c, "noframe", None)
  /\ UNCHANGED <<req, sent, before, pollVars, sensor, lifeVars, boardVars, history>>

\* The summary is made of a second snapshot, which may be of a later frame.
Claim(c) ==
  /\ pc[c] = "claim"
  /\ Tell(c, "frame", sensor)
  /\ UNCHANGED <<req, sent, before, pollVars, sensor, lifeVars, boardVars, history>>

-----------------------------------------------------------------------------
(* Watch, the RX loop and the life of the port. *)

\* reqFrame: S, then V at once; what write returns is ignored.
Tick(w) ==
  /\ poll[w] = "tick" /\ polls[w] > 0
  /\ poll' = [poll EXCEPT ![w] = "S"]
  /\ polls' = [polls EXCEPT ![w] = @ - 1]
  /\ UNCHANGED <<callVars, sensor, lifeVars, boardVars, history>>

Poll(w) ==
  /\ poll[w] # "tick"
  /\ \/ Writes(w, poll[w]) /\ UNCHANGED lifeVars
     \/ CannotWrite /\ UNCHANGED <<port, done, dead, rxLoop, boardVars, history>>
  /\ poll' = [poll EXCEPT ![w] = IF @ = "S" THEN "V" ELSE "tick"]
  /\ UNCHANGED <<callVars, polls, sensor>>

\* handleLine of a V frame.
RxHandle ==
  /\ rxLoop = "run" /\ air # <<>>
  /\ air' = Tail(air)
  /\ sensor' = [clock |-> Head(air), at |-> sensor.at + 1]
  /\ UNCHANGED <<callVars, pollVars, lifeVars, line, clock, isp, history>>

\* A frame that arrives damaged is no V frame.
FrameLost ==
  /\ "frameloss" \in Faults /\ air # <<>>
  /\ air' = Tail(air)
  /\ UNCHANGED <<callVars, pollVars, sensor, lifeVars, line, clock, isp, history>>

\* The loop returns and its deferred markDead marks the device dead and done.
RxExits ==
  /\ rxLoop = "run"
  /\ done \/ ~port \/ "openctx" \in Faults
  /\ rxLoop' = "exit"
  /\ dead' = TRUE /\ done' = TRUE
  /\ UNCHANGED <<callVars, pollVars, sensor, port, marking, boardVars, history>>

\* The goroutine that a failed write started.
MarkDead ==
  /\ marking
  /\ marking' = FALSE
  /\ dead' = TRUE /\ done' = TRUE
  /\ UNCHANGED <<callVars, pollVars, sensor, port, rxLoop, boardVars, history>>

\* device.Close closes done first.
Close ==
  /\ "close" \in Faults /\ ~done
  /\ done' = TRUE
  /\ UNCHANGED <<callVars, pollVars, sensor, port, dead, marking, rxLoop, boardVars, history>>

\* Read and Write start to fail: Close has closed the port as well, or the cable
\* is pulled.
PortFails ==
  /\ port
  /\ "unplug" \in Faults \/ ("close" \in Faults /\ done)
  /\ port' = FALSE
  /\ UNCHANGED <<callVars, pollVars, sensor, done, dead, marking, rxLoop, boardVars, history>>

\* What the call does by itself, and what takes a frame or an end from outside.
CallStep(c) == SendCommand(c) \/ Write(c) \/ Pace(c) \/ WaitEnds(c) \/ Claim(c)
Quiet == (\A c \in Calls : pc[c] = "end") /\ UNCHANGED vars

Next ==
  \/ \E c \in Calls : CallStep(c) \/ WaitLooks(c)
  \/ \E w \in Watches : Tick(w) \/ Poll(w)
  \/ RxHandle \/ FrameLost \/ RxExits \/ MarkDead \/ Close \/ PortFails \/ Quiet

Spec == Init /\ [][Next]_vars

(***************************************************************************)
(* The goroutine of a call is scheduled, and its timers (the 20 ms between *)
(* bytes, the window of the wait) fire.  Nothing is assumed of the board,  *)
(* the line, the polls or the contexts.                                    *)
(***************************************************************************)
FairSpec == Spec /\ \A c \in Calls : WF_vars(CallStep(c))

-----------------------------------------------------------------------------
(* Properties. *)

\* A command that claims a frame claims one that was parsed after its own
\* snapshot, and it had sent all its bytes by then: an old frame, or half a
\* command, is never passed off as a result (device.go:394).
ClaimsAreNew ==
  \A c \in Calls : told[c].as = "frame" =>
    told[c].frame.at > before[c] /\ sent[c] = Len(Frame(req[c]))

\* A sync that had the line to itself and claims a frame reports the clock
\* that it set itself (device.go:353), with bytes and frames lost at will.  With other
\* traffic the frame may be older than the clock: the code cannot tell.
SyncConfirmed ==
  \A c \in Calls \ disturbed :
    (told[c].as = "frame" /\ req[c].action = "sync") => told[c].frame.clock = c

\* A command is reported as sent only when the port took every byte of it
\* (device.go:315).
SentWhole ==
  \A c \in Calls : told[c].as \in {"sent", "noframe"} => sent[c] = Len(Frame(req[c]))

\* The board misreads a command only after a byte was lost, a command was
\* given up halfway, or another writer came between the bytes of one: the
\* frames themselves leave it ready for the next (command.go:45).  Only raw can
\* be asked to send the letter of a command without its arguments.
OnlyOverlapMisreads ==
  misread => blame \/ \E c \in Calls : req[c] # None /\ req[c].action = "raw" /\ ArgBytes[req[c].text] # 0

\* Every legacy command returns, whatever the board and the port do.
LegacyReturns == \A c \in Calls : pc[c] = "enter" ~> pc[c] = "end"
=============================================================================
