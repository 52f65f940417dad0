---------------------------- MODULE StcbRegistry ----------------------------
(***************************************************************************)
(* The device table of one Driver process: ConfigureInstance, Discover,     *)
(* OpenDevice, CloseDevice, Execute's choice of a device and Shutdown      *)
(* (plugin/driver.go), down to the opening and closing of serial ports     *)
(* (openDevice and Close of plugin/device.go).                             *)
(*                                                                         *)
(* Each request runs in a goroutine of its own (a thread).  It reads what  *)
(* mu protects, lets mu go, and works on what devMu protects later: the    *)
(* steps of a request are the regions between two unlocks.  A thread that  *)
(* opens a port gives its name to the device it creates.                   *)
(*                                                                         *)
(* Serial ports are external: a port can be held by one open handle at a   *)
(* time (the serial library opens ports exclusively), opening and setting  *)
(* the read timeout can fail, and the RX loop can end at any time.         *)
(***************************************************************************)
EXTENDS Naturals, FiniteSets

CONSTANTS
  Threads,     \* request goroutines, one request each
  Instances,   \* plugin instance ids
  DevIds,      \* device ids
  Ports,       \* serial port names
  Requests,    \* the requests the Edge may send
  None

\* Name, baud and protocol of a binding: "unset" stands for a value that the
\* code replaces by its default (effectiveBaud, effectiveProtocol).
Attrs == {"unset", "default", "other"}
Effective(attr) == IF attr = "unset" THEN "default" ELSE attr

\* An instance configuration, or the parameters of a device: "" is "not set".
Configs == [dev: DevIds \cup {""}, port: Ports \cup {""}, attr: Attrs]
NoConfig == [dev |-> "", port |-> "", attr |-> "unset"]

\* instanceDeviceKey: the instances of one process have separate tables.
Keys    == [inst: Instances, dev: DevIds \cup {""}]
SharedKey(r, dev) ==                    \* mutant: the device id alone
  [inst |-> CHOOSE i \in Instances : TRUE, dev |-> dev]
Key(r, dev) == [inst |-> r.inst, dev |-> dev]

\* The cfg None stands for a configuration that is no JSON, or whose numbers are
\* none.  port and attr of an "open" are its ConnectionHints; "bad" stands for a
\* baud hint that is not a number.
RequestSet ==
  [op: {"configure"}, inst: Instances, cfg: Configs \cup {None}]
    \cup [op: {"open"}, inst: Instances, dev: DevIds \cup {""}, port: Ports \cup {""},
          attr: {"", "default", "other", "bad"}]
    \cup [op: {"close", "execute"}, inst: Instances, dev: DevIds \cup {""}]
    \cup [op: {"discover"}, inst: Instances]
    \cup [op: {"shutdown"}]

ASSUME RequestsAssumption == Requests \subseteq RequestSet
ASSUME NamesAssumption    == "" \notin DevIds /\ "" \notin Ports
ASSUME NoneAssumption     == None \notin Threads /\ None \notin Requests

VARIABLES
  pc, req, resp,        \* threads
  cfgs, shutdown,       \* under mu
  devMu, devices,       \* the table and its lock
  binding,              \* binding[h]: the deviceConfig and instance of device h
  portOpen, done, dead, \* the life of device h
  asked,                \* asked[t]: deviceConfig resolved by openConfigFor, or
                        \* reported by Discover
  toClose,              \* toClose[t]: devices that t took out of the table
  target                \* target[t]: the device that Execute of t talks to, that
                        \* OpenDevice of t answers for, or that t is closing

vars == <<pc, req, resp, cfgs, shutdown, devMu, devices, binding, portOpen, done, dead, asked,
          toClose, target>>

PCs == {"idle", "resolve", "lookup", "port", "timeout", "insert", "fail", "swap", "closing",
        "portclose", "send", "report", "finish", "end"}
Responses == {"none", "OK", "UNAVAILABLE", "FAILED_PRECONDITION", "INVALID_ARGUMENT", "SENT",
              "FOUND", "ERROR"}
Bindings == [inst: Instances, dev: DevIds \cup {""}, port: Ports \cup {""}, attr: Attrs]

TypeOK ==
  /\ pc \in [Threads -> PCs]
  /\ req \in [Threads -> Requests \cup {None}]
  /\ resp \in [Threads -> Responses]
  /\ cfgs \in [Instances -> Configs]
  /\ shutdown \in BOOLEAN
  /\ devMu \in Threads \cup {None}
  /\ devices \in [Keys -> Threads \cup {None}]
  /\ binding \in [Threads -> Bindings \cup {None}]
  /\ portOpen \in [Threads -> BOOLEAN]
  /\ done \in [Threads -> BOOLEAN]
  /\ dead \in [Threads -> BOOLEAN]
  /\ asked \in [Threads -> Configs]
  /\ toClose \in [Threads -> SUBSET Threads]
  /\ target \in [Threads -> Threads \cup {None}]

Init ==
  /\ pc = [t \in Threads |-> "idle"]
  /\ req = [t \in Threads |-> None]
  /\ resp = [t \in Threads |-> "none"]
  /\ cfgs = [i \in Instances |-> NoConfig]
  /\ shutdown = FALSE
  /\ devMu = None
  /\ devices = [k \in Keys |-> None]
  /\ binding = [t \in Threads |-> None]
  /\ portOpen = [t \in Threads |-> FALSE]
  /\ done = [t \in Threads |-> FALSE]
  /\ dead = [t \in Threads |-> FALSE]
  /\ asked = [t \in Threads |-> NoConfig]
  /\ toClose = [t \in Threads |-> {}]
  /\ target = [t \in Threads |-> None]

Goto(t, label) == pc' = [pc EXCEPT ![t] = label]
Return(t, code) == Goto(t, "end") /\ resp' = [resp EXCEPT ![t] = code]

tableVars  == <<devMu, devices>>
deviceVars == <<binding, portOpen, done, dead>>
localVars  == <<asked, toClose, target>>

-----------------------------------------------------------------------------
(* The first region of a request: what it does under mu. *)

Begin(t, r) ==
  /\ pc[t] = "idle"
  /\ req' = [req EXCEPT ![t] = r]
  /\ UNCHANGED <<tableVars, deviceVars, localVars>>

ConfigureInstance(t) ==
  \E r \in Requests :
    /\ r.op = "configure"
    /\ Begin(t, r)
    /\ \/ shutdown /\ Return(t, "UNAVAILABLE") /\ UNCHANGED cfgs
       \/ ~shutdown /\ r.cfg = None /\ Return(t, "INVALID_ARGUMENT") /\ UNCHANGED cfgs
       \/ ~shutdown /\ r.cfg # None /\ Return(t, "OK") /\ cfgs' = [cfgs EXCEPT ![r.inst] = r.cfg]
    /\ UNCHANGED shutdown

\* OpenDevice looks at the flag and lets mu go.
OpenDevice(t) ==
  \E r \in Requests :
    /\ r.op = "open"
    /\ Begin(t, r)
    /\ IF shutdown THEN Return(t, "UNAVAILABLE") ELSE Goto(t, "resolve") /\ UNCHANGED resp
    /\ UNCHANGED <<cfgs, shutdown>>

\* Execute looks at the flag too; the whitelist of actions and the idempotency
\* key are checked before anything that is modelled here.
Execute(t) ==
  \E r \in Requests :
    /\ r.op = "execute"
    /\ Begin(t, r)
    /\ IF shutdown THEN Return(t, "UNAVAILABLE") ELSE Goto(t, "lookup") /\ UNCHANGED resp
    /\ UNCHANGED <<cfgs, shutdown>>

CloseDevice(t) ==
  \E r \in Requests :
    /\ r.op = "close"
    /\ Begin(t, r)
    /\ Goto(t, "lookup")
    /\ UNCHANGED <<resp, cfgs, shutdown>>

\* Discover sends DiscoveryStarted before it looks at anything, and the stream may
\* refuse it; it does not ask for the flag.
Discover(t) ==
  \E r \in Requests :
    /\ r.op = "discover"
    /\ Begin(t, r)
    /\ \/ Goto(t, "resolve") /\ UNCHANGED resp
       \/ Return(t, "ERROR")
    /\ UNCHANGED <<cfgs, shutdown>>

Shutdown(t) ==
  \E r \in Requests :
    /\ r.op = "shutdown"
    /\ Begin(t, r)
    /\ shutdown' = TRUE
    /\ Goto(t, "swap")
    /\ UNCHANGED <<resp, cfgs>>

-----------------------------------------------------------------------------
(* Discover: the configured device is reported if it can be opened. *)

PortOnly(cfg) == cfg.port # ""           \* mutant: the device id is not looked at
Complete(cfg) == cfg.dev # "" /\ cfg.port # ""

\* The configuration is read under mu ...
DiscoverLooks(t) ==
  /\ pc[t] = "resolve" /\ req[t].op = "discover"
  /\ asked' = [asked EXCEPT ![t] = cfgs[req[t].inst]]
  /\ Goto(t, "report")
  /\ UNCHANGED <<req, resp, cfgs, shutdown, tableVars, deviceVars, toClose, target>>

\* ... and reported after.  The Send has context.Background(): it returns when the
\* consumer reads, or the stream refuses it, or never.
DiscoverReports(t) ==
  /\ pc[t] = "report"
  /\ \/ Return(t, "ERROR")
     \/ ~Complete(asked[t]) /\ Return(t, "FAILED_PRECONDITION")
     \/ Complete(asked[t]) /\ Goto(t, "finish") /\ resp' = [resp EXCEPT ![t] = "FOUND"]
  /\ UNCHANGED <<req, cfgs, shutdown, tableVars, deviceVars, localVars>>

\* The Send of DiscoveryFinished; whatever comes of it, the device was reported.
DiscoverFinishes(t) ==
  /\ pc[t] = "finish"
  /\ Goto(t, "end")
  /\ UNCHANGED <<req, resp, cfgs, shutdown, tableVars, deviceVars, localVars>>

-----------------------------------------------------------------------------
(* OpenDevice. *)

\* openConfigFor: hints first, then the configuration of the instance.
Resolved(r, def) ==
  [dev  |-> IF r.dev # "" THEN r.dev ELSE def.dev,
   port |-> IF r.port # "" THEN r.port ELSE def.port,
   attr |-> IF r.attr \in Attrs THEN r.attr ELSE def.attr]

OpenConfigFor(t) ==
  /\ pc[t] = "resolve" /\ req[t].op = "open"
  /\ LET cfg == Resolved(req[t], cfgs[req[t].inst]) IN
     IF cfg.dev = "" \/ cfg.port = "" \/ req[t].attr = "bad"
     THEN Return(t, "FAILED_PRECONDITION") /\ UNCHANGED asked
     ELSE Goto(t, "lookup") /\ asked' = [asked EXCEPT ![t] = cfg] /\ UNCHANGED resp
  /\ UNCHANGED <<req, cfgs, shutdown, tableVars, deviceVars, toClose, target>>

\* sameDeviceBinding; the defaults are compared, not the settings.
SameBinding(active, asks) ==
  /\ active.dev = asks.dev
  /\ active.port = asks.port
  /\ Effective(active.attr) = Effective(asks.attr)

AnyBinding(h, cfg) == TRUE              \* mutant: any open device will do
Reusable(h, cfg)   == SameBinding(binding[h], cfg)

NoDevMu == TRUE                         \* mutant: the table is not locked
DevMuFree == devMu = None

\* Under devMu: an open device is reused or refused, dead or not; otherwise the
\* lock is kept while the port is opened.
OpenLookup(t) ==
  /\ pc[t] = "lookup" /\ req[t].op = "open"
  /\ DevMuFree
  /\ LET h == devices[Key(req[t], asked[t].dev)] IN
     \/ /\ h # None
        /\ Return(t, IF Reusable(h, asked[t]) THEN "OK" ELSE "FAILED_PRECONDITION")
        /\ target' = [target EXCEPT ![t] = h]
        /\ UNCHANGED devMu
     \/ /\ h = None
        /\ devMu' = t
        /\ Goto(t, "port")
        /\ UNCHANGED <<resp, target>>
  /\ UNCHANGED <<req, cfgs, shutdown, devices, deviceVars, asked, toClose>>

PortFree(p) == \A h \in Threads : portOpen[h] => binding[h].port # p

\* serialOpen.
OpenPort(t) ==
  /\ pc[t] = "port"
  /\ \/ /\ PortFree(asked[t].port)
        /\ portOpen' = [portOpen EXCEPT ![t] = TRUE]
        /\ binding' = [binding EXCEPT ![t] = [inst |-> req[t].inst, dev |-> asked[t].dev,
                                              port |-> asked[t].port, attr |-> asked[t].attr]]
        /\ Goto(t, "timeout")
     \/ Goto(t, "fail") /\ UNCHANGED <<portOpen, binding>>
  /\ UNCHANGED <<req, resp, cfgs, shutdown, tableVars, done, dead, localVars>>

\* SetReadTimeout; when it fails the port is closed again.
LeavesPort(t) == UNCHANGED portOpen    \* mutant: the port is left open
GivesPortBack(t) == portOpen' = [portOpen EXCEPT ![t] = FALSE]

SetReadTimeout(t) ==
  /\ pc[t] = "timeout"
  /\ \/ Goto(t, "insert") /\ UNCHANGED portOpen
     \/ Goto(t, "fail") /\ GivesPortBack(t)
  /\ UNCHANGED <<req, resp, cfgs, shutdown, tableVars, binding, done, dead, localVars>>

KeepsLock == UNCHANGED devMu            \* mutant: an error path without Unlock
ReleasesLock == devMu' = None

OpenFails(t) ==
  /\ pc[t] = "fail"
  /\ ReleasesLock
  /\ Return(t, "UNAVAILABLE")
  /\ UNCHANGED <<req, cfgs, shutdown, devices, deviceVars, localVars>>

\* d.devices[key] = dev, and devMu is let go.
OpenInserts(t) ==
  /\ pc[t] = "insert"
  /\ devices' = [devices EXCEPT ![Key(req[t], asked[t].dev)] = t]
  /\ devMu' = None
  /\ Return(t, "OK")
  /\ target' = [target EXCEPT ![t] = t]
  /\ UNCHANGED <<req, cfgs, shutdown, deviceVars, asked, toClose>>

-----------------------------------------------------------------------------
(* CloseDevice and Shutdown. *)

\* Under devMu the device leaves the table; it is closed afterwards.
KeepsEntry(k) == UNCHANGED devices     \* mutant: the entry stays
DropsEntry(k) == devices' = [devices EXCEPT ![k] = None]

\* Only a device that was found is closed.
AlsoNil(h) == {h}                       \* mutant: the nil check is forgotten
Found(h)   == {h} \ {None}

CloseLookup(t) ==
  /\ pc[t] = "lookup" /\ req[t].op = "close"
  /\ DevMuFree
  /\ LET k == Key(req[t], req[t].dev) IN
     /\ toClose' = [toClose EXCEPT ![t] = Found(devices[k])]
     /\ DropsEntry(k)
  /\ Goto(t, "closing")
  /\ UNCHANGED <<req, resp, cfgs, shutdown, devMu, deviceVars, asked, target>>

ShutdownSwap(t) ==
  /\ pc[t] = "swap"
  /\ DevMuFree
  /\ toClose' = [toClose EXCEPT ![t] = {devices[k] : k \in Keys} \ {None}]
  /\ devices' = [k \in Keys |-> None]
  /\ Goto(t, "closing")
  /\ UNCHANGED <<req, resp, cfgs, shutdown, devMu, deviceVars, asked, target>>

\* device.Close: done first ...
CloseDone(t) ==
  /\ pc[t] = "closing"
  /\ \E h \in toClose[t] :
       /\ done' = [done EXCEPT ![h] = TRUE]
       /\ target' = [target EXCEPT ![t] = h]
  /\ Goto(t, "portclose")
  /\ UNCHANGED <<req, resp, cfgs, shutdown, tableVars, binding, portOpen, dead, asked, toClose>>

\* ... then the port.
ClosePort(t) ==
  /\ pc[t] = "portclose"
  /\ portOpen' = [portOpen EXCEPT ![target[t]] = FALSE]
  /\ toClose' = [toClose EXCEPT ![t] = @ \ {target[t]}]
  /\ Goto(t, "closing")
  /\ UNCHANGED <<req, resp, cfgs, shutdown, tableVars, binding, done, dead, asked, target>>

CloseReturns(t) ==
  /\ pc[t] = "closing" /\ toClose[t] = {}
  /\ Return(t, "OK")
  /\ UNCHANGED <<req, cfgs, shutdown, tableVars, deviceVars, localVars>>

-----------------------------------------------------------------------------
(* Execute's choice of a device. *)

Open(inst) == {h \in Threads : \E k \in Keys : devices[k] = h /\ binding[h].inst = inst}

\* With no device id, the only open device of the instance.
AnyOpen(r) ==                          \* mutant: the first one found
  IF r.dev # "" THEN r.dev
  ELSE IF Open(r.inst) # {} THEN binding[CHOOSE h \in Open(r.inst) : TRUE].dev ELSE ""
Addressed(r) ==
  IF r.dev # "" THEN r.dev
  ELSE IF Cardinality(Open(r.inst)) = 1
       THEN binding[CHOOSE h \in Open(r.inst) : TRUE].dev ELSE ""

ExecuteLookup(t) ==
  /\ pc[t] = "lookup" /\ req[t].op = "execute"
  /\ DevMuFree
  /\ LET h == devices[Key(req[t], Addressed(req[t]))] IN
     IF h = None
     THEN Return(t, "FAILED_PRECONDITION") /\ UNCHANGED target
     ELSE Goto(t, "send") /\ target' = [target EXCEPT ![t] = h] /\ UNCHANGED resp
  /\ UNCHANGED <<req, cfgs, shutdown, tableVars, deviceVars, asked, toClose>>

\* sendCommand on that device, outside every lock of the Driver (StcbCommand).
SendCommand(t) ==
  /\ pc[t] = "send"
  /\ Return(t, "SENT")
  /\ UNCHANGED <<req, cfgs, shutdown, tableVars, deviceVars, localVars>>

-----------------------------------------------------------------------------
\* The RX loop runs from the moment openDevice starts it.  It ends when the
\* port fails, or because the device is closed: markDead.  The port stays open
\* and the device stays in the table.
Started(h) == binding[h] # None /\ (pc[h] = "insert" \/ resp[h] = "OK")

DeviceDies(h) ==
  /\ Started(h)
  /\ ~dead[h]
  /\ dead' = [dead EXCEPT ![h] = TRUE]
  /\ done' = [done EXCEPT ![h] = TRUE]
  /\ UNCHANGED <<pc, req, resp, cfgs, shutdown, tableVars, binding, portOpen, localVars>>

Quiet == (\A t \in Threads : pc[t] = "end") /\ UNCHANGED vars

Arrives(t) ==
  \/ ConfigureInstance(t) \/ Discover(t) \/ OpenDevice(t) \/ Execute(t) \/ CloseDevice(t) \/ Shutdown(t)

\* The steps that wait for devMu, those that wait for the consumer of a Discover,
\* and the others.
TakesDevMu(t) == OpenLookup(t) \/ CloseLookup(t) \/ ShutdownSwap(t) \/ ExecuteLookup(t)
Sends(t) == DiscoverReports(t) \/ DiscoverFinishes(t)
Runs(t) ==
  \/ DiscoverLooks(t) \/ OpenConfigFor(t) \/ OpenPort(t) \/ SetReadTimeout(t) \/ OpenFails(t)
  \/ OpenInserts(t) \/ CloseDone(t) \/ ClosePort(t) \/ CloseReturns(t) \/ SendCommand(t)

Proceeds(t) == Runs(t) \/ Sends(t)

Next ==
  \/ \E t \in Threads : Arrives(t) \/ TakesDevMu(t) \/ Proceeds(t) \/ DeviceDies(t)
  \/ Quiet

Spec == Init /\ [][Next]_vars

\* A running goroutine is scheduled, system calls on a port return, a command
\* returns (CallsReturn of StcbCommand), and a sync.Mutex is handed to a waiter
\* that has starved.  No request has to come, and no consumer has to read.
Fairness == \A t \in Threads : WF_vars(Runs(t)) /\ SF_vars(TakesDevMu(t))

FairSpec == Spec /\ Fairness

-----------------------------------------------------------------------------
(* Properties. *)

\* An open port can still be closed: it belongs to a device in the table, to a
\* request that is opening it, or to one that is about to close it
\* (driver.go:565-574, driver.go:581-587, driver.go:939-945).
NoPortLeaked ==
  \A h \in Threads : portOpen[h] =>
    \/ \E k \in Keys : devices[k] = h
    \/ pc[h] \in {"timeout", "insert"}
    \/ \E t \in Threads : h \in toClose[t]

\* The table tells the truth: a device in it was opened for that key and its
\* port has not been closed under it, whichever requests overlap.
TableTruth ==
  \A k \in Keys : devices[k] # None =>
    /\ binding[devices[k]].inst = k.inst /\ binding[devices[k]].dev = k.dev
    /\ portOpen[devices[k]]

\* A device is closed by one request only, and a CloseDevice closes nothing but
\* the device it names: instances do not close each other's boards
\* (driver.go:269-270).
ClosesItsOwn ==
  \A t \in Threads : \A h \in toClose[t] :
    /\ \A u \in Threads \ {t} : h \notin toClose[u]
    /\ \A k \in Keys : devices[k] # h
    /\ req[t].op = "close" => binding[h].inst = req[t].inst /\ binding[h].dev = req[t].dev

\* OK to an OpenDevice means that the device of the answer has the binding that
\* was asked for, also when it was opened by somebody else (driver.go:522-523).
OpenOkMeansBound ==
  \A t \in Threads :
    (pc[t] = "end" /\ req[t].op = "open" /\ resp[t] = "OK") =>
      /\ binding[target[t]].inst = req[t].inst
      /\ SameBinding(binding[target[t]], asked[t])

\* A command goes to a board of its own instance, to the one it names, and if
\* it names none to the only board that was open when it was looked up: there
\* is no default board (README.md:66).
NeverTheDefaultBoard ==
  [][\A t \in Threads :
       (pc[t] = "lookup" /\ pc'[t] = "send") =>
         LET r == req[t]  h == target'[t] IN
         /\ binding[h].inst = r.inst
         /\ r.dev # "" => binding[h].dev = r.dev
         /\ r.dev = "" => Open(r.inst) = {h}]_vars

\* A device in the table is never replaced: it has to leave the table first, so
\* that new parameters cannot silently take over its key (driver.go:552-564,
\* README.md:40).
NeverReplaced ==
  [][\A k \in Keys : devices[k] # None => devices'[k] \in {devices[k], None}]_vars

\* A device that Discover reported can be opened from the configuration alone,
\* as long as its instance is not configured anew: the checks of Discover and
\* of openConfigFor, apart in the code, agree (driver.go:441-458, README.md:72).
FoundCanBeOpened ==
  [][\A t, u \in Threads :
       LET r == req[t] IN
       (/\ pc[t] = "resolve" /\ r.op = "open" /\ r.dev = "" /\ r.port = "" /\ r.attr = ""
        /\ resp[u] = "FOUND" /\ req[u].inst = r.inst /\ asked[u] = cfgs[r.inst])
       => pc'[t] # "end"]_vars

\* Every request returns, but for a Discover whose consumer has stopped reading
\* (driver.go:427), and that one holds up nobody else: no one keeps devMu for ever
\* (driver.go:544-574, driver.go:581-586).
RequestsReturn == \A t \in Threads : pc[t] # "idle" ~> pc[t] \in {"report", "finish", "end"}

\* Shutdown marks the driver stopped and closes the devices (driver.go:934):
\* once it has returned and no request runs, no port is open.
ShutdownClosesDevices ==
  ((\E t \in Threads : req[t] # None /\ req[t].op = "shutdown" /\ pc[t] = "end")
    /\ \A t \in Threads : pc[t] \in {"idle", "end"})
  => \A h \in Threads : ~portOpen[h]

\* OpenDevice opens the port and starts the RX loop (driver.go:532): it answers
\* OK for a device whose RX loop has not ended before it was looked up.
OpenOkMeansRunning ==
  [][\A t \in Threads :
       (req[t] # None /\ req[t].op = "open" /\ resp[t] = "none" /\ resp'[t] = "OK"
         /\ pc[t] = "lookup")
       => ~dead[target'[t]]]_vars
=============================================================================
