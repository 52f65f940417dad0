-------------------------- MODULE StcbRegistryProofs --------------------------
(***************************************************************************)
(* Theorems about StcbRegistry, for every set of requests, instances,      *)
(* device ids and ports, and for any number of requests that overlap.      *)
(***************************************************************************)
EXTENDS StcbRegistryInv, FiniteSetTheorems, TLAPS

\* What a request of each kind carries.
LEMMA RequestFields ==
  ASSUME NEW r \in Requests
  PROVE  /\ r.op = "configure" => r.inst \in Instances /\ r.cfg \in Configs \cup {None}
         /\ r.op = "open" => /\ r.inst \in Instances /\ r.dev \in DevIds \cup {""}
                             /\ r.port \in Ports \cup {""} /\ r.attr \in {"", "default", "other", "bad"}
         /\ r.op \in {"close", "execute"} => r.inst \in Instances /\ r.dev \in DevIds \cup {""}
         /\ r.op = "discover" => r.inst \in Instances
<1>1. r \in RequestSet
  BY RequestsAssumption DEF RequestsAssumption
<1> QED
  BY <1>1 DEF RequestSet

\* A key is its instance and its device id.
LEMMA KeyFacts ==
  /\ \A r : \A dev \in DevIds \cup {""} : r.inst \in Instances => Key(r, dev) \in Keys
  /\ \A r, dev : Key(r, dev).inst = r.inst /\ Key(r, dev).dev = dev
  /\ \A k \in Keys : k.inst \in Instances /\ k.dev \in DevIds \cup {""} /\ k = [inst |-> k.inst, dev |-> k.dev]
<1>1. ASSUME NEW r, NEW dev \in DevIds \cup {""}, r.inst \in Instances PROVE Key(r, dev) \in Keys
  BY <1>1 DEF Key, Keys
<1>2. ASSUME NEW r, NEW dev PROVE Key(r, dev).inst = r.inst /\ Key(r, dev).dev = dev
  BY DEF Key
<1>3. ASSUME NEW k \in Keys
      PROVE  k.inst \in Instances /\ k.dev \in DevIds \cup {""} /\ k = [inst |-> k.inst, dev |-> k.dev]
  BY DEF Keys
<1> QED
  BY <1>1, <1>2, <1>3

\* The parameters of a request and of its instance resolve to a deviceConfig.
LEMMA ResolvedType ==
  ASSUME NEW r \in Requests, r.op = "open", NEW def \in Configs
  PROVE  Resolved(r, def) \in Configs
  BY RequestFields DEF Resolved, Configs, Attrs

\* What a request asks for is a binding.
LEMMA AskedType ==
  ASSUME NEW t \in Threads, req[t].inst \in Instances, asked[t] \in Configs
  PROVE  Asked(t) \in Bindings /\ Asked(t).inst = req[t].inst /\ Asked(t).dev = asked[t].dev
<1>1. /\ asked[t].dev \in DevIds \cup {""}
      /\ asked[t].port \in Ports \cup {""}
      /\ asked[t].attr \in Attrs
  BY DEF Configs
<1>2. \A i \in Instances, d \in DevIds \cup {""}, p \in Ports \cup {""}, a \in Attrs :
        [inst |-> i, dev |-> d, port |-> p, attr |-> a] \in Bindings
  BY DEF Bindings
<1> QED
  BY <1>1, <1>2 DEF Asked

\* A device in the table was opened by an OpenDevice, for the key it is under,
\* which names it.
LEMMA TableFacts ==
  ASSUME RegistryInv, NEW k \in Keys, devices[k] # None
  PROVE  /\ devices[k] \in Threads
         /\ binding[devices[k]] \in Bindings
         /\ binding[devices[k]].inst = k.inst
         /\ binding[devices[k]].dev = k.dev
         /\ k.dev # "" /\ k.dev \in DevIds
<1>1. devices[k] \in Threads /\ Made(devices[k]) /\ pc[devices[k]] = "end"
  BY DEF RegistryInv, TypeOK, OwnerInv, TableInv
<1>2. req[devices[k]] \in Requests
  BY <1>1 DEF RegistryInv, ControlInv, Control
<1>3. binding[devices[k]] = Asked(devices[k]) /\ req[devices[k]].inst \in Instances /\ asked[devices[k]] \in Configs
  BY <1>1, <1>2, RequestFields DEF RegistryInv, TypeOK, Made, Op
<1>4. binding[devices[k]].inst = k.inst /\ binding[devices[k]].dev = k.dev
  BY DEF RegistryInv, TableTruth
<1>5. binding[devices[k]] \in Bindings /\ binding[devices[k]].dev = asked[devices[k]].dev
  BY <1>1, <1>3, AskedType
<1> QED
  BY <1>1, <1>4, <1>5 DEF Made, Complete, Bindings

\* Execute's address: the device that is named, or the only one of the instance
\* that is open, or nothing that is in the table.
LEMMA AddressedFacts ==
  ASSUME RegistryInv, NEW r \in Requests, r.op = "execute"
  PROVE  LET h == devices[Key(r, Addressed(r))] IN
         /\ Key(r, Addressed(r)) \in Keys
         /\ h # None => /\ h \in Threads
                        /\ binding[h].inst = r.inst
                        /\ r.dev # "" => binding[h].dev = r.dev
                        /\ r.dev = "" => Open(r.inst) = {h}
<1>1. r.inst \in Instances /\ r.dev \in DevIds \cup {""}
  BY RequestFields
<1>2. CASE r.dev # ""
  <2>1. Addressed(r) = r.dev /\ Key(r, r.dev) \in Keys
    BY <1>1, <1>2, KeyFacts DEF Addressed
  <2> DEFINE k == Key(r, r.dev)
  <2>2. k \in Keys /\ k.inst = r.inst /\ k.dev = r.dev
    BY <2>1, KeyFacts
  <2> HIDE DEF k
  <2>3. devices[k] # None => /\ devices[k] \in Threads
                             /\ binding[devices[k]].inst = r.inst
                             /\ binding[devices[k]].dev = r.dev
    BY <2>2, TableFacts
  <2> QED
    BY <1>2, <2>1, <2>2, <2>3 DEF k
<1>3. CASE r.dev = "" /\ Cardinality(Open(r.inst)) = 1
  <2>1. IsFiniteSet(Open(r.inst))
    <3>1. Open(r.inst) \in SUBSET {h \in Threads : \E k \in Keys : devices[k] = h}
      BY DEF Open
    <3> QED
      BY <3>1, FS_Subset DEF RegistryInv, TableFinite
  <2>2. PICK h : Open(r.inst) = {h}
    BY <1>3, <2>1, FS_Singleton
  <2>3. PICK k \in Keys : devices[k] = h /\ binding[h].inst = r.inst /\ h \in Threads
    BY <2>2 DEF Open
  <2>4. h # None
    BY <2>3, NoneAssumption DEF NoneAssumption
  <2>5. binding[h].dev = k.dev /\ k.inst = r.inst
    BY <2>3, <2>4, TableFacts
  <2>6. Addressed(r) = k.dev
    BY <1>3, <2>2, <2>5 DEF Addressed
  <2>7. Key(r, k.dev) = k
    BY <2>5, KeyFacts DEF Key, Keys
  <2> QED
    BY <1>3, <2>2, <2>3, <2>6, <2>7
<1>4. CASE r.dev = "" /\ Cardinality(Open(r.inst)) # 1
  <2>1. Addressed(r) = ""
    BY <1>4 DEF Addressed
  <2>2. Key(r, "") \in Keys /\ Key(r, "").dev = ""
    BY <1>1, KeyFacts
  <2> QED
    BY <2>1, <2>2, TableFacts
<1> QED
  BY <1>2, <1>3, <1>4

-----------------------------------------------------------------------------
(* Typing. *)

LEMMA TypeInit == Init => TypeOK
<1> SUFFICES ASSUME Init PROVE TypeOK
  OBVIOUS
<1>1. NoConfig \in Configs
  BY DEF NoConfig, Configs, Attrs
<1> QED
  BY <1>1 DEF Init, TypeOK, PCs, Responses

\* What the steps of a handler know of their request.
LEMMA Handled ==
  ASSUME TypeOK, ControlInv, NEW t \in Threads
  PROVE  /\ pc[t] = "resolve" => req[t].inst \in Instances /\ cfgs[req[t].inst] \in Configs
         /\ (pc[t] = "resolve" /\ Op(t) = "open") => Resolved(req[t], cfgs[req[t].inst]) \in Configs
         /\ ((pc[t] = "lookup" /\ Op(t) = "open") \/ pc[t] \in Holding) =>
              /\ req[t].inst \in Instances
              /\ Key(req[t], asked[t].dev) \in Keys
              /\ Key(req[t], asked[t].dev).inst = req[t].inst
              /\ Key(req[t], asked[t].dev).dev = asked[t].dev
              /\ devices[Key(req[t], asked[t].dev)] \in Threads \cup {None}
              /\ Asked(t) \in Bindings
         /\ (pc[t] = "lookup" /\ Op(t) = "close") =>
              /\ req[t].inst \in Instances
              /\ Key(req[t], req[t].dev) \in Keys
              /\ Key(req[t], req[t].dev).inst = req[t].inst
              /\ Key(req[t], req[t].dev).dev = req[t].dev
              /\ devices[Key(req[t], req[t].dev)] \in Threads \cup {None}
<1>1. pc[t] # "idle" => req[t] \in Requests
  BY DEF ControlInv, Control
<1>2. pc[t] = "resolve" => req[t].inst \in Instances /\ cfgs[req[t].inst] \in Configs
  BY <1>1, RequestFields DEF ControlInv, Control, Op, TypeOK
<1>3. (pc[t] = "resolve" /\ Op(t) = "open") => Resolved(req[t], cfgs[req[t].inst]) \in Configs
  BY <1>1, <1>2, ResolvedType DEF Op
<1>4. ASSUME (pc[t] = "lookup" /\ Op(t) = "open") \/ pc[t] \in Holding
      PROVE  req[t].inst \in Instances /\ asked[t].dev \in DevIds \cup {""} /\ asked[t] \in Configs
  <2>1. Op(t) = "open" /\ req[t] \in Requests
    BY <1>1, <1>4 DEF ControlInv, Control, Holding
  <2>2. asked[t] \in Configs
    BY DEF TypeOK
  <2> QED
    BY <2>1, <2>2, RequestFields DEF Op, Configs
<1>5. ASSUME pc[t] = "lookup", Op(t) = "close"
      PROVE  req[t].inst \in Instances /\ req[t].dev \in DevIds \cup {""}
  BY <1>1, <1>5, RequestFields DEF Op
<1>6. ASSUME req[t].inst \in Instances, NEW dev \in DevIds \cup {""}
      PROVE  /\ Key(req[t], dev) \in Keys /\ devices[Key(req[t], dev)] \in Threads \cup {None}
             /\ Key(req[t], dev).inst = req[t].inst /\ Key(req[t], dev).dev = dev
  BY <1>6, KeyFacts DEF TypeOK
<1> QED
  BY <1>2, <1>3, <1>4, <1>5, <1>6, AskedType

LEMMA TypeNext == RegistryInv /\ [Next]_vars => TypeOK'
<1> SUFFICES ASSUME RegistryInv, [Next]_vars PROVE TypeOK'
  OBVIOUS
<1> USE DEF tableVars, deviceVars, localVars, Goto, Return, Begin, PCs, Responses
<1>0. TypeOK /\ ControlInv
  BY DEF RegistryInv
<1>1. ASSUME NEW t \in Threads, ConfigureInstance(t) PROVE TypeOK'
  <2>1. PICK r \in Requests : r.op = "configure" /\ ConfigureInstance(t)!(r)
    BY <1>1 DEF ConfigureInstance
  <2>2. cfgs' \in [Instances -> Configs]
    BY <1>0, <2>1, RequestFields DEF TypeOK
  <2> QED
    BY <1>0, <2>1, <2>2 DEF TypeOK
<1>2. ASSUME NEW t \in Threads, Discover(t) PROVE TypeOK'
  BY <1>0, <1>2 DEF TypeOK, Discover
<1>3. ASSUME NEW t \in Threads, OpenDevice(t) PROVE TypeOK'
  BY <1>0, <1>3 DEF TypeOK, OpenDevice
<1>4. ASSUME NEW t \in Threads, Execute(t) PROVE TypeOK'
  BY <1>0, <1>4 DEF TypeOK, Execute
<1>5. ASSUME NEW t \in Threads, CloseDevice(t) PROVE TypeOK'
  BY <1>0, <1>5 DEF TypeOK, CloseDevice
<1>6. ASSUME NEW t \in Threads, Shutdown(t) PROVE TypeOK'
  BY <1>0, <1>6 DEF TypeOK, Shutdown
<1>7. ASSUME NEW t \in Threads, DiscoverLooks(t) PROVE TypeOK'
  <2>1. asked' \in [Threads -> Configs]
    BY <1>0, <1>7, Handled DEF TypeOK, DiscoverLooks
  <2> QED
    BY <1>0, <1>7, <2>1 DEF TypeOK, DiscoverLooks
<1>7a. ASSUME NEW t \in Threads, DiscoverReports(t) \/ DiscoverFinishes(t) PROVE TypeOK'
  BY <1>0, <1>7a DEF TypeOK, DiscoverReports, DiscoverFinishes
<1>8. ASSUME NEW t \in Threads, OpenConfigFor(t) PROVE TypeOK'
  <2>1. asked' \in [Threads -> Configs]
    BY <1>0, <1>8, Handled DEF TypeOK, Op, OpenConfigFor
  <2> QED
    BY <1>0, <1>8, <2>1 DEF TypeOK, OpenConfigFor
<1>9. ASSUME NEW t \in Threads, OpenLookup(t) PROVE TypeOK'
  <2> DEFINE h == devices[Key(req[t], asked[t].dev)]
  <2>1. h \in Threads \cup {None}
    BY <1>0, <1>9, Handled DEF OpenLookup, Op
  <2>2. target' \in [Threads -> Threads \cup {None}] /\ devMu' \in Threads \cup {None}
    BY <1>0, <1>9, <2>1 DEF TypeOK, OpenLookup
  <2>3. pc' \in [Threads -> PCs] /\ resp' \in [Threads -> Responses]
    BY <1>0, <1>9 DEF TypeOK, OpenLookup
  <2> QED
    BY <1>0, <1>9, <2>2, <2>3 DEF TypeOK, OpenLookup
<1>10. ASSUME NEW t \in Threads, OpenPort(t) PROVE TypeOK'
  <2>1. binding' = [binding EXCEPT ![t] = Asked(t)] \/ binding' = binding
    BY <1>10 DEF OpenPort, Asked
  <2>2. Asked(t) \in Bindings
    BY <1>0, <1>10, Handled DEF OpenPort, Holding
  <2>3. binding' \in [Threads -> Bindings \cup {None}]
    BY <1>0, <1>10, <2>1, <2>2 DEF TypeOK
  <2>4. portOpen' \in [Threads -> BOOLEAN] /\ pc' \in [Threads -> PCs]
    BY <1>0, <1>10 DEF TypeOK, OpenPort
  <2> QED
    BY <1>0, <1>10, <2>3, <2>4 DEF TypeOK, OpenPort
<1>11. ASSUME NEW t \in Threads, SetReadTimeout(t) PROVE TypeOK'
  <2>1. portOpen' = portOpen \/ portOpen' = [portOpen EXCEPT ![t] = FALSE]
    BY <1>11 DEF SetReadTimeout, GivesPortBack
  <2>2. portOpen' \in [Threads -> BOOLEAN]
    BY <1>0, <1>11, <2>1 DEF TypeOK
  <2>3. pc' \in [Threads -> PCs]
    BY <1>0, <1>11 DEF TypeOK, SetReadTimeout
  <2> QED
    BY <1>0, <1>11, <2>2, <2>3 DEF TypeOK, SetReadTimeout
<1>12. ASSUME NEW t \in Threads, OpenFails(t) PROVE TypeOK'
  BY <1>0, <1>12 DEF TypeOK, OpenFails, ReleasesLock
<1>13. ASSUME NEW t \in Threads, OpenInserts(t) PROVE TypeOK'
  BY <1>0, <1>13 DEF TypeOK, OpenInserts
<1>14. ASSUME NEW t \in Threads, CloseLookup(t) PROVE TypeOK'
  <2> DEFINE k == Key(req[t], req[t].dev)
  <2>1. k \in Keys /\ devices[k] \in Threads \cup {None}
    BY <1>0, <1>14, Handled DEF CloseLookup, Op
  <2>2. toClose' = [toClose EXCEPT ![t] = Found(devices[k])] /\ devices' = [devices EXCEPT ![k] = None]
    BY <1>14 DEF CloseLookup, DropsEntry
  <2>3. Found(devices[k]) \subseteq Threads
    BY <2>1 DEF Found
  <2> HIDE DEF k
  <2>4. toClose' \in [Threads -> SUBSET Threads] /\ devices' \in [Keys -> Threads \cup {None}]
    BY <1>0, <2>2, <2>3 DEF TypeOK
  <2> QED
    BY <1>0, <1>14, <2>4 DEF TypeOK, CloseLookup
<1>15. ASSUME NEW t \in Threads, ShutdownSwap(t) PROVE TypeOK'
  BY <1>0, <1>15 DEF TypeOK, ShutdownSwap
<1>16. ASSUME NEW t \in Threads, CloseDone(t) PROVE TypeOK'
  BY <1>0, <1>16 DEF TypeOK, CloseDone
<1>17. ASSUME NEW t \in Threads, ClosePort(t) PROVE TypeOK'
  BY <1>0, <1>17 DEF TypeOK, ClosePort
<1>18. ASSUME NEW t \in Threads, CloseReturns(t) PROVE TypeOK'
  BY <1>0, <1>18 DEF TypeOK, CloseReturns
<1>19. ASSUME NEW t \in Threads, ExecuteLookup(t) PROVE TypeOK'
  BY <1>0, <1>19, AddressedFacts DEF TypeOK, ControlInv, Control, Op, ExecuteLookup
<1>20. ASSUME NEW t \in Threads, SendCommand(t) PROVE TypeOK'
  BY <1>0, <1>20 DEF TypeOK, SendCommand
<1>21. ASSUME NEW h \in Threads, DeviceDies(h) PROVE TypeOK'
  BY <1>0, <1>21 DEF TypeOK, DeviceDies
<1>22. ASSUME UNCHANGED vars PROVE TypeOK'
  BY <1>0, <1>22 DEF TypeOK, vars
<1> QED
  BY <1>1, <1>2, <1>3, <1>4, <1>5, <1>6, <1>7, <1>7a, <1>8, <1>9, <1>10, <1>11, <1>12, <1>13, <1>14, <1>15,
     <1>16, <1>17, <1>18, <1>19, <1>20, <1>21, <1>22 DEF Next, Arrives, TakesDevMu, Proceeds, Runs, Sends, Quiet

-----------------------------------------------------------------------------
(* Which handler runs which step. *)

\* A step of one request leaves the locals of the others, and their devices'
\* bindings, alone.
LEMMA OthersKeep ==
  ASSUME TypeOK, NEW t \in Threads, Arrives(t) \/ TakesDevMu(t) \/ Proceeds(t),
         NEW u \in Threads, u # t
  PROVE  /\ pc'[u] = pc[u] /\ req'[u] = req[u] /\ resp'[u] = resp[u] /\ asked'[u] = asked[u]
         /\ toClose'[u] = toClose[u] /\ target'[u] = target[u] /\ binding'[u] = binding[u]
<1> USE DEF tableVars, deviceVars, localVars, Goto, Return, Begin, TypeOK
<1>1. CASE Arrives(t)
  BY <1>1 DEF Arrives, ConfigureInstance, Discover, OpenDevice, Execute, CloseDevice, Shutdown
<1>2. CASE OpenLookup(t)
  BY <1>2 DEF OpenLookup
<1>3. CASE CloseLookup(t)
  BY <1>3 DEF CloseLookup
<1>4. CASE ShutdownSwap(t) \/ ExecuteLookup(t)
  BY <1>4 DEF ShutdownSwap, ExecuteLookup
<1>5. CASE DiscoverLooks(t) \/ Sends(t) \/ OpenConfigFor(t)
  BY <1>5 DEF Sends, DiscoverLooks, DiscoverReports, DiscoverFinishes, OpenConfigFor
<1>6. CASE OpenPort(t)
  BY <1>6 DEF OpenPort
<1>7. CASE SetReadTimeout(t) \/ OpenFails(t) \/ OpenInserts(t)
  BY <1>7 DEF SetReadTimeout, OpenFails, OpenInserts
<1>8. CASE CloseDone(t)
  BY <1>8 DEF CloseDone
<1>9. CASE ClosePort(t)
  BY <1>9 DEF ClosePort
<1>10. CASE CloseReturns(t) \/ SendCommand(t)
  BY <1>10 DEF CloseReturns, SendCommand
<1> QED
  BY <1>1, <1>2, <1>3, <1>4, <1>5, <1>6, <1>7, <1>8, <1>9, <1>10 DEF TakesDevMu, Proceeds, Runs, Sends

LEMMA ControlNext == RegistryInv /\ [Next]_vars => ControlInv'
<1> SUFFICES ASSUME RegistryInv, [Next]_vars PROVE ControlInv'
  OBVIOUS
<1>0. TypeOK /\ ControlInv
  BY DEF RegistryInv
<1>1. ASSUME NEW t \in Threads, Arrives(t) \/ TakesDevMu(t) \/ Proceeds(t) PROVE ControlInv'
  <2> USE DEF tableVars, deviceVars, localVars, Goto, Return, Begin, Op, Holding, Complete, Control
  <2>0. Control(t)
    BY <1>0, <1>1 DEF ControlInv
  <2>1. ConfigureInstance(t) => Control(t)'
    BY <1>0, <1>1, <2>0 DEF TypeOK, ConfigureInstance
  <2>2. Discover(t) => Control(t)'
    BY <1>0, <1>1, <2>0 DEF TypeOK, Discover
  <2>3. ASSUME OpenDevice(t) PROVE Control(t)'
    <3>1. PICK r \in Requests : r.op = "open" /\ req' = [req EXCEPT ![t] = r]
      BY <2>3 DEF OpenDevice
    <3>2. req'[t] = r /\ asked'[t] = asked[t]
      BY <1>0, <1>1, <2>3, <3>1 DEF OpenDevice, TypeOK
    <3>3. \/ pc'[t] = "end" /\ resp'[t] = "UNAVAILABLE"
          \/ pc'[t] = "resolve" /\ resp'[t] = resp[t] /\ pc[t] = "idle"
      BY <1>0, <1>1, <2>3 DEF OpenDevice, TypeOK
    <3> QED
      BY <2>0, <3>1, <3>2, <3>3
  <2>4. ASSUME Execute(t) PROVE Control(t)'
    <3>1. PICK r \in Requests : r.op = "execute" /\ req' = [req EXCEPT ![t] = r]
      BY <2>4 DEF Execute
    <3>2. req'[t] = r /\ asked'[t] = asked[t]
      BY <1>0, <1>1, <2>4, <3>1 DEF Execute, TypeOK
    <3>3. \/ pc'[t] = "end" /\ resp'[t] = "UNAVAILABLE"
          \/ pc'[t] = "lookup" /\ resp'[t] = resp[t] /\ pc[t] = "idle"
      BY <1>0, <1>1, <2>4 DEF Execute, TypeOK
    <3> QED
      BY <2>0, <3>1, <3>2, <3>3
  <2>5. CloseDevice(t) => Control(t)'
    BY <1>0, <1>1, <2>0 DEF TypeOK, CloseDevice
  <2>6. Shutdown(t) => Control(t)'
    BY <1>0, <1>1, <2>0 DEF TypeOK, Shutdown
  <2>7. DiscoverLooks(t) => Control(t)'
    BY <1>0, <1>1, <2>0 DEF TypeOK, DiscoverLooks
  <2>7a. DiscoverReports(t) => Control(t)'
    BY <1>0, <1>1, <2>0 DEF TypeOK, DiscoverReports
  <2>7b. DiscoverFinishes(t) => Control(t)'
    BY <1>0, <1>1, <2>0 DEF TypeOK, DiscoverFinishes
  <2>8. OpenConfigFor(t) => Control(t)'
    BY <1>0, <1>1, <2>0 DEF TypeOK, OpenConfigFor
  <2>9. OpenLookup(t) => Control(t)'
    BY <1>0, <1>1, <2>0 DEF TypeOK, OpenLookup
  <2>10. OpenPort(t) => Control(t)'
    BY <1>0, <1>1, <2>0 DEF TypeOK, OpenPort
  <2>11. SetReadTimeout(t) => Control(t)'
    BY <1>0, <1>1, <2>0 DEF TypeOK, SetReadTimeout
  <2>12. OpenFails(t) => Control(t)'
    BY <1>0, <1>1, <2>0 DEF TypeOK, OpenFails
  <2>13. OpenInserts(t) => Control(t)'
    BY <1>0, <1>1, <2>0 DEF TypeOK, OpenInserts
  <2>14. CloseLookup(t) => Control(t)'
    BY <1>0, <1>1, <2>0 DEF TypeOK, CloseLookup
  <2>15. ASSUME ShutdownSwap(t) PROVE Control(t)'
    <3>1. pc[t] = "swap" /\ pc' = [pc EXCEPT ![t] = "closing"] /\ UNCHANGED <<req, resp, asked>>
      BY <2>15 DEF ShutdownSwap
    <3> QED
      BY <1>0, <1>1, <2>0, <3>1 DEF TypeOK
  <2>16. CloseDone(t) => Control(t)'
    BY <1>0, <1>1, <2>0 DEF TypeOK, CloseDone
  <2>17. ClosePort(t) => Control(t)'
    BY <1>0, <1>1, <2>0 DEF TypeOK, ClosePort
  <2>18. CloseReturns(t) => Control(t)'
    BY <1>0, <1>1, <2>0 DEF TypeOK, CloseReturns
  <2>19. ExecuteLookup(t) => Control(t)'
    BY <1>0, <1>1, <2>0 DEF TypeOK, ExecuteLookup
  <2>20. SendCommand(t) => Control(t)'
    BY <1>0, <1>1, <2>0 DEF TypeOK, SendCommand
  <2>21. Control(t)'
    BY <1>1, <2>1, <2>2, <2>3, <2>4, <2>5, <2>6, <2>7, <2>7a, <2>7b, <2>8, <2>9, <2>10, <2>11, <2>12,
       <2>13, <2>14,
       <2>15, <2>16, <2>17, <2>18, <2>19, <2>20 DEF Arrives, TakesDevMu, Proceeds, Runs, Sends
  <2>22. ASSUME NEW u \in Threads, u # t PROVE Control(u)'
    <3>1. Control(u)
      BY <1>0, <2>22 DEF ControlInv
    <3>2. pc'[u] = pc[u] /\ req'[u] = req[u] /\ resp'[u] = resp[u] /\ asked'[u] = asked[u]
      BY <1>0, <1>1, <2>22, OthersKeep
    <3> QED
      BY <3>1, <3>2
  <2> QED
    BY <2>21, <2>22 DEF ControlInv
<1>2. ASSUME NEW h \in Threads, DeviceDies(h) PROVE ControlInv'
  BY <1>0, <1>2 DEF DeviceDies, ControlInv, Control, Op, localVars
<1>3. ASSUME UNCHANGED vars PROVE ControlInv'
  BY <1>0, <1>3 DEF vars, ControlInv, Control, Op
<1> QED
  BY <1>1, <1>2, <1>3 DEF Next, Quiet

-----------------------------------------------------------------------------
(* devMu. *)

\* The four ways of a step to deal with devMu and the table: leave both alone,
\* keep the lock for a key that is free, give it back, and change the table
\* while nobody holds it.
LEMMA LockSteps ==
  ASSUME TypeOK, NEW t \in Threads, Arrives(t) \/ TakesDevMu(t) \/ Proceeds(t)
  PROVE  \/ /\ devMu' = devMu /\ devices' = devices
            /\ pc'[t] \in Holding <=> pc[t] \in Holding
            /\ pc[t] \in Holding => req'[t] = req[t] /\ asked'[t] = asked[t]
         \/ /\ OpenLookup(t)
            /\ devMu = None /\ devMu' = t /\ pc'[t] = "port" /\ devices' = devices
            /\ devices[Key(req[t], asked[t].dev)] = None /\ req' = req /\ asked' = asked
         \/ /\ OpenFails(t) \/ OpenInserts(t)
            /\ pc[t] \in Holding /\ devMu' = None /\ pc'[t] = "end"
         \/ /\ CloseLookup(t) \/ ShutdownSwap(t)
            /\ devMu = None /\ devMu' = None /\ pc[t] \notin Holding /\ pc'[t] \notin Holding
<1> USE DEF tableVars, deviceVars, localVars, Goto, Return, Begin, Holding, TypeOK
<1>1. CASE Arrives(t)
  BY <1>1 DEF Arrives, ConfigureInstance, Discover, OpenDevice, Execute, CloseDevice, Shutdown
<1>2. CASE OpenLookup(t)
  <2>1. CASE devices[Key(req[t], asked[t].dev)] = None
    BY <1>2, <2>1 DEF OpenLookup, DevMuFree
  <2>2. CASE devices[Key(req[t], asked[t].dev)] # None
    BY <1>2, <2>2 DEF OpenLookup
  <2> QED
    BY <2>1, <2>2
<1>3. CASE CloseLookup(t)
  BY <1>3 DEF CloseLookup, DevMuFree
<1>4. CASE ShutdownSwap(t)
  <2>1. pc[t] = "swap" /\ pc' = [pc EXCEPT ![t] = "closing"] /\ devMu = None /\ devMu' = devMu
    BY <1>4 DEF ShutdownSwap, DevMuFree
  <2> QED
    BY <1>4, <2>1
<1>5. CASE ExecuteLookup(t)
  BY <1>5 DEF ExecuteLookup
<1>6. CASE DiscoverLooks(t) \/ Sends(t) \/ OpenConfigFor(t)
  BY <1>6 DEF Sends, DiscoverLooks, DiscoverReports, DiscoverFinishes, OpenConfigFor
<1>7. CASE OpenPort(t) \/ SetReadTimeout(t)
  BY <1>7 DEF OpenPort, SetReadTimeout
<1>8. CASE OpenFails(t) \/ OpenInserts(t)
  BY <1>8 DEF OpenFails, OpenInserts, ReleasesLock
<1>9. CASE CloseDone(t) \/ ClosePort(t)
  BY <1>9 DEF CloseDone, ClosePort
<1>10. CASE CloseReturns(t) \/ SendCommand(t)
  BY <1>10 DEF CloseReturns, SendCommand
<1> QED
  BY <1>1, <1>2, <1>3, <1>4, <1>5, <1>6, <1>7, <1>8, <1>9, <1>10 DEF TakesDevMu, Proceeds, Runs, Sends

LEMMA LockNext == RegistryInv /\ [Next]_vars => LockInv'
<1> SUFFICES ASSUME RegistryInv, [Next]_vars PROVE LockInv'
  OBVIOUS
<1>0. TypeOK /\ LockInv /\ None \notin Threads
  BY NoneAssumption DEF RegistryInv, NoneAssumption
<1>1. ASSUME NEW t \in Threads, Arrives(t) \/ TakesDevMu(t) \/ Proceeds(t) PROVE LockInv'
  <2>1. \A u \in Threads : u # t => pc'[u] = pc[u] /\ req'[u] = req[u] /\ asked'[u] = asked[u]
    BY <1>0, <1>1, OthersKeep
  <2>2. CASE /\ devMu' = devMu /\ devices' = devices
             /\ pc'[t] \in Holding <=> pc[t] \in Holding
             /\ pc[t] \in Holding => req'[t] = req[t] /\ asked'[t] = asked[t]
    <3>1. \A u \in Threads : pc'[u] \in Holding <=> pc[u] \in Holding
      BY <2>1, <2>2
    <3>2. ASSUME NEW u \in Threads, pc'[u] \in Holding
          PROVE  devMu' = u /\ devices'[Key(req'[u], asked'[u].dev)] = None
      BY <1>0, <2>1, <2>2, <3>1, <3>2 DEF LockInv
    <3>3. devMu' # None => pc'[devMu'] \in Holding
      BY <1>0, <2>2, <3>1 DEF LockInv, TypeOK
    <3> QED
      BY <3>2, <3>3 DEF LockInv, Key
  <2>3. CASE /\ devMu = None /\ devMu' = t /\ pc'[t] = "port" /\ devices' = devices
             /\ devices[Key(req[t], asked[t].dev)] = None /\ req' = req /\ asked' = asked
    BY <1>0, <2>1, <2>3 DEF LockInv, Key, Holding
  <2>4. CASE pc[t] \in Holding /\ devMu' = None /\ pc'[t] = "end"
    BY <1>0, <1>1, <2>1, <2>4 DEF LockInv, Holding
  <2>5. CASE devMu = None /\ devMu' = None /\ pc[t] \notin Holding /\ pc'[t] \notin Holding
    BY <1>0, <2>1, <2>5 DEF LockInv
  <2> QED
    BY <1>0, <1>1, <2>2, <2>3, <2>4, <2>5, LockSteps
<1>2. ASSUME NEW h \in Threads, DeviceDies(h) PROVE LockInv'
  BY <1>0, <1>2 DEF DeviceDies, LockInv, Key, tableVars, localVars
<1>3. ASSUME UNCHANGED vars PROVE LockInv'
  BY <1>0, <1>3 DEF vars, LockInv, Key
<1> QED
  BY <1>1, <1>2, <1>3 DEF Next, Quiet

-----------------------------------------------------------------------------
(* Devices and their owners. *)

\* A request that has returned takes no more steps.
LEMMA ReturnedKeep ==
  ASSUME TypeOK, [Next]_vars, NEW h \in Threads, pc[h] = "end"
  PROVE  /\ pc'[h] = "end" /\ req'[h] = req[h] /\ resp'[h] = resp[h] /\ asked'[h] = asked[h]
         /\ toClose'[h] = toClose[h] /\ target'[h] = target[h] /\ binding'[h] = binding[h]
<1>1. ASSUME NEW t \in Threads, Arrives(t) \/ TakesDevMu(t) \/ Proceeds(t) PROVE pc[t] # "end"
  BY <1>1 DEF Arrives, TakesDevMu, Proceeds, Runs, Sends, ConfigureInstance, Discover, OpenDevice, Execute,
     CloseDevice,
     Shutdown, DiscoverLooks, DiscoverReports, DiscoverFinishes, OpenConfigFor, OpenLookup, OpenPort,
     SetReadTimeout, OpenFails, OpenInserts,
     CloseLookup, ShutdownSwap, CloseDone, ClosePort, CloseReturns, ExecuteLookup, SendCommand, Begin
<1>2. ASSUME NEW t \in Threads, Arrives(t) \/ TakesDevMu(t) \/ Proceeds(t)
      PROVE  /\ pc'[h] = "end" /\ req'[h] = req[h] /\ resp'[h] = resp[h] /\ asked'[h] = asked[h]
             /\ toClose'[h] = toClose[h] /\ target'[h] = target[h] /\ binding'[h] = binding[h]
  BY <1>1, <1>2, OthersKeep
<1> QED
  BY <1>2 DEF Next, Quiet, DeviceDies, vars, localVars

\* How a step changes the table and what is to be closed: not at all, but for
\* a device that is off the list when its port is closed; a device comes in; a
\* device, or all of them, go over to the request that closes them.
LEMMA TableSteps ==
  ASSUME TypeOK, ControlInv, NEW t \in Threads, Arrives(t) \/ TakesDevMu(t) \/ Proceeds(t)
  PROVE  \/ devices' = devices /\ toClose' = toClose /\ ~ClosePort(t)
         \/ /\ ClosePort(t) /\ devices' = devices /\ pc'[t] = "closing"
            /\ toClose'[t] = toClose[t] \ {target[t]}
         \/ /\ pc[t] = "insert" /\ pc'[t] = "end" /\ toClose' = toClose
            /\ devices' = [devices EXCEPT ![Key(req[t], asked[t].dev)] = t]
         \/ /\ pc[t] = "lookup" /\ Op(t) = "close" /\ pc'[t] = "closing" /\ devMu = None
            /\ toClose'[t] = Found(devices[Key(req[t], req[t].dev)])
            /\ devices' = [devices EXCEPT ![Key(req[t], req[t].dev)] = None]
         \/ /\ pc[t] = "swap" /\ pc'[t] = "closing" /\ devMu = None
            /\ toClose'[t] = {devices[k] : k \in Keys} \ {None}
            /\ devices' = [k \in Keys |-> None]
<1> USE DEF tableVars, deviceVars, localVars, Goto, Return, Begin, TypeOK
<1>1. CASE Arrives(t)
  BY <1>1 DEF Arrives, ConfigureInstance, Discover, OpenDevice, Execute, CloseDevice, Shutdown, ClosePort
<1>2. CASE OpenLookup(t) \/ ExecuteLookup(t)
  BY <1>2 DEF OpenLookup, ExecuteLookup, ClosePort
<1>3. CASE CloseLookup(t)
  BY <1>3 DEF CloseLookup, DevMuFree, DropsEntry, Op
<1>4. CASE ShutdownSwap(t)
  BY <1>4 DEF ShutdownSwap, DevMuFree
<1>5. CASE DiscoverLooks(t) \/ Sends(t) \/ OpenConfigFor(t) \/ OpenPort(t) \/ SetReadTimeout(t) \/ OpenFails(t)
  BY <1>5 DEF Sends, DiscoverLooks, DiscoverReports, DiscoverFinishes, OpenConfigFor, OpenPort,
     SetReadTimeout, OpenFails, ClosePort
<1>6. CASE OpenInserts(t)
  BY <1>6 DEF OpenInserts
<1>7. CASE CloseDone(t) \/ CloseReturns(t) \/ SendCommand(t)
  BY <1>7 DEF CloseDone, CloseReturns, SendCommand, ClosePort
<1>8. CASE ClosePort(t)
  BY <1>8 DEF ClosePort
<1> QED
  BY <1>1, <1>2, <1>3, <1>4, <1>5, <1>6, <1>7, <1>8 DEF TakesDevMu, Proceeds, Runs, Sends

\* How a step changes a port: it is opened for the device that is being opened;
\* it is given back when the timeout cannot be set; it is closed.
LEMMA PortSteps ==
  ASSUME TypeOK, NEW t \in Threads, Arrives(t) \/ TakesDevMu(t) \/ Proceeds(t)
  PROVE  \/ portOpen' = portOpen /\ ~ClosePort(t)
         \/ OpenPort(t) /\ pc'[t] = "timeout" /\ portOpen' = [portOpen EXCEPT ![t] = TRUE]
         \/ pc[t] = "timeout" /\ pc'[t] = "fail" /\ portOpen' = [portOpen EXCEPT ![t] = FALSE] /\ ~ClosePort(t)
         \/ ClosePort(t) /\ pc[t] = "portclose" /\ portOpen' = [portOpen EXCEPT ![target[t]] = FALSE]
<1> USE DEF tableVars, deviceVars, localVars, Goto, Return, Begin, TypeOK
<1>1. CASE Arrives(t)
  BY <1>1 DEF Arrives, ConfigureInstance, Discover, OpenDevice, Execute, CloseDevice, Shutdown, ClosePort
<1>2. CASE TakesDevMu(t)
  BY <1>2 DEF TakesDevMu, OpenLookup, CloseLookup, ShutdownSwap, ExecuteLookup, ClosePort
<1>3. CASE OpenPort(t)
  BY <1>3 DEF OpenPort, ClosePort
<1>4. CASE SetReadTimeout(t)
  BY <1>4 DEF SetReadTimeout, GivesPortBack, ClosePort
<1>5. CASE ClosePort(t)
  BY <1>5 DEF ClosePort
<1>6. CASE DiscoverLooks(t) \/ Sends(t) \/ OpenConfigFor(t) \/ OpenFails(t) \/ OpenInserts(t)
  BY <1>6 DEF Sends, DiscoverLooks, DiscoverReports, DiscoverFinishes, OpenConfigFor, OpenFails,
     OpenInserts, ClosePort
<1>7. CASE CloseDone(t) \/ CloseReturns(t) \/ SendCommand(t)
  BY <1>7 DEF CloseDone, CloseReturns, SendCommand, ClosePort
<1> QED
  BY <1>1, <1>2, <1>3, <1>4, <1>5, <1>6, <1>7 DEF Proceeds, Runs, Sends

\* What a device was made with does not change once it is handed over.
LEMMA MadeKeep ==
  ASSUME TypeOK, [Next]_vars, NEW h \in Threads, pc[h] = "end", Made(h)
  PROVE  Made(h)' /\ binding'[h] = binding[h] /\ pc'[h] = "end"
  BY ReturnedKeep DEF Made, Asked, Op, Complete

\* A step of a request, with what is known before it.
Step(t) == RegistryInv /\ (Arrives(t) \/ TakesDevMu(t) \/ Proceeds(t))

LEMMA StepFacts ==
  ASSUME NEW t \in Threads, Step(t)
  PROVE  /\ TypeOK /\ ControlInv /\ LockInv /\ OpeningInv /\ TableInv /\ ClosingInv /\ AnswerInv
         /\ NoPortLeaked /\ TableTruth /\ ClosesItsOwn /\ OpenOkMeansBound
         /\ [Next]_vars /\ None \notin Threads
  BY NoneAssumption DEF Step, RegistryInv, OwnerInv, Next, NoneAssumption

\* The step that leaves a label, and the step that gets to one.
LEMMA StepOf ==
  ASSUME NEW t \in Threads, Step(t)
  PROVE  /\ pc[t] = "resolve" => DiscoverLooks(t) \/ OpenConfigFor(t)
         /\ pc[t] = "lookup" => OpenLookup(t) \/ CloseLookup(t) \/ ExecuteLookup(t)
         /\ pc[t] = "timeout" => SetReadTimeout(t)
         /\ pc[t] = "insert" => OpenInserts(t)
         /\ pc[t] = "closing" => CloseDone(t) \/ CloseReturns(t)
         /\ pc[t] = "portclose" => ClosePort(t)
         /\ pc'[t] = "timeout" => OpenPort(t)
         /\ pc'[t] = "insert" => SetReadTimeout(t)
         /\ pc'[t] = "closing" => CloseLookup(t) \/ ShutdownSwap(t) \/ ClosePort(t)
         /\ pc'[t] = "portclose" => CloseDone(t)
         /\ pc'[t] = "send" => ExecuteLookup(t)
<1>1. pc'[t] \in PCs /\ \A label : Goto(t, label) => pc'[t] = label
  BY TypeNext, StepFacts DEF TypeOK, Goto, Step
<1> QED
  BY <1>1 DEF Step, Arrives, TakesDevMu, Proceeds, Runs, Sends, ConfigureInstance, Discover, OpenDevice,
     Execute, CloseDevice,
     Shutdown, DiscoverLooks, DiscoverReports, DiscoverFinishes, OpenConfigFor, OpenLookup, OpenPort,
     SetReadTimeout, OpenFails, OpenInserts,
     CloseLookup, ShutdownSwap, CloseDone, ClosePort, CloseReturns, ExecuteLookup, SendCommand, Return, Begin

\* The ports of the devices in the table are not closed.
LEMMA TablePortKeep ==
  ASSUME NEW t \in Threads, Step(t), NEW h \in Threads, portOpen[h], pc[h] = "end",
         h \notin toClose[t]
  PROVE  portOpen'[h]
<1>1. h # t \/ pc[t] = "end"
  OBVIOUS
<1>2. CASE ClosePort(t)
  <2>1. pc[t] = "portclose" => target[t] \in toClose[t]
    BY StepFacts DEF ClosingInv
  <2> QED
    BY <1>2, <2>1, StepFacts, PortSteps DEF ClosePort, TypeOK, Step
<1> QED
  BY <1>2, StepFacts, PortSteps DEF TypeOK, Step

LEMMA OpeningNext == ASSUME NEW t \in Threads, Step(t) PROVE OpeningInv'
<1> SUFFICES ASSUME NEW u \in Threads, pc'[u] \in {"timeout", "insert"}
             PROVE  Made(u)' /\ portOpen'[u]
  BY DEF OpeningInv
<1> USE StepFacts
<1>1. CASE u # t
  <2>1. /\ pc'[u] = pc[u] /\ req'[u] = req[u] /\ asked'[u] = asked[u] /\ binding'[u] = binding[u]
    BY <1>1, OthersKeep DEF Step
  <2>2. Made(u)'
    BY <2>1 DEF OpeningInv, Made, Asked, Op, Complete
  <2>3. portOpen[u]
    BY <2>1 DEF OpeningInv
  <2>4. pc[t] = "portclose" => target[t] # u
    BY <2>1 DEF ClosingInv
  <2> QED
    BY <1>1, <2>2, <2>3, <2>4, PortSteps DEF Step, TypeOK
<1>2. CASE u = t
  <2>1. OpenPort(t) \/ SetReadTimeout(t)
    BY <1>2, StepOf
  <2>2. CASE OpenPort(t)
    <3>1. pc[t] = "port" /\ portOpen'[t] /\ binding'[t] = Asked(t) /\ UNCHANGED <<req, asked>>
      BY <1>2, <2>2 DEF OpenPort, Goto, Asked, localVars, TypeOK
    <3>2. Op(t) = "open" /\ Complete(asked[t])
      BY <3>1 DEF ControlInv, Control, Holding
    <3> QED
      BY <1>2, <3>1, <3>2 DEF Made, Asked, Op, Complete
  <2>3. CASE SetReadTimeout(t)
    <3>1. /\ pc[t] = "timeout" /\ UNCHANGED <<req, asked, binding, portOpen>>
      BY <1>2, <2>3 DEF SetReadTimeout, Goto, localVars, TypeOK
    <3> QED
      BY <1>2, <3>1 DEF OpeningInv, Made, Asked, Op, Complete
  <2> QED
    BY <2>1, <2>2, <2>3
<1> QED
  BY <1>1, <1>2

\* The table holds devices that were handed over, each under its own key and
\* with its port open.
LEMMA TableNext == ASSUME NEW t \in Threads, Step(t) PROVE TableInv' /\ TableTruth'
<1> USE StepFacts
<1> SUFFICES ASSUME NEW k \in Keys, NEW h, h = devices'[k], h # None
             PROVE  /\ pc'[h] = "end" /\ Made(h)' /\ portOpen'[h]
                    /\ binding'[h].inst = k.inst /\ binding'[h].dev = k.dev
  BY DEF TableInv, TableTruth
<1>1. \/ h = devices[k]
      \/ pc[t] = "insert" /\ pc'[t] = "end" /\ h = t /\ k = Key(req[t], asked[t].dev)
  BY TableSteps DEF TypeOK, Step
<1>2. CASE h = devices[k]
  <2>1. h \in Threads /\ pc[h] = "end" /\ Made(h) /\ portOpen[h] /\ h \notin toClose[t]
        /\ binding[h].inst = k.inst /\ binding[h].dev = k.dev
    BY <1>2 DEF TypeOK, TableInv, TableTruth, ClosesItsOwn
  <2>2. portOpen'[h]
    BY <2>1, TablePortKeep
  <2>3. Made(h)' /\ binding'[h] = binding[h] /\ pc'[h] = "end"
    BY <2>1, MadeKeep
  <2> QED
    BY <2>1, <2>2, <2>3
<1>3. CASE pc[t] = "insert" /\ pc'[t] = "end" /\ h = t /\ k = Key(req[t], asked[t].dev)
  <2>1. OpenInserts(t)
    BY <1>3, StepOf
  <2>2. UNCHANGED <<req, asked, binding, portOpen>>
    BY <2>1 DEF OpenInserts, deviceVars
  <2>3. Made(t) /\ portOpen[t]
    BY <1>3 DEF OpeningInv
  <2>4. k.inst = req[t].inst /\ k.dev = asked[t].dev
    BY <1>3 DEF Key
  <2>5. binding[t].inst = k.inst /\ binding[t].dev = k.dev
    BY <2>3, <2>4 DEF Made, Asked
  <2>6. Made(t)'
    BY <2>2, <2>3 DEF Made, Asked, Op, Complete
  <2> QED
    BY <1>3, <2>2, <2>3, <2>5, <2>6
<1> QED
  BY <1>1, <1>2, <1>3

\* Where a device that is to be closed comes from: it was to be closed before,
\* or its closer takes it out of the table, where it was under one key.
LEMMA TakenFrom ==
  ASSUME NEW t \in Threads, Step(t), NEW u \in Threads, NEW h \in toClose'[u]
  PROVE  \/ h \in toClose[u] /\ (ClosePort(t) /\ u = t => h # target[t])
         \/ /\ u = t /\ pc'[t] = "closing" /\ Op(t) \in {"close", "shutdown"} /\ h # None
            /\ \A l \in Keys : devices'[l] # h
            /\ \E k \in Keys : devices[k] = h /\ (Op(t) = "close" => k = Key(req[t], req[t].dev))
<1> USE StepFacts
<1>1. CASE u # t
  <2>1. toClose'[u] = toClose[u]
    BY <1>1, OthersKeep DEF Step
  <2> QED
    BY <1>1, <2>1
<1>2. CASE u = t /\ toClose'[t] \subseteq toClose[t] /\ ~ClosePort(t)
  BY <1>2
<1>3. CASE u = t /\ ClosePort(t) /\ toClose'[t] = toClose[t] \ {target[t]}
  BY <1>3
<1>4. CASE /\ u = t /\ pc[t] = "lookup" /\ Op(t) = "close" /\ pc'[t] = "closing"
           /\ toClose'[t] = Found(devices[Key(req[t], req[t].dev)])
           /\ devices' = [devices EXCEPT ![Key(req[t], req[t].dev)] = None]
  <2> DEFINE k == Key(req[t], req[t].dev)
  <2>1. k \in Keys
    BY <1>4, Handled
  <2> HIDE DEF k
  <2>2. h = devices[k] /\ h # None
    BY <1>4 DEF Found, k
  <2>3. \A l \in Keys : devices[l] = h => l = k
    <3>1. \A l \in Keys : devices[l] = h => binding[h].inst = l.inst /\ binding[h].dev = l.dev
      BY <2>2 DEF TableTruth
    <3>2. \A l \in Keys : l = [inst |-> l.inst, dev |-> l.dev]
      BY KeyFacts
    <3> QED
      BY <2>1, <2>2, <3>1, <3>2
  <2>4. \A l \in Keys : devices'[l] = IF l = k THEN None ELSE devices[l]
    BY <1>4, <2>1 DEF k, TypeOK
  <2>5. \A l \in Keys : devices'[l] # h
    BY <2>2, <2>3, <2>4
  <2> QED
    BY <1>4, <2>1, <2>2, <2>5 DEF k
<1>5. CASE /\ u = t /\ pc[t] = "swap" /\ pc'[t] = "closing"
           /\ toClose'[t] = {devices[k] : k \in Keys} \ {None}
           /\ devices' = [k \in Keys |-> None]
  <2>1. Op(t) = "shutdown"
    BY <1>5 DEF ControlInv, Control
  <2>2. PICK k \in Keys : h = devices[k] /\ h # None
    BY <1>5
  <2> QED
    BY <1>5, <2>1, <2>2
<1>6. pc[t] = "insert" => ~ClosePort(t)
  BY DEF ClosePort
<1>7. u # t \/ \/ toClose'[t] \subseteq toClose[t] /\ ~ClosePort(t)
               \/ ClosePort(t) /\ toClose'[t] = toClose[t] \ {target[t]}
               \/ /\ pc[t] = "lookup" /\ Op(t) = "close" /\ pc'[t] = "closing"
                  /\ toClose'[t] = Found(devices[Key(req[t], req[t].dev)])
                  /\ devices' = [devices EXCEPT ![Key(req[t], req[t].dev)] = None]
               \/ /\ pc[t] = "swap" /\ pc'[t] = "closing"
                  /\ toClose'[t] = {devices[k] : k \in Keys} \ {None}
                  /\ devices' = [k \in Keys |-> None]
  BY <1>6, TableSteps DEF Step
<1> QED
  BY <1>1, <1>2, <1>3, <1>4, <1>5, <1>7

\* A device that is to be closed was handed over, and is off everybody else's
\* hands.
LEMMA ClosingNext == ASSUME NEW t \in Threads, Step(t) PROVE ClosingInv' /\ ClosesItsOwn'
<1> USE StepFacts
<1>1. ASSUME NEW u \in Threads, NEW h \in toClose'[u]
      PROVE  h \in Threads /\ pc[h] = "end" /\ Made(h) /\ pc'[h] = "end" /\ Made(h)' /\ binding'[h] = binding[h]
  <2>1. h \in Threads /\ pc[h] = "end" /\ Made(h)
    <3>1. CASE h \in toClose[u]
      BY <1>1, <3>1 DEF ClosingInv, TypeOK
    <3>2. CASE \E k \in Keys : devices[k] = h /\ h # None
      BY <3>2 DEF TableInv, TypeOK
    <3> QED
      BY <1>1, <3>1, <3>2, TakenFrom
  <2> QED
    BY <2>1, MadeKeep
<1>2. ASSUME NEW u \in Threads, toClose'[u] # {} PROVE pc'[u] \in {"closing", "portclose"}
  <2>1. PICK h : h \in toClose'[u]
    BY <1>2
  <2>2. CASE u # t
    BY <1>2, <2>2, OthersKeep DEF ClosingInv, Step
  <2>3. CASE u = t /\ h \in toClose[t]
    <3>1. pc[t] \in {"closing", "portclose"}
      BY <2>3 DEF ClosingInv
    <3>2. CloseDone(t) \/ ClosePort(t)
      BY <2>1, <2>3, <3>1, StepOf DEF CloseReturns
    <3> QED
      BY <2>3, <3>2 DEF CloseDone, ClosePort, Goto, TypeOK
  <2> QED
    BY <1>2, <2>1, <2>2, <2>3, TakenFrom
<1>3. ASSUME NEW u \in Threads, pc'[u] = "portclose" PROVE target'[u] \in toClose'[u]
  <2>1. CASE u # t
    BY <1>3, <2>1, OthersKeep DEF ClosingInv, Step
  <2>2. CASE u = t
    <3>1. CloseDone(t)
      BY <1>3, <2>2, StepOf
    <3> QED
      BY <2>2, <3>1 DEF CloseDone, TypeOK
  <2> QED
    BY <2>1, <2>2
<1>4. ClosingInv'
  BY <1>1, <1>2, <1>3 DEF ClosingInv
<1>5. ASSUME NEW u \in Threads, NEW h \in toClose'[u], NEW v \in Threads, v # u PROVE h \notin toClose'[v]
  <2>1. h \in Threads
    BY <1>1, <1>5
  <2> SUFFICES ASSUME h \in toClose'[v] PROVE FALSE
    OBVIOUS
  <2>2. h \in toClose[u] \/ (u = t /\ h # None /\ \E k \in Keys : devices[k] = h)
    BY <1>5, TakenFrom
  <2>3. h \in toClose[v] \/ (v = t /\ h # None /\ \E k \in Keys : devices[k] = h)
    BY <1>5, TakenFrom
  <2> QED
    BY <1>5, <2>2, <2>3 DEF ClosesItsOwn
<1>6. ASSUME NEW u \in Threads, NEW h \in toClose'[u], NEW k \in Keys PROVE devices'[k] # h
  <2>1. h \in Threads /\ pc[h] = "end"
    BY <1>1, <1>6
  <2>2. CASE h \in toClose[u]
    <3>1. devices[k] # h
      BY <1>6, <2>2 DEF ClosesItsOwn
    <3>2. devices'[k] \in {devices[k], None} \/ (devices'[k] = t /\ pc[t] = "insert")
      BY <1>6, TableSteps DEF Step, TypeOK
    <3> QED
      BY <2>1, <3>1, <3>2
  <2> QED
    BY <1>6, <2>2, TakenFrom
<1>7. ASSUME NEW u \in Threads, NEW h \in toClose'[u], Op(u)' = "close"
      PROVE  binding'[h].inst = req'[u].inst /\ binding'[h].dev = req'[u].dev
  <2>1. h \in Threads /\ binding'[h] = binding[h]
    BY <1>1, <1>7
  <2>2. req'[u] = req[u]
    <3>1. CASE u # t
      BY <1>7, <3>1, OthersKeep DEF Step
    <3>2. CASE u = t
      <4>1. pc'[t] \in {"closing", "portclose"}
        BY <1>2, <1>7, <3>2
      <4>2. CloseDone(t) \/ ClosePort(t) \/ CloseLookup(t) \/ ShutdownSwap(t)
        BY <4>1, StepOf
      <4> QED
        BY <3>2, <4>2 DEF CloseDone, ClosePort, CloseLookup, ShutdownSwap
    <3> QED
      BY <3>1, <3>2
  <2>3. CASE h \in toClose[u]
    BY <1>7, <2>1, <2>2, <2>3 DEF ClosesItsOwn, Op
  <2>4. CASE u = t /\ h # None /\ \E k \in Keys : devices[k] = h /\ (Op(t) = "close" => k = Key(req[t], req[t].dev))
    <3>1. PICK k \in Keys : devices[k] = h /\ k = Key(req[t], req[t].dev)
      BY <1>7, <2>2, <2>4 DEF Op
    <3>2. binding[h].inst = k.inst /\ binding[h].dev = k.dev
      BY <2>4, <3>1 DEF TableTruth
    <3> QED
      BY <2>1, <2>2, <2>4, <3>1, <3>2 DEF Key
  <2> QED
    BY <1>7, <2>3, <2>4, TakenFrom
<1> QED
  BY <1>4, <1>5, <1>6, <1>7 DEF ClosesItsOwn, Op

\* What an OpenDevice answered for keeps its binding.
LEMMA AnswerNext == ASSUME NEW t \in Threads, Step(t) PROVE AnswerInv' /\ OpenOkMeansBound'
<1> USE StepFacts
<1> SUFFICES ASSUME NEW u \in Threads, pc'[u] = "end", req'[u].op = "open", resp'[u] = "OK"
             PROVE  /\ target'[u] \in Threads /\ pc'[target'[u]] = "end"
                    /\ binding'[target'[u]].inst = req'[u].inst
                    /\ SameBinding(binding'[target'[u]], asked'[u])
  BY DEF AnswerInv, OpenOkMeansBound, Op, SameBinding, Effective
<1>1. CASE u # t
  <2> DEFINE h == target[u]
  <2>1. /\ pc'[u] = pc[u] /\ req'[u] = req[u] /\ resp'[u] = resp[u] /\ asked'[u] = asked[u]
        /\ target'[u] = target[u]
    BY <1>1, OthersKeep DEF Step
  <2>2. /\ target[u] \in Threads /\ pc[target[u]] = "end"
        /\ binding[target[u]].inst = req[u].inst /\ SameBinding(binding[target[u]], asked[u])
    BY <2>1 DEF AnswerInv, OpenOkMeansBound, Op
  <2>3. pc'[target[u]] = "end" /\ binding'[target[u]] = binding[target[u]]
    BY <2>2, ReturnedKeep
  <2> QED
    BY <2>1, <2>2, <2>3
<1>2. CASE u = t
  <2>1. OpenLookup(t) \/ OpenInserts(t)
    <3>1. pc[t] # "end" => resp[t] \in {"none", "FOUND"}
      BY DEF ControlInv, Control, TypeOK
    <3>2. pc[t] # "idle" => req[t] \in Requests
      BY DEF ControlInv, Control
    <3>3. pc[t] \in {"closing", "portclose"} => Op(t) # "open"
      BY DEF ControlInv, Control
    <3> QED
      BY <1>2, <3>1, <3>2, <3>3 DEF TypeOK, Op, Step, Arrives, TakesDevMu, Proceeds, Runs, Sends,
         ConfigureInstance, Discover,
         OpenDevice, Execute, CloseDevice, Shutdown, DiscoverLooks, DiscoverReports, DiscoverFinishes,
         OpenConfigFor, OpenPort, SetReadTimeout,
         OpenFails, CloseLookup, ShutdownSwap, CloseDone, ClosePort, CloseReturns, ExecuteLookup, SendCommand,
         Goto, Return, Begin
  <2>2. CASE OpenLookup(t)
    <3> DEFINE k == Key(req[t], asked[t].dev)
    <3>1. k \in Keys /\ k.inst = req[t].inst /\ k.dev = asked[t].dev
      BY <2>2, Handled DEF OpenLookup, Op
    <3> HIDE DEF k
    <3>2. /\ devices[k] # None /\ target'[t] = devices[k] /\ Reusable(devices[k], asked[t])
          /\ UNCHANGED <<req, asked, binding>>
      <4>1. \/ /\ devices[k] # None
               /\ Return(t, IF Reusable(devices[k], asked[t]) THEN "OK" ELSE "FAILED_PRECONDITION")
               /\ target' = [target EXCEPT ![t] = devices[k]]
            \/ Goto(t, "port")
        BY <2>2 DEF OpenLookup, k
      <4>2. ~Goto(t, "port")
        BY <1>2 DEF Goto, TypeOK
      <4>3. resp'[t] = IF Reusable(devices[k], asked[t]) THEN "OK" ELSE "FAILED_PRECONDITION"
        BY <4>1, <4>2 DEF Return, TypeOK
      <4> QED
        BY <1>2, <2>2, <4>1, <4>2, <4>3 DEF OpenLookup, deviceVars, TypeOK
    <3>3. devices[k] \in Threads /\ pc[devices[k]] = "end" /\ binding[devices[k]].inst = k.inst
      BY <3>1, <3>2 DEF TypeOK, TableInv, TableTruth
    <3>4. pc'[devices[k]] = "end"
      BY <3>3, ReturnedKeep
    <3> QED
      BY <1>2, <3>1, <3>2, <3>3, <3>4 DEF Reusable
  <2>3. CASE OpenInserts(t)
    <3>1. pc[t] = "insert" /\ target'[t] = t /\ UNCHANGED <<req, asked, binding>>
      BY <2>3 DEF OpenInserts, deviceVars, TypeOK
    <3>2. binding[t] = Asked(t)
      BY <3>1 DEF OpeningInv, Made
    <3> QED
      BY <1>2, <3>1, <3>2 DEF Asked, SameBinding
  <2> QED
    BY <2>1, <2>2, <2>3
<1> QED
  BY <1>1, <1>2

\* An open port stays with an owner.
LEMMA PortNext == ASSUME NEW t \in Threads, Step(t) PROVE NoPortLeaked'
<1> USE StepFacts
<1> SUFFICES ASSUME NEW h \in Threads, portOpen'[h]
             PROVE  \/ \E k \in Keys : devices'[k] = h
                    \/ pc'[h] \in {"timeout", "insert"}
                    \/ \E u \in Threads : h \in toClose'[u]
  BY DEF NoPortLeaked
<1>1. \/ portOpen[h] /\ (ClosePort(t) => h # target[t]) /\ (pc[t] = "timeout" /\ pc'[t] = "fail" => h # t)
      \/ h = t /\ pc'[t] = "timeout"
  <2>1. OpenPort(t) => pc[t] = "port"
    BY DEF OpenPort
  <2>2. ClosePort(t) => pc[t] = "portclose"
    BY DEF ClosePort
  <2>3. pc[t] = "timeout" /\ pc'[t] = "fail" => portOpen' = [portOpen EXCEPT ![t] = FALSE]
    BY StepOf DEF SetReadTimeout, GivesPortBack, Goto, TypeOK
  <2> QED
    BY <2>1, <2>2, <2>3, PortSteps DEF Step, TypeOK
<1>2. CASE portOpen[h] /\ pc[h] \in {"timeout", "insert"} /\ (pc[t] = "timeout" /\ pc'[t] = "fail" => h # t)
  <2>1. CASE h # t
    BY <1>2, <2>1, OthersKeep DEF Step
  <2>2. CASE h = t /\ pc[t] = "timeout"
    <3>1. SetReadTimeout(t)
      BY <2>2, StepOf
    <3> QED
      BY <1>2, <2>2, <3>1 DEF SetReadTimeout, Goto, TypeOK
  <2>3. CASE h = t /\ pc[t] = "insert"
    <3>1. OpenInserts(t)
      BY <2>3, StepOf
    <3>2. Key(req[t], asked[t].dev) \in Keys
      BY <2>3, Handled DEF Holding
    <3>3. devices'[Key(req[t], asked[t].dev)] = t
      BY <3>1, <3>2 DEF OpenInserts, TypeOK
    <3> QED
      BY <2>3, <3>2, <3>3
  <2> QED
    BY <1>2, <2>1, <2>2, <2>3
<1>3. CASE \E u \in Threads : h \in toClose[u] /\ (ClosePort(t) => h # target[t])
  <2>1. PICK u \in Threads : h \in toClose[u] /\ (ClosePort(t) => h # target[t])
    BY <1>3
  <2>2. CASE u # t
    BY <2>1, <2>2, OthersKeep DEF Step
  <2>3. CASE u = t
    <3>1. pc[t] \in {"closing", "portclose"}
      BY <2>1, <2>3 DEF ClosingInv
    <3>2. toClose'[t] = toClose[t] \/ (ClosePort(t) /\ toClose'[t] = toClose[t] \ {target[t]})
      BY <3>1, TableSteps DEF Step
    <3> QED
      BY <2>1, <2>3, <3>2
  <2> QED
    BY <2>2, <2>3
<1>4. CASE \E k \in Keys : devices[k] = h
  <2>1. PICK k \in Keys : devices[k] = h
    BY <1>4
  <2>2. CASE devices'[k] = h
    BY <2>2
  <2>3. CASE devices'[k] # h /\ pc[t] = "insert"
    <3>1. k = Key(req[t], asked[t].dev)
      BY <2>1, <2>3, TableSteps DEF Step, TypeOK
    <3>2. devices[k] = None
      BY <2>3, <3>1 DEF LockInv, Holding
    <3> QED
      BY <2>1, <3>2
  <2>4. CASE devices'[k] # h /\ pc[t] = "lookup"
    <3> DEFINE l == Key(req[t], req[t].dev)
    <3>1. toClose'[t] = Found(devices[l]) /\ devices' = [devices EXCEPT ![l] = None]
      BY <2>1, <2>3, <2>4, TableSteps DEF Step
    <3> HIDE DEF l
    <3>2. k = l
      BY <2>1, <2>4, <3>1 DEF TypeOK
    <3> QED
      BY <2>1, <3>1, <3>2 DEF Found
  <2>5. CASE devices'[k] # h /\ pc[t] = "swap"
    <3>1. toClose'[t] = {devices[l] : l \in Keys} \ {None}
      BY <2>1, <2>5, TableSteps DEF Step
    <3> QED
      BY <2>1, <3>1
  <2> QED
    BY <2>1, <2>2, <2>3, <2>4, <2>5, TableSteps DEF Step
<1>5. portOpen[h] => \/ \E k \in Keys : devices[k] = h
                     \/ pc[h] \in {"timeout", "insert"}
                     \/ \E u \in Threads : h \in toClose[u]
  BY DEF NoPortLeaked
<1> QED
  BY <1>1, <1>2, <1>3, <1>4, <1>5

\* A step puts at most one device into the table.
LEMMA FiniteNext == ASSUME NEW t \in Threads, Step(t) PROVE TableFinite'
<1> DEFINE S == {h \in Threads : \E k \in Keys : devices[k] = h}
           T == {h \in Threads : \E k \in Keys : devices'[k] = h}
<1>1. IsFiniteSet(S \cup {t})
  BY FS_AddElement DEF Step, RegistryInv, TableFinite
<1>2. T \subseteq S \cup {t}
  <2>1. \A k \in Keys : devices'[k] \in {devices[k], None, t}
    BY StepFacts, TableSteps DEF Step, TypeOK
  <2> QED
    BY <2>1, StepFacts
<1>3. IsFiniteSet(T)
  <2> HIDE DEF S, T
  <2> QED
    BY <1>1, <1>2, FS_Subset
<1> QED
  BY <1>3 DEF TableFinite

-----------------------------------------------------------------------------
(* The inductive invariant. *)

LEMMA RegistryInit == Init => RegistryInv
<1> SUFFICES ASSUME Init PROVE RegistryInv
  OBVIOUS
<1> USE NoneAssumption DEF NoneAssumption
<1>1. TypeOK
  BY TypeInit
<1>2. ControlInv
  BY DEF Init, ControlInv, Control, Holding
<1>3. LockInv
  BY DEF Init, LockInv, Holding
<1>4. OwnerInv
  BY DEF Init, OwnerInv, OpeningInv, TableInv, ClosingInv, AnswerInv
<1>5. TableFinite
  <2>1. {h \in Threads : \E k \in Keys : devices[k] = h} = {}
    BY DEF Init
  <2> QED
    BY <2>1, FS_EmptySet DEF TableFinite
<1>6. NoPortLeaked /\ TableTruth /\ ClosesItsOwn /\ OpenOkMeansBound
  BY DEF Init, NoPortLeaked, TableTruth, ClosesItsOwn, OpenOkMeansBound
<1> QED
  BY <1>1, <1>2, <1>3, <1>4, <1>5, <1>6 DEF RegistryInv

\* The end of an RX loop touches none of what the invariant is about but
\* the flags of the device.
LEMMA DiesKeeps == ASSUME RegistryInv, NEW d \in Threads, DeviceDies(d) PROVE RegistryInv'
<1>1. UNCHANGED <<pc, req, resp, devMu, devices, binding, portOpen, asked, toClose, target>>
  BY DEF DeviceDies, tableVars, localVars
<1>2. [Next]_vars
  BY DEF Next
<1>3. TypeOK' /\ ControlInv' /\ LockInv'
  BY <1>2, TypeNext, ControlNext, LockNext
<1>4. OwnerInv'
  <2>1. OpeningInv' /\ AnswerInv'
    BY <1>1 DEF RegistryInv, OwnerInv, OpeningInv, AnswerInv, Made, Asked, Op, Complete
  <2>2. TableInv'
    BY <1>1 DEF RegistryInv, OwnerInv, TableInv, Made, Asked, Op, Complete
  <2>3. ClosingInv'
    BY <1>1 DEF RegistryInv, OwnerInv, ClosingInv, Made, Asked, Op, Complete
  <2> QED
    BY <2>1, <2>2, <2>3 DEF OwnerInv
<1>5. TableFinite'
  BY <1>1 DEF RegistryInv, TableFinite
<1>6. NoPortLeaked' /\ TableTruth' /\ ClosesItsOwn' /\ OpenOkMeansBound'
  BY <1>1 DEF RegistryInv, NoPortLeaked, TableTruth, ClosesItsOwn, OpenOkMeansBound, SameBinding, Effective
<1> QED
  BY <1>3, <1>4, <1>5, <1>6 DEF RegistryInv

LEMMA RegistryNext == RegistryInv /\ [Next]_vars => RegistryInv'
<1> SUFFICES ASSUME RegistryInv, [Next]_vars PROVE RegistryInv'
  OBVIOUS
<1>1. ASSUME NEW t \in Threads, Arrives(t) \/ TakesDevMu(t) \/ Proceeds(t) PROVE RegistryInv'
  <2>1. Step(t)
    BY <1>1 DEF Step
  <2>2. TypeOK' /\ ControlInv' /\ LockInv'
    BY TypeNext, ControlNext, LockNext
  <2>3. OpeningInv' /\ TableInv' /\ TableTruth' /\ ClosingInv' /\ ClosesItsOwn' /\ AnswerInv' /\ OpenOkMeansBound'
    BY <1>1, <2>1, OpeningNext, TableNext, ClosingNext, AnswerNext
  <2>4. NoPortLeaked' /\ TableFinite'
    BY <1>1, <2>1, PortNext, FiniteNext
  <2> QED
    BY <2>2, <2>3, <2>4 DEF RegistryInv, OwnerInv
<1>2. ASSUME UNCHANGED vars PROVE RegistryInv'
  <2>1. TypeOK' /\ ControlInv' /\ LockInv'
    BY TypeNext, ControlNext, LockNext
  <2>2. OwnerInv'
    BY <1>2 DEF vars, RegistryInv, OwnerInv, OpeningInv, TableInv, ClosingInv, AnswerInv, Made, Asked, Op,
       Complete
  <2>3. TableFinite'
    BY <1>2 DEF vars, RegistryInv, TableFinite
  <2>4. NoPortLeaked' /\ TableTruth' /\ ClosesItsOwn' /\ OpenOkMeansBound'
    BY <1>2 DEF vars, RegistryInv, NoPortLeaked, TableTruth, ClosesItsOwn, OpenOkMeansBound, SameBinding,
       Effective
  <2> QED
    BY <2>1, <2>2, <2>3, <2>4 DEF RegistryInv
<1> QED
  BY <1>1, <1>2, DiesKeeps DEF Next, Quiet

\* The inductive invariant holds in every state of the device table, however
\* many requests overlap and whichever openings fail.
THEOREM RegistryHolds == Spec => []RegistryInv
  BY RegistryInit, RegistryNext, PTL DEF Spec

\* Type correctness: in particular every lookup in the table uses a key of it,
\* and Execute's address is a device id (driver.go:860-880).
THEOREM RegistryTyping == Spec => []TypeOK
<1>1. RegistryInv => TypeOK
  BY DEF RegistryInv
<1> QED
  BY <1>1, RegistryHolds, PTL

\* No open port is ever out of everybody's hands.
THEOREM NoPortLeakedHolds == Spec => []NoPortLeaked
<1>1. RegistryInv => NoPortLeaked
  BY DEF RegistryInv
<1> QED
  BY <1>1, RegistryHolds, PTL

\* The table tells the truth.
THEOREM TableTruthHolds == Spec => []TableTruth
<1>1. RegistryInv => TableTruth
  BY DEF RegistryInv
<1> QED
  BY <1>1, RegistryHolds, PTL

\* A device is closed by one request, and CloseDevice closes the one it names.
THEOREM ClosesItsOwnHolds == Spec => []ClosesItsOwn
<1>1. RegistryInv => ClosesItsOwn
  BY DEF RegistryInv
<1> QED
  BY <1>1, RegistryHolds, PTL

\* OK to an OpenDevice means a device with the binding that was asked for.
THEOREM OpenOkMeansBoundHolds == Spec => []OpenOkMeansBound
<1>1. RegistryInv => OpenOkMeansBound
  BY DEF RegistryInv
<1> QED
  BY <1>1, RegistryHolds, PTL

-----------------------------------------------------------------------------
(* What a step never does. *)

\* A thread whose label changes is the one that takes the step.
LEMMA Mover ==
  ASSUME RegistryInv, [Next]_vars, NEW t \in Threads, pc'[t] # pc[t]
  PROVE  Step(t)
<1>1. ASSUME NEW u \in Threads, Arrives(u) \/ TakesDevMu(u) \/ Proceeds(u) PROVE u = t
  BY <1>1, OthersKeep DEF RegistryInv
<1> QED
  BY <1>1 DEF Next, Quiet, DeviceDies, vars, Step

\* A device in the table is never replaced (driver.go:552-564).
THEOREM NeverReplacedHolds == Spec => NeverReplaced
<1>1. RegistryInv /\ [Next]_vars =>
        [\A k \in Keys : devices[k] # None => devices'[k] \in {devices[k], None}]_vars
  <2> SUFFICES ASSUME RegistryInv, [Next]_vars, NEW k \in Keys, devices[k] # None
               PROVE  devices'[k] \in {devices[k], None}
    OBVIOUS
  <2>1. ASSUME NEW t \in Threads, Arrives(t) \/ TakesDevMu(t) \/ Proceeds(t)
        PROVE  devices'[k] \in {devices[k], None}
    <3>1. Step(t)
      BY <2>1 DEF Step
    <3>2. pc[t] = "insert" => devices[Key(req[t], asked[t].dev)] = None
      BY <2>1, <3>1, StepFacts DEF LockInv, Holding
    <3> QED
      BY <2>1, <3>1, <3>2, StepFacts, TableSteps DEF TypeOK
  <2> QED
    BY <2>1 DEF Next, Quiet, DeviceDies, vars, tableVars
<1> QED
  BY <1>1, RegistryHolds, PTL DEF Spec, NeverReplaced

\* A command goes to a board of its own instance, to the one it names, or to
\* the only one that is open (README.md:66).
THEOREM NeverTheDefaultBoardHolds == Spec => NeverTheDefaultBoard
<1>1. RegistryInv /\ [Next]_vars =>
        [\A t \in Threads :
           (pc[t] = "lookup" /\ pc'[t] = "send") =>
             LET r == req[t]  h == target'[t] IN
             /\ binding[h].inst = r.inst
             /\ r.dev # "" => binding[h].dev = r.dev
             /\ r.dev = "" => Open(r.inst) = {h}]_vars
  <2> SUFFICES ASSUME RegistryInv, [Next]_vars, NEW t \in Threads, pc[t] = "lookup", pc'[t] = "send"
               PROVE  /\ binding[target'[t]].inst = req[t].inst
                      /\ req[t].dev # "" => binding[target'[t]].dev = req[t].dev
                      /\ req[t].dev = "" => Open(req[t].inst) = {target'[t]}
    OBVIOUS
  <2>1. ExecuteLookup(t)
    BY Mover, StepOf
  <2> DEFINE k == Key(req[t], Addressed(req[t]))
  <2>2. req[t] \in Requests /\ req[t].op = "execute"
    BY <2>1 DEF RegistryInv, ControlInv, Control, ExecuteLookup
  <2>3. devices[k] # None /\ target'[t] = devices[k]
    BY <2>1 DEF ExecuteLookup, Return, Goto, RegistryInv, TypeOK
  <2> QED
    BY <2>2, <2>3, AddressedFacts
<1> QED
  BY <1>1, RegistryHolds, PTL DEF Spec, NeverTheDefaultBoard

\* What Discover reports, openConfigFor accepts (driver.go:441-458).
THEOREM FoundCanBeOpenedHolds == Spec => FoundCanBeOpened
<1>1. RegistryInv /\ [Next]_vars =>
        [\A t, u \in Threads :
           LET r == req[t] IN
           (/\ pc[t] = "resolve" /\ r.op = "open" /\ r.dev = "" /\ r.port = "" /\ r.attr = ""
            /\ resp[u] = "FOUND" /\ req[u].inst = r.inst /\ asked[u] = cfgs[r.inst])
           => pc'[t] # "end"]_vars
  <2> SUFFICES ASSUME RegistryInv, [Next]_vars, NEW t \in Threads, NEW u \in Threads,
                      pc[t] = "resolve", req[t].op = "open", req[t].dev = "", req[t].port = "",
                      req[t].attr = "", resp[u] = "FOUND", asked[u] = cfgs[req[t].inst], pc'[t] = "end"
               PROVE  FALSE
    OBVIOUS
  <2>1. Step(t)
    BY Mover
  <2>2. OpenConfigFor(t)
    BY <2>1, StepOf DEF DiscoverLooks
  <2> DEFINE cfg == Resolved(req[t], cfgs[req[t].inst])
  <2>3. Complete(cfgs[req[t].inst])
    BY DEF RegistryInv, ControlInv, Control
  <2>4. cfg.dev # "" /\ cfg.port # ""
    BY <2>3 DEF Complete, Resolved
  <2>5. Goto(t, "lookup")
    BY <2>2, <2>4 DEF OpenConfigFor
  <2> QED
    BY <2>5 DEF Goto, RegistryInv, TypeOK
<1> QED
  BY <1>1, RegistryHolds, PTL DEF Spec, FoundCanBeOpened

=============================================================================
