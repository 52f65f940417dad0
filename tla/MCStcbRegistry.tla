---------------------------- MODULE MCStcbRegistry ----------------------------
(***************************************************************************)
(* Instances of StcbRegistry for TLC: a few overlapping requests on two    *)
(* plugin instances, two device ids and two serial ports.                  *)
(***************************************************************************)
EXTENDS StcbRegistryInv

CONSTANTS t1, t2, t3

OpenReq(i, d, p, at)  == [op |-> "open", inst |-> i, dev |-> d, port |-> p, attr |-> at]
CloseReq(i, d)        == [op |-> "close", inst |-> i, dev |-> d]
ExecReq(i, d)         == [op |-> "execute", inst |-> i, dev |-> d]
ConfReq(i, d, p, at)  == [op |-> "configure", inst |-> i, cfg |-> [dev |-> d, port |-> p, attr |-> at]]
DiscoverReq(i)        == [op |-> "discover", inst |-> i]
StopReq               == [op |-> "shutdown"]

\* One device opened, reopened with another binding, closed, and shut down.
MCOneDevice ==
  {OpenReq("i1", "d1", "p1", ""), OpenReq("i1", "d1", "p2", "other"), OpenReq("i1", "d1", "p1", "bad"),
   CloseReq("i1", "d1"), StopReq}

\* Beside it: a second device, a second instance that uses the same device id,
\* a command without a device id, and devices opened from the configuration of
\* the instance.
MCRequests ==
  (MCOneDevice \ {OpenReq("i1", "d1", "p1", "bad")}) \cup
  {OpenReq("i1", "d2", "p2", ""), OpenReq("i2", "d1", "p2", ""), ExecReq("i1", ""),
   ConfReq("i1", "d1", "p1", "unset"), ConfReq("i1", "", "p2", "other"),
   [op |-> "configure", inst |-> "i1", cfg |-> None], OpenReq("i1", "", "", ""),
   DiscoverReq("i1")}
=============================================================================
