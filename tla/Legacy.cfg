CONSTANTS
  c1 = c1
  c2 = c2
  w1 = w1
  None = None
  Calls = {c1, c2}
  Watches = {w1}
  Requests <- MCRequests
  ArgBytes <- MCArgBytes
  MaxPolls = 1
  Faults = {"byteloss", "frameloss", "cancel", "unplug", "close"}
SPECIFICATION FairSpec
INVARIANTS
  ClaimsAreNew
  SyncConfirmed
  SentWhole
  OnlyOverlapMisreads
  LegacyInv
PROPERTIES
  LegacyReturns
