CONSTANTS
  w1 = w1
  h1 = h1
  h2 = h2
  h3 = h3
  None = None
  NoDev = 0
  Watches = {w1}
  Handles = {h1, h2, h3}
  KeyOf <- MCKeyOf
  InstOf <- MCInstOf
  Asked <- MCAskNone
  Default <- MCNoDefault
  Firmware <- MCSilent
  Configured = {h1, h2, h3}
  DevIds = {1}
  Instances = {"i1", "i2"}
  QueueCap = 1
  MaxMessages = 2
  Faults = {"sendfail", "close", "reopen", "cancel", "dies", "shutdown"}
SPECIFICATION FairSpec
INVARIANTS
  EventsInOrder
  NothingLeftBehind
  WatchInv
PROPERTIES
  RxNeverStuck
  WatchReturns
