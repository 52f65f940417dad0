CONSTANTS
  w1 = w1
  h1 = h1
  h2 = h2
  h3 = h3
  None = None
  NoDev = 0
  Watches = {w1}
  Handles = {h1}
  KeyOf <- MCKeyOf
  InstOf <- MCInstOf
  Asked <- MCAskOne
  Default <- MCNoDefault
  Firmware <- MCV1
  Configured = {}
  DevIds = {1}
  Instances = {"i1", "i2"}
  QueueCap = 1
  MaxMessages = 0
  Faults = {}
SPECIFICATION LiveSpec
PROPERTIES
  StatusFollowsFreshness
