CONSTANTS
  t1 = t1
  t2 = t2
  t3 = t3
  None = None
  Threads = {t1, t2}
  Instances = {"i1", "i2"}
  DevIds = {"d1", "d2"}
  Ports = {"p1", "p2"}
  Requests <- MCOneDevice
SPECIFICATION Spec
INVARIANTS
  ShutdownClosesDevices
