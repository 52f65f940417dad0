CONSTANTS
  a = a
  b = b
  c = c
  None = None
  Calls = {a, b}
  Kind <- MCKindCmd
  NoteCount <- MCNoNotes
  MaxNotes = 0
  WireIds <- MCWireIds
  WireId <- MCIdCollision
  FrameLen = 2
  BadArgs = {}
  BadId = {}
  Gapped = {}
  Faults = {}
SPECIFICATION Spec
INVARIANTS
  CommandTruth
