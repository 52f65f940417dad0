CONSTANTS
  a = a
  b = b
  c = c
  None = None
  Calls = {a, b, c}
  Kind <- MCKindCmd
  NoteCount <- MCNoNotes
  MaxNotes = 0
  WireIds <- MCWireIds
  WireId <- MCIdSyncs
  FrameLen = 2
  BadArgs = {}
  BadId = {}
  Gapped = {}
  Faults = {"cancel", "byteloss", "replyloss", "reset"}
SPECIFICATION Spec
INVARIANTS
  SuccessVouched
  OnlyTornFramesGarble
  WaiterOwned
  LineInv
