CONSTANTS
  a = a
  b = b
  c = c
  None = None
  Calls = {a, b}
  Kind <- MCKindTwo
  NoteCount <- MCTwoEach
  MaxNotes = 2
  WireIds <- MCWireIds
  WireId <- MCIdPerCall
  FrameLen = 2
  BadArgs = {}
  BadId = {}
  Gapped = {b}
  Faults = {"cancel", "byteloss", "replyloss", "reset", "close"}
SPECIFICATION Spec
INVARIANTS
  SequenceUnbroken
  IndInv
  ContractInv
PROPERTIES
  KeepsContract
