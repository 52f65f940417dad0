CONSTANTS
  a = a
  b = b
  c = c
  None = None
  Calls = {a, b, c}
  Kind <- MCKindNotes
  NoteCount <- MCTwoNotes
  MaxNotes = 2
  WireIds <- MCWireIds
  WireId <- MCIdPerCall
  FrameLen = 2
  BadArgs = {}
  BadId = {c}
  Gapped = {a}
  Faults = {"unplug", "close", "openctx"}
SPECIFICATION FairSpec
PROPERTIES
  CallsReturn
  DeathNoticed
