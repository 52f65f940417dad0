CONSTANTS
  None = None
  MaxNotes = 3
  MaxTotal = 450
  Tokens <- MCTokens
  Requests <- MCRequests
  Ids <- MCIds
  BoardTexts <- MCBoardTexts
  IdLen = 3
  FloodLimit = 72
  MaxChunk = 150
  Chunks = {24, 40}
  Plain <- MCPlain
  PlainId <- MCPlainId
  MaxTexts = 2
SPECIFICATION Spec
INVARIANTS
  LinesInv
  LinesComplete
  IdsSurvive
  StoredInRange
  ViewOfLines
  AcceptedPerContract
  FramesFit
