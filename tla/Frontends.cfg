CONSTANTS
  c1 = c1
  c2 = c2
  c3 = c3
  Conns = {c1, c2, c3}
  Scenarios <- MCScenarios
  TokenBytes <- MCTokenBytes
  DefaultLimit = 1
  MaxInputs = 2
  EmbeddingSlots = 1
  Letters <- MCLetters
  Marks = {"m"}
  Digits = {"1"}
  Breaks <- MCBreaks
  Blanks <- MCBlanks
  ByteChars <- MCByteChars
  Ranks <- MCRanks
  Entries <- MCEntries
  Scores <- MCScores
  Markers <- MCMarkers
  AddBos = TRUE
SPECIFICATION FairSpec
INVARIANTS Faithful Prompted SlotsHeld
PROPERTIES Answered
CHECK_DEADLOCK FALSE
