CONSTANTS
  Conns = {c1, c2}
  Nobody = Nobody
  MaxDevices = 2
  PayloadSize = 9
  Chunk = 3
  InsertSize = 5
  HeadLen = 2
  TailLen = 2
  EntryLens = {2, 3}
  PairingsLens = {6}
SPECIFICATION FairSpec
INVARIANTS
  WebTypeOK
  OwnAnswer
  CutOnlyIfTooLong
  OkIsSaved
PROPERTIES
  ReadsInside
  AnswersEnd
