CONSTANTS
  NSlides = 2
  NMissing = 2
  MaxPerSlide = 2
  ScoreFloor = 5
  Concurrency = 1
  MaxZooms = 2
  Answers <- MCAnswers
  Remarks <- MCRemarks
  Overlapping <- MCOverlapping
  Texts <- MCTexts
SPECIFICATION FairSpec
INVARIANTS ChartsAreSeen ZoomAddsNew NothingVanishes ShowsTheWorst CapNeverLowersScore
PROPERTIES DegradesBySteps RunEnds
CHECK_DEADLOCK FALSE
