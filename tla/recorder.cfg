CONSTANTS
  Slides = 2
  MaxSeconds = 2
  MaxEntries = 3
  MaxStarts = 2
  MaxStops = 2
  MaxSlips = 1
  TooLong = 2
  TooShort = 0
  LongPause = 0
  FillerThreshold = 2
  MinRate = 1
  MaxRate = 2
  Transcripts <- MCTranscripts
SPECIFICATION FairSpec
INVARIANTS WordsMeetTheirSlide PacingIsInTheMap SoundIsOfItsRecorder MicIsReleased OneAttemptPerRecording
PROPERTIES UploadEnds
CHECK_DEADLOCK FALSE
