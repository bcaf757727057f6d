CONSTANTS
  DataMax = 1
  AudioMax = 1
  Transcripts = 2
  Interims = 0
  Pieces = 1
  Barges = {TRUE}
  MaxFailures = 0
SPECIFICATION Spec
PROPERTY TranscriptRuns
CHECK_DEADLOCK FALSE
