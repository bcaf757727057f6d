CONSTANTS
  DataMax = 1
  AudioMax = 1
  Transcripts = 2
  Interims = 1
  Pieces = 1
  Barges = {TRUE, FALSE}
  MaxFailures = 1
SPECIFICATION Spec
INVARIANTS OldTurnSilent OneRunPerAnswer QuietWhenIdle AnsweredAtRest
CHECK_DEADLOCK FALSE
