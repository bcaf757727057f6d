CONSTANTS
  DataMax = 1
  AudioMax = 2
  Barges = 1
  MinSpeech = 1
  MinSilence = 2
  SilenceStopMS = 40
  ChunkMS = 20
  Sounds = {"speech", "silence"}
  Chunks = 3
  EndsByHand = 1
  BotTurns = 1
  InFlight = 2
  Services = {"deepgram", "whisper", "assemblyai", "google"}
  MinChunks = 2
  MaxPolls = 1
  RealtimeServices = {"openai", "gemini"}
  Messages = 4
  Timeout = 2
  LastTick = 4
  Frequency = 2
  Position = "behind"
SPECIFICATION Spec
INVARIANTS ChunkOnce UtteranceWhole EndOfTurnAgrees TurnsAlternate
INVARIANTS OneVoice AudioIsAnnounced MonitoringGoesOn
PROPERTY NeitherFiresEarly
CHECK_DEADLOCK FALSE
