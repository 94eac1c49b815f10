SPECIFICATION FairSpec
CONSTANTS
  None = None
  ChanCap = 1
  Frequencies <- MCFrequencies
  Commands <- MCCommands
  Anomalies <- MCAnomalies
  MaxCommands = 2
  MaxAnomalies = 2
  MaxAge = 0
INVARIANTS
  TypeOK
  CommandsInOrder
  AckedConfigApplied
PROPERTIES
  AnswersSpec
  CommandsHandled
  TelemetryResumes
