SPECIFICATION Spec
CONSTANTS
  None = None
  ChanCap = 1
  Frequencies <- MCFrequencies
  Commands <- MCCommands
  Anomalies <- MCLongAnomalies
  MaxCommands = 1
  MaxAnomalies = 1
  MaxAge = 3
INVARIANTS
  ExpiredNotExecuted
