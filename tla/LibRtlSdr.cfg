SPECIFICATION Spec
CONSTANTS
  Dongles <- MCDongles
  OpenArgs <- MCOpenArgs
  Commands <- MCCommands
  Answers <- MCAnswers
  Junks <- MCJunks
  MaxCommands = 2
INVARIANTS
    RepeaterClosed
    TunedAsReported
    SignalPath
    
CHECK_DEADLOCK FALSE
