SPECIFICATION FairBufferSpec
CONSTANTS
  NumStages = 2
  BufferSize = 2
  EndMark = EndMark
  Failure = Failure
  MaxFed = 3
  MaxStageErrors = 1
PROPERTY
  StreamDelivers
CHECK_DEADLOCK FALSE
