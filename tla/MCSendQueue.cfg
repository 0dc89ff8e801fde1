CONSTANTS
  MaxSendQue = 2
  Parts = 2
  MaxSends = 5
SPECIFICATION Spec
INVARIANTS OneWriteOutstanding
PROPERTIES AcceptedIsWritten ImplementsFrameStream
CHECK_DEADLOCK FALSE
