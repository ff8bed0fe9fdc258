SPECIFICATION CaptureSpec
CONSTANTS
  Readers = {"r1"}
  Asciicast = TRUE
  MaxBytes = 2
  RetainSegments = 2
  RetainBytes = 4
  MaxWrites = 7
  MaxFails = 2
  MaxStarts = 2
  NoFile = NoFile
INVARIANTS TranscriptInOrder NothingLost ClosedStaysClosed SelfDescribing
PROPERTY ReadInOrder
CHECK_DEADLOCK FALSE
