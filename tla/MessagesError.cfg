SPECIFICATION Spec
CONSTANTS
  Streams <- SomeStreams
  Replies <- SomeReplies
  MaxBuffer = 4
  SeqLimit = 5
CHECK_DEADLOCK FALSE
INVARIANT ErrorIsRelayed
