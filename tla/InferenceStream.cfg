SPECIFICATION Spec
CONSTANTS
  Streams <- SomeStreams
  Replies <- SomeReplies
  MaxBuffer = 4
  SeqLimit = 5
CHECK_DEADLOCK FALSE
INVARIANTS FramesAreSequenced FramesUseSessionKeys SessionIsErased ChunkingIsInvisible
  EndMeansComplete MessagesStreamIsWellFormed
