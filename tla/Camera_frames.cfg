SPECIFICATION FairSpec
CONSTANTS
  Buffers = {b1, b2}
  Streams = {s1, s2, s3}
  QueueLen = 2
  Pieces <- MCPieces
  None = None
INVARIANTS
  FramesAccounted
  PicturesAccounted
  BusyOnlyWhileStreaming
PROPERTIES
  FramesComeBack
