SPECIFICATION FairSpec
CONSTANTS
  a = a
  b = b
  c = c
  Null = Null
  Buffer <- MCBuffer
  MinBuffers = 3
INVARIANTS TypeOK FillWaitedFor NoBufferLost
PROPERTY StopReturns
