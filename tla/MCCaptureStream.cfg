SPECIFICATION FairSpec
CONSTANTS
  a = a
  b = b
  c = c
  x = x
  y = y
  z = z
  t = t
  Null = Null
  Buffer <- MCTwoBuffers
  Slot <- MCTwoSlots
  Worker <- MCWorker
  MinBuffers = 2
INVARIANTS NoBufferLost LockedUnlessLeftOver
PROPERTIES StopReturns FrameTaken
