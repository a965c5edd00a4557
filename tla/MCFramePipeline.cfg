SPECIFICATION Spec
CONSTANTS
  a = a
  b = b
  c = c
  Null = Null
  MaxFrames = 3
  Primed = 3
  Buffer <- MCBuffer
  Control <- MCControl
  Rates <- MCReduced
VIEW Relevant
INVARIANTS UserBufferUntouched DeliveredIsFresh PipeSound FlagsBacked
