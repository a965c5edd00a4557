SPECIFICATION Spec
CONSTANTS
  a = a
  b = b
  c = c
  x = x
  y = y
  z = z
  t = t
  Null = Null
  Buffer <- MCBuffer
  Slot <- MCSlot
  Worker <- MCWorker
  MinBuffers = 3
SYMMETRY Interchangeable
INVARIANTS LockedFromFirmware
