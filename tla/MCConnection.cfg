SPECIFICATION FairSpec
CONSTANTS
  Request <- MCRequest
  Header = 2
  Args = 1
  Capacity = 5
  Fifo = 2
  MaxRequests = 3
INVARIANTS
  BuffersBounded
  AnsweredInOrder
PROPERTIES
  Answered
