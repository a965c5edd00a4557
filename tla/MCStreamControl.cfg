SPECIFICATION FairSpec
CONSTANTS
  MaxRetry <- MCMaxRetry
  MaxCount <- MCMaxCount
INVARIANTS UndisturbedTeardown RestartsJustified GivenUpStaysDown StartedIsArmed
PROPERTIES StopReturns StartedIsServed
