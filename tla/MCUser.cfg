SPECIFICATION FairSpec
CONSTANTS
  MAXARGS = 4
  NOFILE = 7
  NPipe = 3
  PIPESIZE = 4
  Slots = {6, 7}
  Roots <- Started1
  Commands <- Typed
  BadLines <- Wrong
  Files <- Stored
  LastPrime = 10
  Big = 4
INVARIANTS ParseExact OutputsExact
PROPERTIES PromptReturns
CHECK_DEADLOCK FALSE
