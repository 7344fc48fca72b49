\* two tiles of two layers, on one connection too few
CONSTANTS
  Requests = {"r1", "r2"}
  Setups <- Starved
  Table <- Tables
  IdSpace = 4
SPECIFICATION FairSpec
PROPERTY Answered
\* requests that are done stay done
CHECK_DEADLOCK FALSE
