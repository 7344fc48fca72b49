\* two requests for two layers, accepted and refused configurations of each provider
CONSTANTS
  Requests = {"r1", "r2"}
  Setups <- AllSetups
  Table <- Tables
  IdSpace = 4
SPECIFICATION FairSpec
INVARIANTS
  FeaturesWhole
  HstoreEverywhere
PROPERTIES
  Answered
  CreatedAndCleaned
\* requests that are done stay done
CHECK_DEADLOCK FALSE
