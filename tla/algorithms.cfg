\* every pure algorithm over its small inputs
CONSTANTS
  Offered <- AllAlgorithms
  Inputs <- SmallInputs
  Segments <- AllSegments
  None = None
  NoFlag = NoFlag
  MaxZ = 3
  IdSpace = 4
  DefaultTileBuffer = 64
  StdDrivers = {"postgis"}
  MvtDrivers = {"mvt_postgis"}
  ReservedTokens = {"!BBOX!"}
  TokenLike <- TokensOnly
  Upper <- Uppercase
  Decodable <- Values
  LayersOf <- LayerIDs
  Vars <- Variables
  Env <- SomeEnv
  MaxRounds = 10
  PartOf <- Parts
SPECIFICATION Spec
INVARIANTS
  StatementsAndRows
  
  
  NamesAgree
  Advertised
  RewritingKeeps
\* an input is taken once
CHECK_DEADLOCK FALSE
