SPECIFICATION Spec
CONSTANTS
  None = None
  AlphaNum = 6
  AlphaDen = 5
  MaxSearchSteps = 8
  ViewLength = 2
  MaxK = 4
  MaxColumns = 1
  MaxDimensions = 4
  CharBit = 2
  DefaultChunkSize = 2
  MaxChunkSize = 4
  DefaultOversample = 2
  MaxOversample = 3
  DefaultNeighbors = 2
  MaxNeighbors = 4
  DefaultListSize = 2
  NamesOf <- MCNamesOf
  Declarations <- BufferedDeclarations
  KeysOf <- MCKeysOf
  RowsOf <- MCRowsOf
  CommandsOf <- MCCommandsOf
  Bounds <- MCBounds
  QueriesOf <- MCQueriesOf
  Descriptions <- MCDescriptions
INVARIANT NoRepairNeeded
