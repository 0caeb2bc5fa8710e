SPECIFICATION Spec
CONSTANTS
  Sources <- MCSources
  Names = {"p", "d", "export.json"}
  Paths <- MCPaths
  DrivePaths <- MCDrive
  Lines = {"x", "y", "z"}
  Adapters = {"auto", "gemini", "evidence:repo", "evidence:email", "evidence:drive-export"}
  ChunkSizes = {2}
  Limits = {2}
  Times = {1, 2}
  None = None
  NoIndex = NoIndex
  TornIndex = TornIndex
  MaxReceipts = 2
  MaxEdits = 2
  MaxFaults = 1
INVARIANT ReceiptsBacked
INVARIANT EvidenceResolves
INVARIANT RowsOfTheSource
 
INVARIANT CleanUnlessCommitted
INVARIANT ImportsValidate
INVARIANT RepetitionAccepted
CHECK_DEADLOCK FALSE
