SPECIFICATION Spec
CONSTANTS
  core = core
  evidence = evidence
  fact = fact
  style = style
  Paths = {here, there}
  Outputs = {first}
  Procs = {p1, p2}
  Imports = {core, evidence}
  EvidenceImports = {evidence}
  Candidates = {fact}
  Cites <- MCCites
  Enrichments = {style}
  Requests <- MCRequests
  Beginnings <- MCBeginnings
  Torn = Torn
  None = None
  MaxMembers = 16
  MaxVersion = 2
  MaxCommands = 1
  MaxTransfers = 2
  MaxFaults = 1
SYMMETRY MCSymmetry
INVARIANT QuietExportRestores
INVARIANT ReexportSame
INVARIANT QuietExportAccepted
INVARIANT RestoredGoverned
PROPERTY DestinationsKept
CHECK_DEADLOCK FALSE
