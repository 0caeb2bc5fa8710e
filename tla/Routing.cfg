SPECIFICATION Spec
CONSTANTS
  a = a
  b = b
  c = c
  link1 = link1
  link2 = link2
  link3 = link3
  key = key
  other = other
  Memories <- MCMemories
  SemanticKeys = {key, other}
  RecordTypes = {"fact", "claim", "relationship"}
  Tags = {"root", "odd"}
  Terms = {"code", "rust", "parser"}
  EpistemicStates = {"verified", "inferred"}
  Observations = {"obs"}
  ContentPaths = {"path"}
  NoMemory = NoMemory
  NoKey = NoKey
  NoLink = NoLink
  NoTask = NoTask
  Inputs <- MCInputs
  StepBudget = 3
INVARIANT TypeOK
INVARIANT OnlyPermitted
INVARIANT BundleIffPlannable
INVARIANT ClosureIsExact
INVARIANT DiagnosticsExact
