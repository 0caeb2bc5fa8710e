SPECIFICATION Spec
CONSTANTS
  Types = {"preference"}
  Contents <- MCContents
  Keys = {"language"}
  NoKey = "none"
  DerivedKey <- MCDerivedKey
  NoExpiry = "never"
  Torn = "torn"
  Confidences = {5}
  EpistemicStates = {"user_asserted", "parsed", "verified"}
  Verdicts = {"approve", "reject"}
  Resolutions = {"none", "coexist", "supersede_existing"}
  Retentions = {}
  Proposals <- KeyedProposals
  Recommendations = {"approve"}
  Commands = {"propose", "llm-import", "review", "apply"}
  MaxCandidates = 2
  MaxDecisions = 2
  MaxMutations = 1
  MaxFaults = 0
INVARIANT AuditIntact
INVARIANT ConflictsResolved
PROPERTY RevocationRespected
CHECK_DEADLOCK FALSE
