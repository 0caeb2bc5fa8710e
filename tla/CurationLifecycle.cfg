SPECIFICATION Spec
CONSTANTS
  Types = {"preference"}
  Contents <- MCContents
  Keys = {"language"}
  NoKey = "none"
  DerivedKey <- MCDerivedKey
  NoExpiry = "never"
  Torn = "torn"
  Confidences = {5}
  EpistemicStates = {"user_asserted", "parsed", "verified"}
  Verdicts = {"approve"}
  Resolutions = {"none"}
  Retentions = {"month"}
  Proposals <- OneProposal
  Recommendations = {"approve"}
  Commands = {"propose", "review", "apply", "confidence", "verify", "supersede", "tombstone", "retention-policy", "enforce-retention"}
  MaxCandidates = 2
  MaxDecisions = 1
  MaxMutations = 3
  MaxFaults = 0
INVARIANT AuditIntact
INVARIANT ProvenanceKept
PROPERTY NoResurrection
PROPERTY SweepDatesEveryRow
CHECK_DEADLOCK FALSE
