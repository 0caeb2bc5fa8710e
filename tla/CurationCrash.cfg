SPECIFICATION Spec
CONSTANTS
  Types = {"preference"}
  Contents <- MCContents
  Keys = {"language"}
  NoKey = "none"
  DerivedKey <- MCDerivedKey
  NoExpiry = "never"
  Torn = "torn"
  Confidences = {5}
  EpistemicStates = {"user_asserted", "parsed", "verified"}
  Verdicts = {"approve", "reject"}
  Resolutions = {"none", "supersede_existing"}
  Retentions = {}
  Proposals <- TwoProposals
  Recommendations = {"approve"}
  Commands = {"propose", "review", "apply", "tombstone"}
  MaxCandidates = 2
  MaxDecisions = 1
  MaxMutations = 2
  MaxFaults = 2
INVARIANT Authority
INVARIANT ReceiptsNeverDangle
INVARIANT OneApplicationPerDecision
PROPERTY NoResurrection
CHECK_DEADLOCK FALSE
