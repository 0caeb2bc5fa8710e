SPECIFICATION Spec
CONSTANTS
  Types = {"preference"}
  Contents <- MCContents
  Keys = {"language"}
  NoKey = "none"
  DerivedKey <- MCDerivedKey
  NoExpiry = "never"
  Torn = "torn"
  Confidences = {5}
  EpistemicStates = {"user_asserted", "parsed", "verified"}
  Verdicts = {"approve"}
  Resolutions = {"none"}
  Retentions = {}
  Proposals <- VerifiedProposal
  Recommendations = {"approve"}
  Commands = {"propose", "review", "apply", "confidence", "verify", "supersede", "tombstone"}
  MaxCandidates = 1
  MaxDecisions = 2
  MaxMutations = 2
  MaxFaults = 0
INVARIANT RouterAccepts
CHECK_DEADLOCK FALSE
