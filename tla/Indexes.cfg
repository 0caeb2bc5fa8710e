SPECIFICATION Spec
CONSTANTS
  Procs = {p1, p2}
  Memories <- MCMemories
  Queries <- MCQueries
  Ids = {1, 2, 3, 4}
  Words = {"x", "y", "the"}
  Stopwords = {"the"}
  Dimension <- MCDimension
  Labels = {7}
  Relations = {"knows"}
  Inodes = {i1, i2, i3}
  None = None
  MaxMutations = 2
  MaxFaults = 1
SYMMETRY MCSymmetry
INVARIANT IndexKept
INVARIANT PrivateIgnored
INVARIANT GraphClosed
PROPERTY AnswersFromMemory
CHECK_DEADLOCK FALSE
