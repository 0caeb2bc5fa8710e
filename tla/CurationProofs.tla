--------------------------- MODULE CurationProofs ---------------------------
(***************************************************************************)
(* Proofs about Curation, for every value of its constants.                *)
(***************************************************************************)
EXTENDS Curation, SequenceTheorems, WellFoundedInduction, TLAPS

\* A bounded nonempty set of naturals has a greatest element.
LEMMA GreatestElement ==
  ASSUME NEW N \in Nat, NEW T \in SUBSET (0 .. N), T # {}
  PROVE  \E x \in T : \A y \in T : y <= x
<1> DEFINE below == OpToRel(<, Nat)
           gaps == {N - x : x \in T}
<1>1. gaps \subseteq Nat /\ gaps # {}
  <2>1. \A x \in T : N - x \in Nat
    OBVIOUS
  <2>2. \A g \in gaps : g \in Nat
    BY <2>1
  <2>3. \E t \in T : N - t \in gaps
    OBVIOUS
  <2>4. QED
    BY <2>2, <2>3
<1>2. IsWellFoundedOn(below, Nat)
  BY NatLessThanWellFounded
<1>3. \A x, y \in Nat : y < x => <<y, x>> \in below
  BY DEF OpToRel
<1>4. PICK g \in gaps : \A h \in gaps : ~ (<<h, g>> \in below)
  <2> HIDE DEF below, gaps
  <2>1. QED
    BY <1>1, <1>2, WFMin
<1>5. PICK x \in T : g = N - x
  BY <1>4
<1>6. ASSUME NEW y \in T PROVE y <= x
  <2>1. N - y \in gaps /\ N - y \in Nat /\ N - x \in Nat
    BY <1>1
  <2>2. ~ (N - y < N - x)
    BY <1>3, <1>4, <1>5, <2>1
  <2>3. QED
    BY <2>2
<1>7. QED
  BY <1>6

\* The revisions of a nonempty set of decisions have a greatest one.
LEMMA LatestDecisionExists ==
  ASSUME disk \in Disk, NEW c, DecisionsOf(c) # {}
  PROVE  LatestDecision(c) \in DecisionsOf(c)
<1> DEFINE ds == DecisionsOf(c)
           revisions == {d.revision : d \in ds}
<1>1. ds \subseteq Decision
  BY DEF Disk, DecisionsOf
<1>2. revisions \in SUBSET (0 .. MaxDecisions) /\ revisions # {}
  BY <1>1 DEF Decision
<1>3. PICK n \in revisions : \A k \in revisions : k <= n
  <2> HIDE DEF revisions
  <2>1. QED
    BY <1>2, GreatestElement, ConstantsAssumption
<1>4. \E d \in ds : \A e \in ds : e.revision <= d.revision
  BY <1>3
<1>5. QED
  BY <1>4 DEF LatestDecision

\* The same for the mutations of one memory.
LEMMA LastMutationExists ==
  ASSUME NEW ms \in SUBSET Mutation, ms # {}
  PROVE  LastOf(ms) \in ms
<1> DEFINE revisions == {x.revision : x \in ms}
<1>1. revisions \in SUBSET (0 .. MaxMutations) /\ revisions # {}
  BY DEF Mutation
<1>2. PICK n \in revisions : \A k \in revisions : k <= n
  <2> HIDE DEF revisions
  <2>1. QED
    BY <1>1, GreatestElement, ConstantsAssumption
<1>3. \E x \in ms : \A y \in ms : y.revision <= x.revision
  BY <1>2
<1>4. QED
  BY <1>3 DEF LastOf

-----------------------------------------------------------------------------
(* What the helper operators return.                                       *)

\* The revision of a candidate's next decision is within the bound.
LEMMA NextDecisionType ==
  ASSUME disk \in Disk, NEW c
  PROVE  NextDecision(c) \in Nat \ {0}
<1>1. CASE DecisionsOf(c) = {}
  BY <1>1 DEF NextDecision
<1>2. CASE DecisionsOf(c) # {}
  <2>1. LatestDecision(c) \in Decision
    BY <1>2, LatestDecisionExists DEF DecisionsOf, Disk
  <2>2. QED
    BY <1>2, <2>1, ConstantsAssumption DEF NextDecision, Decision
<1>3. QED
  BY <1>1, <1>2

\* The revision of a memory's next mutation is positive.
LEMMA NextMutationType ==
  ASSUME disk \in Disk, NEW m
  PROVE  NextMutation(m) \in Nat \ {0}
<1>1. MutationsOf(m) \in SUBSET Mutation
  BY DEF MutationsOf, Disk
<1>2. CASE MutationsOf(m) = {}
  BY <1>2 DEF NextMutation
<1>3. CASE MutationsOf(m) # {}
  <2>1. LastOf(MutationsOf(m)) \in Mutation
    BY <1>1, <1>3, LastMutationExists
  <2>2. QED
    BY <1>3, <2>1, ConstantsAssumption DEF NextMutation, Mutation
<1>4. QED
  BY <1>2, <1>3

\* append_mutation records a mutation.
LEMMA MutationForType ==
  ASSUME disk \in Disk, NEW r \in Row, NEW after \in Row, MutationBound(r),
         NEW kind \in {"confidence_update", "verification", "supersede",
                       "tombstone", "retention_set", "expire"}
  PROVE  MutationFor(r, kind, after) \in Mutation
<1> DEFINE same == {x \in MutationsOf(r.id) : x.kind = kind /\ x.after = r}
<1>1. same \in SUBSET Mutation
  BY DEF MutationsOf, Disk
<1>2. CASE after = r /\ same # {}
  <2>1. LastOf(same) \in Mutation
    BY <1>1, <1>2, LastMutationExists
  <2>2. QED
    BY <1>2, <2>1 DEF MutationFor
<1>3. CASE ~ (after = r /\ same # {})
  <2>1. NextMutation(r.id) \in 1 .. MaxMutations
    BY NextMutationType, ConstantsAssumption DEF MutationBound
  <2>2. r.id \in MemoryId
    BY DEF Row
  <2>3. QED
    BY <1>3, <2>1, <2>2 DEF MutationFor, Mutation
<1>4. QED
  BY <1>2, <1>3

\* The key of a candidate is a semantic key.
LEMMA CandidateKeyType ==
  ASSUME NEW c \in Candidate
  PROVE  CandidateKey(c) \in SemanticKeys
<1>1. c.proposal.content \in Contents
  BY ConstantsAssumption DEF Candidate, Proposal
<1>2. QED
  BY <1>1, ConstantsAssumption DEF CandidateKey, Candidate

\* detect_conflicts yields conflict rows.
LEMMA ConflictRowsType ==
  ASSUME disk \in Disk, NEW c \in Candidate
  PROVE  ConflictRows(c) \subseteq Conflict
<1>1. \A r \in Conflicting(c) : r.id \in MemoryId
  BY DEF Conflicting, Disk, Row
<1>2. QED
  BY <1>1 DEF ConflictRows, Conflict

\* A row whose state, dates or confidence are replaced is a row.
LEMMA RowUpdateType ==
  ASSUME NEW r \in Row
  PROVE  /\ \A x \in LifecycleStates : [r EXCEPT !.state = x] \in Row
         /\ \A x \in Expiries : [r EXCEPT !.expires = x] \in Row
         /\ \A x \in Confidences, e \in EpistemicStates :
              [r EXCEPT !.confidence = x, !.epistemic = e] \in Row
         /\ \A x \in Confidences, e \in EpistemicStates, t \in Nat :
              [r EXCEPT !.confidence = x, !.epistemic = e, !.verified = t] \in Row
BY DEF Row

\* A file of a well-typed workspace may be replaced by the same file of another.
LEMMA ReplaceType ==
  ASSUME NEW d \in Disk, NEW s \in Disk, NEW f \in FileNames
  PROVE  [d EXCEPT ![f] = s[f]] \in Disk
BY DEF Disk, FileNames

\* A staged command leaves every variable it assigns well-typed.
LEMMA StageType ==
  ASSUME TypeOK, NEW new \in Disk, NEW order \in Seq(FileNames),
         NEW transactional \in BOOLEAN, Stage(new, order, transactional)
  PROVE  /\ disk' \in Disk /\ staged' \in Disk /\ backup' \in Disk
         /\ todo' \in Seq(FileNames) /\ atomic' \in BOOLEAN
BY DEF TypeOK, Stage

\* A command that ends leaves the staged copies equal to the files.
LEMMA SettleType ==
  ASSUME NEW files \in Disk, Settle(files)
  PROVE  /\ staged' \in Disk /\ backup' \in Disk
         /\ todo' \in Seq(FileNames) /\ atomic' \in BOOLEAN
<1>1. <<>> \in Seq(FileNames)
  OBVIOUS
<1>2. QED
  BY <1>1, Zenon DEF Settle

\* A command that stages a mutation keeps the type.
LEMMA AppendMutationType ==
  ASSUME TypeOK, NEW r \in Row, NEW after \in Row, NEW receipts \in Disk,
         NEW receiptFile \in Seq(FileNames),
         NEW kind \in {"confidence_update", "verification", "supersede",
                       "tombstone", "retention_set", "expire"},
         AppendMutation(r, kind, after, receipts, receiptFile)
  PROVE  /\ disk' \in Disk /\ staged' \in Disk /\ backup' \in Disk
         /\ todo' \in Seq(FileNames) /\ atomic' \in BOOLEAN
<1>1. MutationFor(r, kind, after) \in Mutation
  BY MutationForType DEF AppendMutation, TypeOK
<1> DEFINE new == [receipts EXCEPT !.memory = (@ \ {r}) \cup {after},
                                   !.mutations = @ \cup {MutationFor(r, kind, after)}]
           order == <<"memory", "mutations">> \o receiptFile
<1>2. new \in Disk
  BY <1>1 DEF Disk
<1>3. order \in Seq(FileNames)
  BY DEF FileNames
<1>4. Stage(new, order, FALSE)
  BY DEF AppendMutation
<1>5. QED
  <2> HIDE DEF new, order
  <2>1. QED
    BY <1>2, <1>3, <1>4, StageType

-----------------------------------------------------------------------------
(* Type correctness.                                                       *)

\* An empty workspace has its type.
LEMMA InitType == Init => TypeOK
<1>1. EmptyDisk \in Disk
  <2>1. <<>> \in Seq(Application)
    OBVIOUS
  <2>2. QED
    BY <2>1 DEF EmptyDisk, Disk
<1>2. <<>> \in Seq(FileNames)
  OBVIOUS
<1>3. SUFFICES ASSUME Init PROVE TypeOK
  OBVIOUS
<1>4. atomic \in BOOLEAN
  BY <1>3, Zenon DEF Init
<1>5. faults \in 0 .. MaxFaults
  BY <1>3, ConstantsAssumption DEF Init
<1>6. retention \in Expiries \cup {Torn} /\ sweep \subseteq Row
  BY <1>3 DEF Init, Expiries
<1>7. disk \in Disk /\ staged \in Disk /\ backup \in Disk /\ todo \in Seq(FileNames)
  BY <1>1, <1>2, <1>3, Zenon DEF Init
<1>8. QED
  BY <1>4, <1>5, <1>6, <1>7 DEF TypeOK

\* The replacement of one file keeps the type.
LEMMA WriteType ==
  ASSUME TypeOK, Write
  PROVE  TypeOK'
<1>1. Head(todo) \in FileNames /\ Tail(todo) \in Seq(FileNames)
  BY DEF TypeOK, Write
<1>2. disk' \in Disk
  BY <1>1, ReplaceType DEF TypeOK, Write
<1>3. CASE Tail(todo) = <<>>
  BY <1>2, <1>3, SettleType DEF TypeOK, Write
<1>4. CASE Tail(todo) # <<>>
  BY <1>1, <1>2, <1>4 DEF TypeOK, Write
<1>5. QED
  BY <1>3, <1>4

\* A crash keeps the type.
LEMMA CrashType ==
  ASSUME TypeOK, Crash
  PROVE  TypeOK'
<1>1. /\ staged' \in Disk /\ backup' \in Disk
      /\ todo' \in Seq(FileNames) /\ atomic' \in BOOLEAN
  BY SettleType DEF TypeOK, Crash
<1>2. faults' \in 0 .. MaxFaults /\ sweep' \subseteq Row
  BY ConstantsAssumption DEF TypeOK, Crash
<1>3. QED
  BY <1>1, <1>2 DEF TypeOK, Crash

\* The rollback of the apply transaction keeps the type.
LEMMA RollbackType ==
  ASSUME TypeOK, Rollback
  PROVE  TypeOK'
<1> DEFINE done == Len(TransactionFiles) - Len(todo)
<1>1. faults' \in 0 .. MaxFaults
  BY ConstantsAssumption DEF TypeOK, Rollback
<1>2. CASE done = 0
  <2>1. Settle(disk)
    BY <1>2 DEF Rollback
  <2>2. QED
    BY <1>1, <2>1, SettleType DEF TypeOK, Rollback
<1>3. CASE done # 0
  <2>1. done \in 1 .. 4
    <3>1. PICK n \in Nat : n = Len(todo)
      BY DEF TypeOK
    <3>2. Len(TransactionFiles) = 4
      BY DEF TransactionFiles
    <3>3. 4 - n # 0 /\ 4 - n >= 0
      BY <1>3, <3>1, <3>2 DEF Rollback
    <3>4. 4 - n \in 1 .. 4
      BY <3>3
    <3>5. QED
      BY <3>1, <3>2, <3>4
  <2>2. Undo(done) \in Seq(FileNames)
    BY <2>1 DEF Undo, TransactionFiles, FileNames
  <2>3. todo' = Undo(done) /\ staged' = backup /\ atomic' = FALSE /\ backup' = backup
    BY <1>3 DEF Rollback
  <2>4. QED
    BY <1>1, <2>2, <2>3 DEF TypeOK, Rollback
<1>4. QED
  BY <1>2, <1>3

\* create_candidate yields files of their kinds.
LEMMA WithCandidateType ==
  ASSUME TypeOK, NEW files \in Disk, NEW c \in Candidate
  PROVE  WithCandidate(files, c) \in Disk
<1>1. ConflictRows(c) \subseteq Conflict
  BY ConflictRowsType DEF TypeOK
<1>2. QED
  BY <1>1 DEF WithCandidate, Disk

\* The ids of canonical memory are memory ids.
LEMMA IdsType ==
  ASSUME TypeOK
  PROVE  Ids(disk.memory) \subseteq MemoryId
BY DEF TypeOK, Disk, Ids, Row

\* propose keeps the type.
LEMMA ProposeType ==
  ASSUME TypeOK, Propose
  PROVE  TypeOK'
<1>1. PICK p \in Proposals, k \in SemanticKeys, s \in SUBSET Ids(disk.memory) :
        Stage(WithCandidate(disk, [proposal |-> p, key |-> k, supersedes |-> s,
                                   generator |-> "deterministic"]),
              <<"candidates", "conflicts">>, FALSE)
  BY DEF Propose
<1> DEFINE c == [proposal |-> p, key |-> k, supersedes |-> s,
                 generator |-> "deterministic"]
<1>2. c \in Candidate
  BY IdsType DEF Candidate
<1>3. WithCandidate(disk, c) \in Disk
  BY <1>2, WithCandidateType DEF TypeOK
<1>4. <<"candidates", "conflicts">> \in Seq(FileNames)
  BY DEF FileNames
<1>5. QED
  BY <1>1, <1>3, <1>4, StageType DEF TypeOK, Propose

\* llm-import keeps the type.
LEMMA ImportSuggestionType ==
  ASSUME TypeOK, NEW b \in disk.candidates, ImportSuggestion(b)
  PROVE  TypeOK'
<1> DEFINE noted(v) == [disk EXCEPT !.suggestions =
                          @ \cup {[candidate |-> b, recommendation |-> v]}]
<1>1. PICK v \in Recommendations :
        \/ Stage(noted(v), <<"suggestions">>, FALSE)
        \/ \E p \in Proposals, k \in SemanticKeys :
             Stage(WithCandidate(noted(v),
                     [proposal |-> p, key |-> k, supersedes |-> b.supersedes,
                      generator |-> "local_llm"]),
                   <<"suggestions", "candidates", "conflicts">>, FALSE)
  BY DEF ImportSuggestion
<1>2. noted(v) \in Disk
  <2>1. disk \in Disk /\ b \in Candidate
    BY DEF TypeOK, Disk
  <2>2. [candidate |-> b, recommendation |-> v] \in Suggestion
    BY <2>1 DEF Suggestion
  <2>3. QED
    BY <2>1, <2>2 DEF Disk
<1>3. /\ <<"suggestions">> \in Seq(FileNames)
      /\ <<"suggestions", "candidates", "conflicts">> \in Seq(FileNames)
  BY DEF FileNames
<1>4. CASE Stage(noted(v), <<"suggestions">>, FALSE)
  BY <1>2, <1>3, <1>4, StageType DEF TypeOK, ImportSuggestion
<1>5. ASSUME NEW p \in Proposals, NEW k \in SemanticKeys,
             Stage(WithCandidate(noted(v),
                     [proposal |-> p, key |-> k, supersedes |-> b.supersedes,
                      generator |-> "local_llm"]),
                   <<"suggestions", "candidates", "conflicts">>, FALSE)
      PROVE  TypeOK'
  <2> DEFINE c == [proposal |-> p, key |-> k, supersedes |-> b.supersedes,
                   generator |-> "local_llm"]
  <2>1. c \in Candidate
    BY DEF TypeOK, Disk, Candidate
  <2> HIDE DEF noted
  <2>2. WithCandidate(noted(v), c) \in Disk
    BY <1>2, <2>1, WithCandidateType
  <2>3. QED
    BY <1>3, <1>5, <2>2, StageType DEF TypeOK, ImportSuggestion
<1>6. QED
  BY <1>1, <1>4, <1>5

\* conflicts keeps the type.
LEMMA RecordConflictsType ==
  ASSUME TypeOK, NEW c \in disk.candidates, RecordConflicts(c)
  PROVE  TypeOK'
<1> DEFINE new == [disk EXCEPT !.conflicts = @ \cup ConflictRows(c)]
<1>1. new \in Disk
  BY ConflictRowsType DEF TypeOK, Disk
<1>2. <<"conflicts">> \in Seq(FileNames)
  BY DEF FileNames
<1>3. Stage(new, <<"conflicts">>, FALSE)
  BY DEF RecordConflicts
<1> HIDE DEF new
<1>4. QED
  BY <1>1, <1>2, <1>3, StageType DEF TypeOK, RecordConflicts

\* review keeps the type.
LEMMA ReviewType ==
  ASSUME TypeOK, NEW c \in disk.candidates, Review(c)
  PROVE  TypeOK'
<1> DEFINE conflicts == Ids(Conflicting(c))
           d(v, how, named) ==
             [candidate |-> c, revision |-> NextDecision(c), verdict |-> v,
              resolved |-> IF how = "none" THEN {} ELSE conflicts,
              supersede |-> IF how = "supersede_existing"
                              THEN named \cup conflicts ELSE named]
           new(v, how, named) ==
             [disk EXCEPT !.conflicts = @ \cup ConflictRows(c),
                          !.decisions = @ \cup {d(v, how, named)}]
<1>1. PICK v \in Verdicts, how \in Resolutions, named \in SUBSET Ids(disk.memory) :
        Stage(new(v, how, named), <<"conflicts", "decisions">>, FALSE)
  BY DEF Review
<1>2. c \in Candidate /\ conflicts \subseteq MemoryId /\ named \subseteq MemoryId
  BY IdsType DEF TypeOK, Disk, Ids, Conflicting, Row
<1>3. NextDecision(c) \in 1 .. MaxDecisions
  BY NextDecisionType, ConstantsAssumption DEF TypeOK, Review
<1>4. d(v, how, named) \in Decision
  BY <1>2, <1>3 DEF Decision
<1>5. new(v, how, named) \in Disk
  <2> HIDE DEF d
  <2>1. ConflictRows(c) \subseteq Conflict
    BY <1>2, ConflictRowsType DEF TypeOK
  <2>2. QED
    BY <1>4, <2>1 DEF TypeOK, Disk
<1>6. <<"conflicts", "decisions">> \in Seq(FileNames)
  BY DEF FileNames
<1> HIDE DEF new
<1>7. QED
  BY <1>1, <1>5, <1>6, StageType DEF TypeOK, Review

\* confidence keeps the type.
LEMMA ConfidenceType ==
  ASSUME TypeOK, NEW r \in disk.memory, Confidence(r)
  PROVE  TypeOK'
<1>1. PICK x \in Confidences, e \in EpistemicStates :
        AppendMutation(r, "confidence_update",
                       [r EXCEPT !.confidence = x, !.epistemic = e], disk, <<>>)
  BY DEF Confidence
<1>2. r \in Row /\ [r EXCEPT !.confidence = x, !.epistemic = e] \in Row
  BY RowUpdateType DEF TypeOK, Disk
<1>3. <<>> \in Seq(FileNames)
  OBVIOUS
<1>4. QED
  BY <1>1, <1>2, <1>3, AppendMutationType DEF TypeOK, Confidence

\* verify keeps the type.
LEMMA VerifyType ==
  ASSUME TypeOK, NEW r \in disk.memory, Verify(r)
  PROVE  TypeOK'
<1>1. r \in Row /\ r.verified \in Nat
  BY DEF TypeOK, Disk, Row
<1>2. PICK x \in Confidences, t \in {r.verified, r.verified + 1} \ {0} :
        AppendMutation(r, "verification",
          [r EXCEPT !.confidence = x, !.epistemic = "verified", !.verified = t],
          disk, <<>>)
  BY DEF Verify
<1>3. t \in Nat /\ "verified" \in EpistemicStates
  BY <1>1, ConstantsAssumption
<1>4. [r EXCEPT !.confidence = x, !.epistemic = "verified", !.verified = t] \in Row
  BY <1>1, <1>3, RowUpdateType
<1>5. <<>> \in Seq(FileNames)
  OBVIOUS
<1>6. QED
  BY <1>1, <1>2, <1>4, <1>5, AppendMutationType DEF TypeOK, Verify

\* A row whose lifecycle state is replaced is a row.
LEMMA StateChangeType ==
  ASSUME NEW r \in Row
  PROVE  Superseded(r) \in Row /\ Tombstoned(r) \in Row
BY RowUpdateType DEF Superseded, Tombstoned, LifecycleStates

\* supersede keeps the type.
LEMMA SupersedeType ==
  ASSUME TypeOK, NEW old \in disk.memory, NEW new \in disk.memory, Supersede(old, new)
  PROVE  TypeOK'
<1> DEFINE x == MutationFor(old, "supersede", Superseded(old))
           files == [disk EXCEPT !.supersession =
                       @ \cup {[from |-> old.id, to |-> new.id, mutation |-> x.revision]}]
<1>1. old \in Row /\ new \in Row /\ Superseded(old) \in Row
  BY StateChangeType DEF TypeOK, Disk
<1>2. AppendMutation(old, "supersede", Superseded(old), files, <<"supersession">>)
  BY DEF Supersede
<1>3. x \in Mutation
  BY <1>1, <1>2, MutationForType DEF TypeOK, AppendMutation
<1>4. files \in Disk
  <2> HIDE DEF x
  <2>1. [from |-> old.id, to |-> new.id, mutation |-> x.revision] \in Edge
    BY <1>1, <1>3 DEF Edge, Mutation, Row
  <2>2. QED
    BY <2>1 DEF TypeOK, Disk
<1>5. <<"supersession">> \in Seq(FileNames)
  BY DEF FileNames
<1> HIDE DEF files
<1>6. QED
  BY <1>1, <1>2, <1>4, <1>5, AppendMutationType DEF TypeOK, Supersede

\* tombstone keeps the type.
LEMMA TombstoneMemoryType ==
  ASSUME TypeOK, NEW r \in disk.memory, TombstoneMemory(r)
  PROVE  TypeOK'
<1> DEFINE x == MutationFor(r, "tombstone", Tombstoned(r))
           files == [disk EXCEPT !.tombstones =
                       @ \cup {[memory |-> r.id, mutation |-> x.revision]}]
<1>1. r \in Row /\ Tombstoned(r) \in Row
  BY StateChangeType DEF TypeOK, Disk
<1>2. AppendMutation(r, "tombstone", Tombstoned(r), files, <<"tombstones">>)
  BY DEF TombstoneMemory
<1>3. x \in Mutation
  BY <1>1, <1>2, MutationForType DEF TypeOK, AppendMutation
<1>4. files \in Disk
  <2> HIDE DEF x
  <2>1. [memory |-> r.id, mutation |-> x.revision] \in Tombstone
    BY <1>1, <1>3 DEF Tombstone, Mutation, Row
  <2>2. QED
    BY <2>1 DEF TypeOK, Disk
<1>5. <<"tombstones">> \in Seq(FileNames)
  BY DEF FileNames
<1> HIDE DEF files
<1>6. QED
  BY <1>1, <1>2, <1>4, <1>5, AppendMutationType DEF TypeOK, TombstoneMemory

\* A step of enforce-retention keeps the type.
LEMMA SweepType ==
  ASSUME TypeOK, Sweep
  PROVE  TypeOK'
<1>1. PICK r \in sweep : AssignExpiry(r) \/ Expire(r) \/ Keep(r)
  BY DEF Sweep
<1>2. r \in Row /\ <<>> \in Seq(FileNames)
  BY DEF TypeOK
<1>3. CASE AssignExpiry(r)
  <2>1. Dated(r) \in Row
    BY <1>2, <1>3, RowUpdateType DEF Dated, Expiries, AssignExpiry
  <2>2. AppendMutation(r, "retention_set", Dated(r), disk, <<>>)
    BY <1>3 DEF AssignExpiry
  <2>3. QED
    BY <1>2, <1>3, <2>1, <2>2, AppendMutationType DEF TypeOK, AssignExpiry
<1>4. CASE Expire(r)
  <2>1. PICK current \in disk.memory :
          AppendMutation(current, "expire", [current EXCEPT !.state = "expired"], disk, <<>>)
    BY <1>4 DEF Expire
  <2>2. current \in Row
    BY DEF TypeOK, Disk
  <2>3. [current EXCEPT !.state = "expired"] \in Row
    BY <2>2, RowUpdateType DEF LifecycleStates
  <2>4. QED
    BY <1>2, <1>4, <2>1, <2>2, <2>3, AppendMutationType DEF TypeOK, Expire
<1>5. CASE Keep(r)
  BY <1>5 DEF TypeOK, Keep, volatile
<1>6. QED
  BY <1>1, <1>3, <1>4, <1>5

\* The id apply computes is a memory id.
LEMMA IdentityType ==
  ASSUME TypeOK, retention # Torn, NEW c \in Candidate, NEW targets \in SUBSET MemoryId
  PROVE  Identity(c, targets) \in MemoryId
<1> DEFINE link == [proposal |-> c.proposal, expires |-> retention]
           older == IF targets = {} THEN <<>> ELSE CHOOSE t \in targets : TRUE
<1>1. link \in [proposal : Proposals, expires : Expiries]
  BY DEF TypeOK, Candidate
<1>2. older \in MemoryId
  <2>1. CASE targets = {}
    <3>1. <<>> \in MemoryId
      BY DEF MemoryId
    <3>2. QED
      BY <2>1, <3>1
  <2>2. CASE targets # {}
    <3>1. (CHOOSE t \in targets : TRUE) \in targets
      BY <2>2
    <3>2. QED
      BY <2>2, <3>1
  <2>3. QED
    BY <2>1, <2>2
<1> HIDE DEF link, older
<1>3. <<link>> \o older \in MemoryId
  BY <1>1, <1>2 DEF MemoryId
<1>4. QED
  BY <1>3 DEF Identity, link, older

\* The row apply would write is a row.
LEMMA ProposedType ==
  ASSUME TypeOK, retention # Torn, NEW c \in Candidate, NEW id \in MemoryId
  PROVE  Proposed(c, id) \in Row
<1> DEFINE known == {r \in disk.memory : r.id = id}
           t == IF known = {} THEN 0 ELSE (CHOOSE r \in known : TRUE).verified
<1>1. t \in Nat
  <2>1. known \subseteq Row
    BY DEF TypeOK, Disk
  <2>2. CASE known # {}
    <3>1. (CHOOSE r \in known : TRUE) \in Row
      BY <2>1, <2>2
    <3>2. QED
      BY <2>2, <3>1 DEF Row
  <2>3. QED
    BY <2>2
<1>2. /\ c.proposal.confidence \in Confidences
      /\ c.proposal.epistemic \in EpistemicStates
  BY ConstantsAssumption DEF Candidate, Proposal
<1>3. retention \in Expiries /\ "active" \in LifecycleStates
  BY DEF TypeOK, LifecycleStates
<1> HIDE DEF t
<1>4. [id |-> id, state |-> "active", expires |-> retention,
       confidence |-> c.proposal.confidence, epistemic |-> c.proposal.epistemic,
       verified |-> t] \in Row
  BY <1>1, <1>2, <1>3 DEF Row
<1>5. QED
  BY <1>4 DEF Proposed, t

\* apply keeps the type.
LEMMA ApplyType ==
  ASSUME TypeOK, NEW c \in disk.candidates, Apply(c)
  PROVE  TypeOK'
<1> DEFINE d == LatestDecision(c)
           targets == Targets(c, d)
           id == Identity(c, targets)
           row == Proposed(c, id)
           retired == {r \in disk.memory : r.id \in targets}
           application == [candidate |-> c, decision |-> d.revision, memory |-> id,
                           written |-> row, key |-> CandidateKey(c)]
           memory == ((disk.memory \cup {row}) \ retired) \cup {Superseded(r) : r \in retired}
           mutations == {SupersedeMutation(r) : r \in retired}
           edges == {[from |-> r.id, to |-> id, mutation |-> NextMutation(r.id)] : r \in retired}
           new == [disk EXCEPT !.conflicts = @ \cup ConflictRows(c),
                               !.memory = memory,
                               !.mutations = @ \cup mutations,
                               !.supersession = @ \cup edges,
                               !.applications = Append(@, application)]
           order == <<"conflicts">> \o TransactionFiles
<1>1. Stage(new, order, TRUE)
  BY DEF Apply
<1>2. c \in Candidate
  BY DEF TypeOK, Disk
<1>3. d \in Decision
  BY LatestDecisionExists DEF TypeOK, Disk, DecisionsOf, Apply, Approved
<1>4. targets \subseteq MemoryId
  BY <1>2, <1>3 DEF Targets, Candidate, Decision
<1>5. id \in MemoryId /\ row \in Row
  <2>1. retention # Torn
    BY DEF Apply
  <2>2. QED
    BY <1>2, <1>4, <2>1, IdentityType, ProposedType
<1>6. \A r \in retired : /\ r \in Row /\ r.id \in MemoryId /\ Superseded(r) \in Row
                         /\ NextMutation(r.id) \in 1 .. MaxMutations
  <2> SUFFICES ASSUME NEW r \in retired
               PROVE  /\ r \in Row /\ r.id \in MemoryId /\ Superseded(r) \in Row
                      /\ NextMutation(r.id) \in 1 .. MaxMutations
    OBVIOUS
  <2>1. r \in Row
    BY DEF TypeOK, Disk
  <2>2. r.id \in MemoryId /\ Superseded(r) \in Row
    BY <2>1, StateChangeType DEF Row
  <2>3. MutationBound(r)
    BY DEF Apply
  <2>4. NextMutation(r.id) \in 1 .. MaxMutations
    BY <2>3, NextMutationType, ConstantsAssumption DEF MutationBound, TypeOK
  <2>5. QED
    BY <2>1, <2>2, <2>4
<1>7. application \in Application
  <2>1. CandidateKey(c) \in SemanticKeys
    BY <1>2, CandidateKeyType
  <2>2. d.revision \in 1 .. MaxDecisions
    BY <1>3 DEF Decision
  <2> HIDE DEF d, id, row
  <2>3. QED
    BY <1>2, <1>5, <2>1, <2>2 DEF Application
<1>8. memory \subseteq Row
  <2> HIDE DEF row
  <2>1. QED
    BY <1>5, <1>6 DEF TypeOK, Disk
<1>9. mutations \subseteq Mutation
  <2> HIDE DEF retired
  <2>1. QED
    BY <1>6 DEF Mutation, SupersedeMutation
<1>10. edges \subseteq Edge
  <2> HIDE DEF retired, id
  <2>1. QED
    BY <1>5, <1>6 DEF Edge
<1>11. new \in Disk
  <2>1. ConflictRows(c) \subseteq Conflict
    BY <1>2, ConflictRowsType DEF TypeOK
  <2> HIDE DEF memory, mutations, edges, application
  <2>2. Append(disk.applications, application) \in Seq(Application)
    BY <1>7 DEF TypeOK, Disk
  <2>3. QED
    BY <1>8, <1>9, <1>10, <2>1, <2>2 DEF TypeOK, Disk
<1>12. order \in Seq(FileNames)
  BY DEF FileNames, TransactionFiles
<1> HIDE DEF new, order
<1>13. QED
  BY <1>1, <1>11, <1>12, StageType DEF TypeOK, Apply

\* Every step keeps the type.
LEMMA NextType == TypeOK /\ [Next]_vars => TypeOK'
<1> SUFFICES ASSUME TypeOK, [Next]_vars PROVE TypeOK'
  OBVIOUS
<1>1. CASE Write
  BY <1>1, WriteType
<1>2. CASE Crash
  BY <1>2, CrashType
<1>3. CASE Rollback
  BY <1>3, RollbackType
<1>4. CASE Propose
  BY <1>4, ProposeType
<1>5. CASE SetRetention
  BY <1>5 DEF TypeOK, SetRetention, volatile
<1>6. CASE EnforceRetention
  BY <1>6 DEF TypeOK, EnforceRetention, volatile, Swept, Disk
<1>7. ASSUME NEW c \in disk.candidates,
             ImportSuggestion(c) \/ RecordConflicts(c) \/ Review(c) \/ Apply(c)
      PROVE  TypeOK'
  BY <1>7, ImportSuggestionType, RecordConflictsType, ReviewType, ApplyType
<1>8. ASSUME NEW r \in disk.memory, Confidence(r) \/ Verify(r) \/ TombstoneMemory(r)
      PROVE  TypeOK'
  BY <1>8, ConfidenceType, VerifyType, TombstoneMemoryType
<1>9. ASSUME NEW old \in disk.memory, NEW new \in disk.memory, Supersede(old, new)
      PROVE  TypeOK'
  BY <1>9, SupersedeType
<1>10. CASE Sweep
  BY <1>10, SweepType
<1>11. CASE UNCHANGED vars
  BY <1>11 DEF TypeOK, vars
<1>12. QED
  BY <1>1, <1>2, <1>3, <1>4, <1>5, <1>6, <1>7, <1>8, <1>9, <1>10, <1>11 DEF Next

\* Every file of the workspace holds rows of its own kind, and so do the copies
\* a running command has staged, however commands, crashes and rollbacks of
\* tools/curation.py follow one another.
THEOREM TypeCorrect == Spec => []TypeOK
<1>1. QED
  BY InitType, NextType, PTL DEF Spec

-----------------------------------------------------------------------------
(* Authority.  The invariant is not inductive: a row reaches the disk from   *)
(* the copies a command has staged, from the backup of a transaction or from *)
(* a retention sweep, and the decisions on disk are replaced by staged ones. *)

\* Every row has an approval among the decisions of the files.
Authorised(rows, files) ==
  \A r \in rows : \E d \in files.decisions :
    /\ d.verdict = "approve"
    /\ d.candidate \in files.candidates
    /\ d.candidate.proposal = r.id[1].proposal

\* No decision and no candidate of files is missing in more.
Extends(more, files) ==
  files.decisions \subseteq more.decisions /\ files.candidates \subseteq more.candidates

\* Two states of the files with the same reviews.
SameReviews(a, b) == a.decisions = b.decisions /\ a.candidates = b.candidates

\* The inductive invariant: what is written, staged, kept for a rollback or swept is authorised.
AuthorityInv ==
  /\ Authorised(disk.memory, disk) /\ Authorised(staged.memory, disk)
  /\ Authorised(backup.memory, disk) /\ Authorised(sweep, disk)
  /\ Extends(staged, disk)
  /\ atomic => SameReviews(staged, disk) /\ SameReviews(backup, disk)

\* More candidates and more decisions authorise no less.
LEMMA AuthorisedMore ==
  ASSUME NEW rows, NEW files, NEW more, Extends(more, files), Authorised(rows, files)
  PROVE  Authorised(rows, more)
BY DEF Extends, Authorised

\* A row with the id of an authorised row is authorised.
LEMMA AuthorisedSameId ==
  ASSUME NEW rows, NEW others, NEW files, Authorised(rows, files),
         \A s \in others : \E r \in rows : s.id = r.id
  PROVE  Authorised(others, files)
BY DEF Authorised

\* A command that stages only what is authorised keeps the invariant.
LEMMA StageAuthority ==
  ASSUME AuthorityInv, NEW new, NEW order, NEW transactional \in BOOLEAN,
         Stage(new, order, transactional),
         Authorised(new.memory, disk), Extends(new, disk),
         transactional => SameReviews(new, disk),
         Authorised(sweep', disk)
  PROVE  AuthorityInv'
<1>1. disk' = disk /\ staged' = new /\ backup' = disk /\ atomic' = transactional
  BY DEF Stage
<1>2. Authorised(disk.memory, disk) /\ SameReviews(disk, disk)
  BY DEF AuthorityInv, SameReviews
<1>3. (atomic => SameReviews(staged, disk) /\ SameReviews(backup, disk))'
  BY <1>1, <1>2
<1>4. QED
  BY <1>1, <1>2, <1>3 DEF AuthorityInv

\* A command that ends, or dies, keeps the invariant.
LEMMA SettleAuthority ==
  ASSUME NEW files, Settle(files), disk' = files,
         Authorised(files.memory, files), Authorised(sweep', files)
  PROVE  AuthorityInv'
<1>1. staged' = files /\ backup' = files /\ atomic' = FALSE
  BY DEF Settle
<1>2. Extends(files, files)
  BY DEF Extends
<1>3. QED
  BY <1>1, <1>2 DEF AuthorityInv

\* Replacing one file by its staged copy keeps reviews and authorises the rows.
LEMMA WriteAuthority ==
  ASSUME TypeOK, AuthorityInv, Write
  PROVE  AuthorityInv'
<1> DEFINE f == Head(todo)
<1>1. f \in FileNames /\ disk \in Disk /\ staged \in Disk
  BY DEF TypeOK, Write
<1>2. disk' = [disk EXCEPT ![f] = staged[f]]
  BY DEF Write
<1>3. /\ disk'.memory \in {disk.memory, staged.memory}
      /\ disk'.decisions \in {disk.decisions, staged.decisions}
      /\ disk'.candidates \in {disk.candidates, staged.candidates}
  <2> HIDE DEF f
  <2>1. QED
    BY <1>1, <1>2 DEF Disk, FileNames
<1>4. Extends(disk', disk) /\ Extends(staged, disk')
  BY <1>3 DEF AuthorityInv, Extends
<1>5. /\ Authorised(disk'.memory, disk') /\ Authorised(staged.memory, disk')
      /\ Authorised(backup.memory, disk') /\ Authorised(sweep, disk')
  BY <1>3, <1>4, AuthorisedMore DEF AuthorityInv
<1>6. sweep' = sweep
  BY DEF Write
<1>7. CASE Tail(todo) = <<>>
  <2>1. Settle(disk')
    BY <1>7 DEF Write
  <2>2. staged' = disk' /\ backup' = disk' /\ atomic' = FALSE
    BY <2>1 DEF Settle
  <2>3. Extends(disk', disk')
    BY DEF Extends
  <2>4. QED
    BY <1>5, <1>6, <2>2, <2>3 DEF AuthorityInv
<1>8. CASE Tail(todo) # <<>>
  <2>1. staged' = staged /\ backup' = backup /\ atomic' = atomic
    BY <1>8 DEF Write
  <2>2. atomic => SameReviews(staged, disk') /\ SameReviews(backup, disk')
    BY <1>3 DEF AuthorityInv, SameReviews
  <2>3. QED
    BY <1>4, <1>5, <1>6, <2>1, <2>2 DEF AuthorityInv
<1>9. QED
  BY <1>7, <1>8

\* The rollback of the apply transaction keeps the invariant.
LEMMA RollbackAuthority ==
  ASSUME TypeOK, AuthorityInv, Rollback
  PROVE  AuthorityInv'
<1> DEFINE done == Len(TransactionFiles) - Len(todo)
<1>1. disk' = disk /\ sweep' = sweep
  BY DEF Rollback
<1>2. CASE done = 0
  <2>1. Settle(disk)
    BY <1>2 DEF Rollback
  <2>2. QED
    BY <1>1, <2>1, SettleAuthority DEF AuthorityInv
<1>3. CASE done # 0
  <2>1. staged' = backup /\ backup' = backup /\ atomic' = FALSE
    BY <1>3 DEF Rollback
  <2>2. Extends(backup, disk)
    BY DEF Rollback, AuthorityInv, SameReviews, Extends
  <2>3. QED
    BY <1>1, <2>1, <2>2 DEF AuthorityInv
<1>4. QED
  BY <1>2, <1>3

\* A mutation keeps the proposal of its row, and so the row's authority.
LEMMA AppendMutationAuthority ==
  ASSUME TypeOK, AuthorityInv, NEW r, NEW after, NEW receipts \in Disk, NEW receiptFile, NEW kind,
         AppendMutation(r, kind, after, receipts, receiptFile),
         receipts.memory = disk.memory, SameReviews(receipts, disk),
         after.id = r.id, r \in disk.memory \cup sweep,
         Authorised(sweep', disk)
  PROVE  AuthorityInv'
<1> DEFINE new == [receipts EXCEPT !.memory = (@ \ {r}) \cup {after},
                                   !.mutations = @ \cup {MutationFor(r, kind, after)}]
           order == <<"memory", "mutations">> \o receiptFile
<1>1. Stage(new, order, FALSE)
  BY DEF AppendMutation
<1>2. /\ new.memory = (disk.memory \ {r}) \cup {after}
      /\ new.decisions = disk.decisions /\ new.candidates = disk.candidates
  BY DEF SameReviews, Disk
<1> HIDE DEF new, order
<1>3. Authorised(disk.memory \cup sweep, disk)
  BY DEF AuthorityInv, Authorised
<1>4. Authorised(new.memory, disk)
  BY <1>2, <1>3, AuthorisedSameId
<1>5. Extends(new, disk)
  BY <1>2 DEF Extends
<1>6. QED
  BY <1>1, <1>4, <1>5, StageAuthority

\* A staged command that leaves memory alone and drops no review keeps the invariant.
LEMMA ReviewsKept ==
  ASSUME AuthorityInv, NEW new, NEW order,
         new.memory = disk.memory, Extends(new, disk),
         Stage(new, order, FALSE), sweep' = sweep
  PROVE  AuthorityInv'
BY StageAuthority DEF AuthorityInv

\* propose keeps the invariant.
LEMMA ProposeAuthority ==
  ASSUME TypeOK, AuthorityInv, Propose
  PROVE  AuthorityInv'
<1>1. PICK p \in Proposals, k \in SemanticKeys, s \in SUBSET Ids(disk.memory) :
        Stage(WithCandidate(disk, [proposal |-> p, key |-> k, supersedes |-> s,
                                   generator |-> "deterministic"]),
              <<"candidates", "conflicts">>, FALSE)
  BY DEF Propose
<1>2. \A c : LET new == WithCandidate(disk, c)
             IN  new.memory = disk.memory /\ Extends(new, disk)
  BY DEF TypeOK, WithCandidate, Extends, Disk
<1>3. QED
  BY <1>1, <1>2, ReviewsKept DEF Propose

\* The commands about a candidate other than apply keep the invariant.
LEMMA CandidatesAuthority ==
  ASSUME TypeOK, AuthorityInv, NEW c \in disk.candidates,
         ImportSuggestion(c) \/ RecordConflicts(c) \/ Review(c)
  PROVE  AuthorityInv'
<1> DEFINE Keeps(new) == new.memory = disk.memory /\ Extends(new, disk)
<1>1. disk \in Disk
  BY DEF TypeOK
<1>3. CASE ImportSuggestion(c)
  <2> DEFINE noted(v) == [disk EXCEPT !.suggestions =
                            @ \cup {[candidate |-> c, recommendation |-> v]}]
  <2>1. PICK v \in Recommendations :
          \/ Stage(noted(v), <<"suggestions">>, FALSE)
          \/ \E p \in Proposals, k \in SemanticKeys :
               Stage(WithCandidate(noted(v),
                       [proposal |-> p, key |-> k, supersedes |-> c.supersedes,
                        generator |-> "local_llm"]),
                     <<"suggestions", "candidates", "conflicts">>, FALSE)
    BY <1>3 DEF ImportSuggestion
  <2>2. Keeps(noted(v)) /\ \A b : Keeps(WithCandidate(noted(v), b))
    BY <1>1 DEF WithCandidate, Extends, Disk
  <2>3. sweep' = sweep
    BY <1>3 DEF ImportSuggestion
  <2> HIDE DEF noted
  <2>4. QED
    BY <2>1, <2>2, <2>3, ReviewsKept
<1>4. CASE RecordConflicts(c)
  <2>1. Keeps([disk EXCEPT !.conflicts = @ \cup ConflictRows(c)])
    BY <1>1 DEF Extends, Disk
  <2>2. QED
    BY <1>4, <2>1, ReviewsKept DEF RecordConflicts
<1>5. CASE Review(c)
  <2> DEFINE conflicts == Ids(Conflicting(c))
             d(v, how, named) ==
               [candidate |-> c, revision |-> NextDecision(c), verdict |-> v,
                resolved |-> IF how = "none" THEN {} ELSE conflicts,
                supersede |-> IF how = "supersede_existing"
                                THEN named \cup conflicts ELSE named]
             new(v, how, named) ==
               [disk EXCEPT !.conflicts = @ \cup ConflictRows(c),
                            !.decisions = @ \cup {d(v, how, named)}]
  <2>1. PICK v \in Verdicts, how \in Resolutions, named \in SUBSET Ids(disk.memory) :
          Stage(new(v, how, named), <<"conflicts", "decisions">>, FALSE)
    BY <1>5 DEF Review
  <2>2. Keeps(new(v, how, named))
    <3> HIDE DEF d
    <3>1. QED
      BY <1>1 DEF Extends, Disk
  <2>3. sweep' = sweep
    BY <1>5 DEF Review
  <2> HIDE DEF new
  <2>4. QED
    BY <2>1, <2>2, <2>3, ReviewsKept
<1>6. QED
  BY <1>3, <1>4, <1>5

\* The commands that mutate a row keep the invariant.
LEMMA MutationsAuthority ==
  ASSUME TypeOK, AuthorityInv, NEW r \in disk.memory,
         \/ Confidence(r) \/ Verify(r) \/ TombstoneMemory(r)
         \/ \E new \in disk.memory : Supersede(r, new)
  PROVE  AuthorityInv'
<1>1. disk \in Disk /\ SameReviews(disk, disk) /\ r \in Row
  BY DEF TypeOK, SameReviews, Disk
<1>2. Authorised(sweep, disk)
  BY DEF AuthorityInv
<1>3. CASE Confidence(r)
  <2>1. PICK x \in Confidences, e \in EpistemicStates :
          AppendMutation(r, "confidence_update",
                         [r EXCEPT !.confidence = x, !.epistemic = e], disk, <<>>)
    BY <1>3 DEF Confidence
  <2>2. [r EXCEPT !.confidence = x, !.epistemic = e].id = r.id
    BY <1>1 DEF Row
  <2>3. QED
    BY <1>1, <1>2, <1>3, <2>1, <2>2, AppendMutationAuthority DEF Confidence
<1>4. CASE Verify(r)
  <2>1. PICK x \in Confidences, t \in {r.verified, r.verified + 1} \ {0} :
          AppendMutation(r, "verification",
            [r EXCEPT !.confidence = x, !.epistemic = "verified", !.verified = t],
            disk, <<>>)
    BY <1>4 DEF Verify
  <2>2. [r EXCEPT !.confidence = x, !.epistemic = "verified", !.verified = t].id = r.id
    BY <1>1 DEF Row
  <2>3. QED
    BY <1>1, <1>2, <1>4, <2>1, <2>2, AppendMutationAuthority DEF Verify
<1>5. CASE TombstoneMemory(r)
  <2> DEFINE x == MutationFor(r, "tombstone", Tombstoned(r))
             files == [disk EXCEPT !.tombstones =
                         @ \cup {[memory |-> r.id, mutation |-> x.revision]}]
  <2>1. AppendMutation(r, "tombstone", Tombstoned(r), files, <<"tombstones">>)
    BY <1>5 DEF TombstoneMemory
  <2>2. r \in Row /\ Tombstoned(r) \in Row /\ MutationBound(r)
    BY <1>1, <2>1, StateChangeType DEF AppendMutation
  <2>3. [memory |-> r.id, mutation |-> x.revision] \in Tombstone
    <3>1. x \in Mutation
      BY <1>1, <2>2, MutationForType
    <3> HIDE DEF x
    <3>2. QED
      BY <2>2, <3>1 DEF Mutation, Tombstone, Row
  <2>4. files \in Disk /\ files.memory = disk.memory /\ SameReviews(files, disk)
    <3> HIDE DEF x
    <3>1. QED
      BY <1>1, <2>3 DEF Disk, SameReviews
  <2>5. Tombstoned(r).id = r.id
    BY <1>1 DEF Tombstoned, Row
  <2> HIDE DEF files
  <2>6. QED
    BY <1>2, <1>5, <2>1, <2>4, <2>5, AppendMutationAuthority DEF TombstoneMemory
<1>6. ASSUME NEW new \in disk.memory, Supersede(r, new)
      PROVE  AuthorityInv'
  <2> DEFINE x == MutationFor(r, "supersede", Superseded(r))
             files == [disk EXCEPT !.supersession =
                         @ \cup {[from |-> r.id, to |-> new.id, mutation |-> x.revision]}]
  <2>1. AppendMutation(r, "supersede", Superseded(r), files, <<"supersession">>)
    BY <1>6 DEF Supersede
  <2>2. /\ r \in Row /\ Superseded(r) \in Row /\ new \in Row /\ MutationBound(r)
    BY <1>1, <1>6, <2>1, StateChangeType DEF AppendMutation, Disk
  <2>3. [from |-> r.id, to |-> new.id, mutation |-> x.revision] \in Edge
    <3>1. x \in Mutation
      BY <1>1, <2>2, MutationForType
    <3> HIDE DEF x
    <3>2. QED
      BY <2>2, <3>1 DEF Mutation, Edge, Row
  <2>4. files \in Disk /\ files.memory = disk.memory /\ SameReviews(files, disk)
    <3> HIDE DEF x
    <3>1. QED
      BY <1>1, <2>3 DEF Disk, SameReviews
  <2>5. Superseded(r).id = r.id
    BY <1>1 DEF Superseded, Row
  <2> HIDE DEF files
  <2>6. QED
    BY <1>2, <1>6, <2>1, <2>4, <2>5, AppendMutationAuthority DEF Supersede
<1>7. QED
  BY <1>3, <1>4, <1>5, <1>6

\* A step of enforce-retention keeps the invariant.
LEMMA SweepAuthority ==
  ASSUME TypeOK, AuthorityInv, Sweep
  PROVE  AuthorityInv'
<1>1. PICK r \in sweep : AssignExpiry(r) \/ Expire(r) \/ Keep(r)
  BY DEF Sweep
<1>2. disk \in Disk /\ SameReviews(disk, disk) /\ r \in Row
  BY DEF TypeOK, SameReviews
<1>3. Authorised(sweep, disk)
  BY DEF AuthorityInv
<1>4. CASE AssignExpiry(r)
  <2>1. AppendMutation(r, "retention_set", Dated(r), disk, <<>>)
    BY <1>4 DEF AssignExpiry
  <2>2. Dated(r).id = r.id
    BY <1>2 DEF Dated, Row
  <2>3. Authorised(sweep', disk)
    BY <1>3, <1>4 DEF AssignExpiry
  <2>4. QED
    BY <1>2, <2>1, <2>2, <2>3, AppendMutationAuthority
<1>5. CASE Expire(r)
  <2>1. PICK current \in disk.memory :
          AppendMutation(current, "expire", [current EXCEPT !.state = "expired"], disk, <<>>)
    BY <1>5 DEF Expire
  <2>2. [current EXCEPT !.state = "expired"].id = current.id
    BY <1>2 DEF Disk, Row
  <2>3. Authorised(sweep', disk)
    BY <1>3, <1>5 DEF Expire, Authorised
  <2>4. QED
    BY <1>2, <2>1, <2>2, <2>3, AppendMutationAuthority
<1>6. CASE Keep(r)
  <2>1. Authorised(sweep', disk)
    BY <1>3, <1>6 DEF Keep, Authorised
  <2>2. disk' = disk /\ staged' = staged /\ backup' = backup /\ atomic' = atomic
    BY <1>6 DEF Keep, volatile
  <2>3. QED
    BY <2>1, <2>2 DEF AuthorityInv
<1>7. QED
  BY <1>1, <1>4, <1>5, <1>6

\* The memory apply adds holds the candidate's proposal.
LEMMA AppliedProposal ==
  ASSUME TypeOK, retention # Torn, NEW c \in Candidate, NEW targets \in SUBSET MemoryId
  PROVE  /\ Proposed(c, Identity(c, targets)).id = Identity(c, targets)
         /\ Identity(c, targets)[1].proposal = c.proposal
<1> DEFINE link == [proposal |-> c.proposal, expires |-> retention]
           older == IF targets = {} THEN <<>> ELSE CHOOSE t \in targets : TRUE
<1>1. older \in Seq([proposal : Proposals, expires : Expiries])
  <2>1. CASE targets = {}
    <3>1. <<>> \in Seq([proposal : Proposals, expires : Expiries])
      OBVIOUS
    <3>2. QED
      BY <2>1, <3>1
  <2>2. CASE targets # {}
    <3>1. (CHOOSE t \in targets : TRUE) \in targets
      BY <2>2
    <3>2. QED
      BY <2>2, <3>1 DEF MemoryId
  <2>3. QED
    BY <2>1, <2>2
<1>2. link \in [proposal : Proposals, expires : Expiries]
  BY DEF TypeOK, Candidate
<1>3. Identity(c, targets) = <<link>> \o older
  BY DEF Identity
<1> HIDE DEF older, link
<1>4. Identity(c, targets)[1] = link
  <2>1. (<<link>> \o older)[1] = link
    BY <1>1, <1>2
  <2>2. QED
    BY <1>3, <2>1
<1>5. QED
  BY <1>4 DEF link, Proposed

\* apply keeps the invariant: the row it adds has the approval it looked up.
LEMMA ApplyAuthority ==
  ASSUME TypeOK, AuthorityInv, NEW c \in disk.candidates, Apply(c)
  PROVE  AuthorityInv'
<1> DEFINE d == LatestDecision(c)
           targets == Targets(c, d)
           id == Identity(c, targets)
           row == Proposed(c, id)
           retired == {r \in disk.memory : r.id \in targets}
           application == [candidate |-> c, decision |-> d.revision, memory |-> id,
                           written |-> row, key |-> CandidateKey(c)]
           memory == ((disk.memory \cup {row}) \ retired) \cup {Superseded(r) : r \in retired}
           mutations == {SupersedeMutation(r) : r \in retired}
           edges == {[from |-> r.id, to |-> id, mutation |-> NextMutation(r.id)] : r \in retired}
           new == [disk EXCEPT !.conflicts = @ \cup ConflictRows(c),
                               !.memory = memory,
                               !.mutations = @ \cup mutations,
                               !.supersession = @ \cup edges,
                               !.applications = Append(@, application)]
           order == <<"conflicts">> \o TransactionFiles
<1>1. Stage(new, order, TRUE) /\ sweep' = sweep
  BY DEF Apply
<1>2. disk \in Disk /\ c \in Candidate
  BY DEF TypeOK, Disk
<1>3. d \in disk.decisions /\ d \in Decision /\ d.candidate = c /\ d.verdict = "approve"
  BY <1>2, LatestDecisionExists DEF Disk, DecisionsOf, Apply, Approved
<1>4. row.id[1].proposal = c.proposal
  <2>1. targets \in SUBSET MemoryId
    BY <1>2, <1>3 DEF Targets, Candidate, Decision
  <2>2. retention # Torn
    BY DEF Apply
  <2> HIDE DEF targets
  <2>3. QED
    BY <1>2, <2>1, <2>2, AppliedProposal
<1>5. \A r \in retired : Superseded(r).id = r.id
  BY <1>2 DEF Superseded, Row, Disk
<1>6. Authorised(memory, disk)
  <2> SUFFICES ASSUME NEW s \in memory
               PROVE  \E e \in disk.decisions :
                        /\ e.verdict = "approve" /\ e.candidate \in disk.candidates
                        /\ e.candidate.proposal = s.id[1].proposal
    BY DEF Authorised
  <2> HIDE DEF row, d
  <2>1. CASE s = row
    BY <1>3, <1>4, <2>1
  <2>2. CASE s \in disk.memory
    BY <2>2 DEF AuthorityInv, Authorised
  <2>3. CASE \E r \in retired : s = Superseded(r)
    <3>1. PICK r \in retired : s = Superseded(r)
      BY <2>3
    <3>2. r \in disk.memory /\ s.id = r.id
      BY <1>5, <3>1
    <3>3. QED
      BY <3>2 DEF AuthorityInv, Authorised
  <2>4. QED
    BY <2>1, <2>2, <2>3
<1>7. new.memory = memory /\ SameReviews(new, disk)
  <2> HIDE DEF memory, mutations, edges, application
  <2>1. QED
    BY <1>2 DEF Disk, SameReviews
<1>8. Extends(new, disk)
  BY <1>7 DEF Extends, SameReviews
<1> HIDE DEF new, order, memory
<1>9. QED
  BY <1>1, <1>6, <1>7, <1>8, StageAuthority DEF AuthorityInv

\* Every step keeps the invariant.
LEMMA AuthorityInductive == TypeOK /\ AuthorityInv /\ [Next]_vars => AuthorityInv'
<1> SUFFICES ASSUME TypeOK, AuthorityInv, [Next]_vars PROVE AuthorityInv'
  OBVIOUS
<1>1. CASE Write
  BY <1>1, WriteAuthority
<1>2. CASE Crash
  <2>1. Settle(disk) /\ disk' = disk /\ sweep' = {}
    BY <1>2 DEF Crash
  <2>2. Authorised({}, disk)
    BY DEF Authorised
  <2>3. QED
    BY <2>1, <2>2, SettleAuthority DEF AuthorityInv
<1>3. CASE Rollback
  BY <1>3, RollbackAuthority
<1>4. CASE SetRetention
  BY <1>4 DEF AuthorityInv, SetRetention, volatile
<1>5. CASE EnforceRetention
  BY <1>5 DEF AuthorityInv, Authorised, EnforceRetention, volatile, Swept
<1>6. CASE Propose
  BY <1>6, ProposeAuthority
<1>7. ASSUME NEW c \in disk.candidates,
             ImportSuggestion(c) \/ RecordConflicts(c) \/ Review(c) \/ Apply(c)
      PROVE  AuthorityInv'
  BY <1>7, CandidatesAuthority, ApplyAuthority
<1>8. ASSUME NEW r \in disk.memory, Confidence(r) \/ Verify(r) \/ TombstoneMemory(r)
      PROVE  AuthorityInv'
  BY <1>8, MutationsAuthority
<1>9. ASSUME NEW old \in disk.memory, NEW new \in disk.memory, Supersede(old, new)
      PROVE  AuthorityInv'
  BY <1>9, MutationsAuthority
<1>10. CASE Sweep
  BY <1>10, SweepAuthority
<1>11. CASE UNCHANGED vars
  BY <1>11 DEF AuthorityInv, vars
<1>12. QED
  BY <1>1, <1>2, <1>3, <1>4, <1>5, <1>6, <1>7, <1>8, <1>9, <1>10, <1>11 DEF Next

\* Canonical memory holds only what a candidate proposed that a human or a
\* policy approved, whatever sequence of commands, crashes and rollbacks of
\* cmd_apply led there.
THEOREM MemoryIsAuthorised == Spec => []Authority
<1>1. Init => AuthorityInv
  BY DEF Init, EmptyDisk, AuthorityInv, Authorised, Extends, SameReviews
<1>2. TypeOK /\ AuthorityInv => Authority
  BY DEF AuthorityInv, Authorised, Authority
<1>3. QED
  BY InitType, NextType, <1>1, <1>2, AuthorityInductive, PTL DEF Spec

=============================================================================
