------------------------------ MODULE Curation ------------------------------
(***************************************************************************)
(* The curation engine of AI-CONTEXT (tools/curation.py over               *)
(* tools/curation_legacy.py): candidates are proposed, reviewed and        *)
(* applied; an applied candidate is a row of memory/records.jsonl, which   *)
(* later commands mutate in place under an audit chain.                    *)
(*                                                                         *)
(* Every command is a process that reads the workspace, computes the new   *)
(* contents of one or more JSONL files and replaces the files one by one   *)
(* (os.replace).  A command is therefore one action that stages the new    *)
(* contents and the order of the replacements, followed by one Write per   *)
(* file.  Between two writes the process may die (Crash), and the apply    *)
(* command may fail and put the replaced files back (Rollback).  Commands  *)
(* do not overlap in this module.                                          *)
(*                                                                         *)
(* Content hashes are the hashed values themselves: two rows have the same *)
(* id, or the same sha256, exactly when the hashed fields are equal.       *)
(***************************************************************************)
EXTENDS Integers, Sequences, FiniteSets

CONSTANTS
  Types,          \* record types
  Contents,       \* record contents
  Keys,           \* semantic keys
  NoKey,          \* no semantic key, given or derived
  DerivedKey,     \* the key a content yields: [Contents -> Keys \cup {NoKey}]
  Confidences,    \* confidence values
  EpistemicStates, \* epistemic states
  Verdicts,       \* review decisions
  Resolutions,    \* conflict resolutions of a review
  Proposals,      \* the memories somebody may propose: a subset of Proposal
  Retentions,     \* retention periods a policy may set
  NoExpiry,       \* no retention period, or no expiry date
  Torn,           \* half a policy: what set-retention leaves when it dies
  Recommendations, \* what a local model may recommend
  Commands,       \* the commands issued in this instance
  MaxCandidates,  \* bound on candidates
  MaxDecisions,   \* bound on review decisions per candidate
  MaxMutations,   \* bound on mutations per memory
  MaxFaults       \* bound on crashes and failed transactions

Sensitivities == 0 .. 3            \* public, private, restricted, secret
Secret == 3
LifecycleStates == {"active", "expired", "superseded", "tombstoned"}
Expiries == Retentions \cup {NoExpiry}
SemanticKeys == Keys \cup {NoKey}

Proposal ==
  [type : Types, content : Contents, sensitivity : Sensitivities,
   confidence : Confidences, epistemic : EpistemicStates, sourced : BOOLEAN]

ASSUME ConstantsAssumption ==
  /\ Proposals \subseteq Proposal
  /\ DerivedKey \in [Contents -> SemanticKeys]
  /\ NoKey \notin Keys
  /\ NoExpiry \notin Retentions
  /\ Torn \notin Retentions \cup {NoExpiry}
  /\ EpistemicStates \subseteq {"observed", "retrieved", "parsed", "inferred", "remembered",
                             "user_asserted", "verified", "unknown"}
  /\ {"user_asserted", "verified"} \subseteq EpistemicStates
  /\ Verdicts \subseteq {"approve", "reject", "revise"}
  /\ Resolutions \subseteq {"none", "coexist", "supersede_existing", "manual_merge"}
  /\ Recommendations \subseteq {"approve", "reject", "revise", "unknown"}
  /\ MaxCandidates \in Nat /\ MaxDecisions \in Nat
  /\ MaxMutations \in Nat /\ MaxFaults \in Nat

(***************************************************************************)
(* The rows of the files.  A memory id hashes the proposal, the expiry it  *)
(* was given and the id of the first memory it supersedes: a chain of      *)
(* proposals, newest first.  previous_*_id links are the revision numbers. *)
(***************************************************************************)
MemoryId == Seq([proposal : Proposals, expires : Expiries])

Row == [id : MemoryId, state : LifecycleStates, expires : Expiries,
        confidence : Confidences, epistemic : EpistemicStates,
        verified : Nat]                    \* last_verified; 0 is null

Candidate == [proposal : Proposals, key : SemanticKeys,
              supersedes : SUBSET MemoryId,
              generator : {"deterministic", "local_llm"}]

Decision == [candidate : Candidate, revision : 1 .. MaxDecisions, verdict : Verdicts,
             resolved : SUBSET MemoryId, supersede : SUBSET MemoryId]

Conflict == [candidate : Candidate, memory : MemoryId]

Mutation == [memory : MemoryId, revision : 1 .. MaxMutations,
             kind : {"confidence_update", "verification", "supersede",
                     "tombstone", "retention_set", "expire"},
             before : Row, after : Row]

Edge == [from : MemoryId, to : MemoryId, mutation : 1 .. MaxMutations]

Tombstone == [memory : MemoryId, mutation : 1 .. MaxMutations]

Application == [candidate : Candidate, decision : 1 .. MaxDecisions, memory : MemoryId,
                written : Row,             \* memory_sha256
                key : SemanticKeys]

Suggestion == [candidate : Candidate, recommendation : Recommendations]

Disk ==
  [candidates : SUBSET Candidate, suggestions : SUBSET Suggestion,
   conflicts : SUBSET Conflict, decisions : SUBSET Decision,
   memory : SUBSET Row, mutations : SUBSET Mutation,
   supersession : SUBSET Edge, tombstones : SUBSET Tombstone,
   applications : Seq(Application)]

FileNames == {"candidates", "suggestions", "conflicts", "decisions", "memory",
              "mutations", "supersession", "tombstones", "applications"}

EmptyDisk ==
  [candidates |-> {}, suggestions |-> {}, conflicts |-> {}, decisions |-> {},
   memory |-> {}, mutations |-> {}, supersession |-> {}, tombstones |-> {},
   applications |-> <<>>]

VARIABLES
  disk,       \* the workspace's JSONL files
  retention,  \* curation/policy.json: the retention period in force
  staged,     \* volatile: the contents the running command is writing
  todo,       \* volatile: the files it has still to replace, in order
  backup,     \* volatile: the files as they were when the command began
  atomic,     \* volatile: a failure puts the replaced files back
  sweep,      \* volatile: the rows enforce-retention read, less those it is done with
  faults      \* crashes and rollbacks so far (bounded by MaxFaults)

volatile == <<staged, todo, backup, atomic>>
vars == <<disk, retention, staged, todo, backup, atomic, sweep, faults>>

Init ==
  /\ disk = EmptyDisk /\ retention = NoExpiry
  /\ staged = EmptyDisk /\ backup = EmptyDisk
  /\ todo = <<>> /\ atomic = FALSE
  /\ sweep = {} /\ faults = 0

-----------------------------------------------------------------------------
(* Processes: one action stages a command, Write replaces one file.        *)

Idle == todo = <<>> /\ sweep = {}

Stage(new, order, transactional) ==
  /\ staged' = new /\ todo' = order
  /\ backup' = disk /\ atomic' = transactional
  /\ UNCHANGED disk

Settle(files) ==
  /\ staged' = files /\ backup' = files
  /\ todo' = <<>> /\ atomic' = FALSE

Write ==
  /\ todo # <<>>
  /\ disk' = [disk EXCEPT ![Head(todo)] = staged[Head(todo)]]
  /\ IF Tail(todo) = <<>>
       THEN Settle(disk')
       ELSE todo' = Tail(todo) /\ UNCHANGED <<staged, backup, atomic>>
  /\ UNCHANGED <<retention, sweep, faults>>

Crash ==
  /\ ~ Idle
  /\ faults < MaxFaults
  /\ faults' = faults + 1
  /\ Settle(disk) /\ sweep' = {}
  /\ UNCHANGED <<disk, retention>>

\* The files of the apply transaction, in the order they are replaced.
TransactionFiles == <<"memory", "mutations", "supersession", "applications">>

\* Mutant: the replaced files are put back in the order they were replaced.
UndoInOrder(n) == [i \in 1 .. n |-> TransactionFiles[i]]

\* The first n files of the transaction, the last one first.
Undo(n) == [i \in 1 .. n |-> TransactionFiles[n + 1 - i]]

\* An os.replace of the transaction raises: the files already replaced are
\* put back.
Rollback ==
  LET done == Len(TransactionFiles) - Len(todo) IN
  /\ atomic /\ todo # <<>> /\ done >= 0
  /\ faults < MaxFaults
  /\ faults' = faults + 1
  /\ IF done = 0
       THEN Settle(disk)
       ELSE /\ todo' = Undo(done)
            /\ staged' = backup /\ atomic' = FALSE
            /\ UNCHANGED backup
  /\ UNCHANGED <<disk, retention, sweep>>

-----------------------------------------------------------------------------
(* What the commands read.                                                 *)

Ids(rows) == {r.id : r \in rows}

CandidateKey(c) ==
  IF c.key # NoKey THEN c.key ELSE DerivedKey[c.proposal.content]

\* The key of the memory's last application that has one, else the key its
\* content yields.
MemoryKey(m) ==
  LET apps == disk.applications
      keyed == {i \in DOMAIN apps : apps[i].memory = m /\ apps[i].key # NoKey}
  IN  IF keyed = {}
        THEN DerivedKey[m[1].proposal.content]
        ELSE apps[CHOOSE i \in keyed : \A j \in keyed : j <= i].key

SafeDuplicate(c, r) ==
  /\ r.id[1].proposal.content = c.proposal.content
  /\ c.proposal.sensitivity >= r.id[1].proposal.sensitivity

\* detect_conflicts
Conflicting(c) ==
  {r \in disk.memory :
     /\ CandidateKey(c) # NoKey
     /\ r.id[1].proposal.type = c.proposal.type
     /\ r.state = "active"
     /\ MemoryKey(r.id) = CandidateKey(c)
     /\ ~ SafeDuplicate(c, r)}

ConflictRows(c) == {[candidate |-> c, memory |-> r.id] : r \in Conflicting(c)}

DecisionsOf(c) == {d \in disk.decisions : d.candidate = c}

\* Mutant: an approval, once given, is the one that counts.
ApprovalStands(c) ==
  LET approvals == {d \in DecisionsOf(c) : d.verdict = "approve"}
  IN  CHOOSE d \in IF approvals = {} THEN DecisionsOf(c) ELSE approvals : TRUE

LatestDecision(c) ==
  CHOOSE d \in DecisionsOf(c) : \A e \in DecisionsOf(c) : e.revision <= d.revision

NextDecision(c) ==
  IF DecisionsOf(c) = {} THEN 1 ELSE LatestDecision(c).revision + 1

\* Mutant: any decision will do.
Reviewed(c) == DecisionsOf(c) # {}

Approved(c) == DecisionsOf(c) # {} /\ LatestDecision(c).verdict = "approve"

MutationsOf(m) == {x \in disk.mutations : x.memory = m}

LastOf(ms) == CHOOSE x \in ms : \A y \in ms : y.revision <= x.revision

NextMutation(m) ==
  IF MutationsOf(m) = {} THEN 1 ELSE LastOf(MutationsOf(m)).revision + 1

\* Mutant: the proposal is checked in place of the row as it is now.
ValidAsProposed(row) ==
  /\ row.id[1].proposal.sensitivity # Secret
  /\ row.id[1].proposal.sourced \/ row.id[1].proposal.epistemic = "user_asserted"

\* validate_memory_record: no secret, and provenance unless user-asserted.
Valid(row) ==
  /\ row.id[1].proposal.sensitivity # Secret
  /\ row.id[1].proposal.sourced \/ row.epistemic = "user_asserted"

-----------------------------------------------------------------------------
(* Candidates, suggestions and reviews.  None of them touches memory.      *)

\* create_candidate: an identical candidate is not added again; the conflicts
\* of a candidate are recorded whenever they are looked up.
WithCandidate(files, c) ==
  [files EXCEPT !.candidates = @ \cup {c}, !.conflicts = @ \cup ConflictRows(c)]

CandidateBound == Cardinality(disk.candidates) < MaxCandidates

Propose ==
  /\ "propose" \in Commands /\ Idle
  /\ \E p \in Proposals, k \in SemanticKeys, s \in SUBSET Ids(disk.memory) :
       LET c == [proposal |-> p, key |-> k, supersedes |-> s,
                 generator |-> "deterministic"]
       IN  /\ c \in disk.candidates \/ CandidateBound
           /\ Stage(WithCandidate(disk, c), <<"candidates", "conflicts">>, FALSE)
  /\ UNCHANGED <<retention, sweep, faults>>

\* A local model's answer about candidate b: a suggestion and, on request, a
\* revised candidate that inherits what b supersedes.
ImportSuggestion(b) ==
  /\ "llm-import" \in Commands /\ Idle
  /\ \E v \in Recommendations :
       LET noted == [disk EXCEPT !.suggestions =
                       @ \cup {[candidate |-> b, recommendation |-> v]}]
       IN  \/ Stage(noted, <<"suggestions">>, FALSE)
           \/ \E p \in Proposals, k \in SemanticKeys :
                LET c == [proposal |-> p, key |-> k, supersedes |-> b.supersedes,
                          generator |-> "local_llm"]
                IN  /\ c \notin disk.candidates /\ CandidateBound
                    /\ Stage(WithCandidate(noted, c),
                             <<"suggestions", "candidates", "conflicts">>, FALSE)
  /\ UNCHANGED <<retention, sweep, faults>>

\* cmd_conflicts; also all that a refused review or a refused apply leaves behind.
RecordConflicts(c) ==
  /\ Idle
  /\ Stage([disk EXCEPT !.conflicts = @ \cup ConflictRows(c)], <<"conflicts">>, FALSE)
  /\ UNCHANGED <<retention, sweep, faults>>

Review(c) ==
  /\ "review" \in Commands /\ Idle
  /\ NextDecision(c) <= MaxDecisions
  /\ \E v \in Verdicts, how \in Resolutions, named \in SUBSET Ids(disk.memory) :
       LET conflicts == Ids(Conflicting(c))
           d == [candidate |-> c, revision |-> NextDecision(c), verdict |-> v,
                 resolved |-> IF how = "none" THEN {} ELSE conflicts,
                 supersede |-> IF how = "supersede_existing"
                                 THEN named \cup conflicts ELSE named]
       IN  /\ ~ (v = "approve" /\ conflicts # {} /\ how = "none")
           /\ Stage([disk EXCEPT !.conflicts = @ \cup ConflictRows(c),
                                 !.decisions = @ \cup {d}],
                    <<"conflicts", "decisions">>, FALSE)
  /\ UNCHANGED <<retention, sweep, faults>>

-----------------------------------------------------------------------------
(* Mutations of canonical memory.                                          *)

\* Mutant: a mutation is recorded under the revision of the last one.
MutationOverwritten(r, kind, after) ==
  [memory |-> r.id, kind |-> kind, before |-> r, after |-> after,
   revision |-> IF MutationsOf(r.id) = {} THEN 1 ELSE NextMutation(r.id) - 1]

\* A row that already is as the mutation would leave it, by a mutation of the
\* same kind, is not mutated again.
MutationFor(r, kind, after) ==
  LET same == {x \in MutationsOf(r.id) : x.kind = kind /\ x.after = r}
  IN  IF after = r /\ same # {}
        THEN LastOf(same)
        ELSE [memory |-> r.id, revision |-> NextMutation(r.id), kind |-> kind,
              before |-> r, after |-> after]

MutationBound(r) == NextMutation(r.id) <= MaxMutations

\* append_mutation, in a command that then adds a receipt to one more file.
AppendMutation(r, kind, after, receipts, receiptFile) ==
  /\ MutationBound(r)
  /\ Valid(after)
  /\ Stage([receipts EXCEPT !.memory = (@ \ {r}) \cup {after},
                            !.mutations = @ \cup {MutationFor(r, kind, after)}],
           <<"memory", "mutations">> \o receiptFile, FALSE)

Confidence(r) ==
  /\ "confidence" \in Commands /\ Idle
  /\ \E x \in Confidences, e \in EpistemicStates :
       AppendMutation(r, "confidence_update",
                      [r EXCEPT !.confidence = x, !.epistemic = e], disk, <<>>)
  /\ UNCHANGED <<retention, sweep, faults>>

\* last_verified is the current second: the one already recorded, or a later one.
Verify(r) ==
  /\ "verify" \in Commands /\ Idle
  /\ \E x \in Confidences, t \in {r.verified, r.verified + 1} \ {0} :
       AppendMutation(r, "verification",
                      [r EXCEPT !.confidence = x, !.epistemic = "verified", !.verified = t],
                      disk, <<>>)
  /\ UNCHANGED <<retention, sweep, faults>>

Superseded(r) == [r EXCEPT !.state = "superseded"]

Supersede(old, new) ==
  LET x == MutationFor(old, "supersede", Superseded(old)) IN
  /\ "supersede" \in Commands /\ Idle
  /\ old # new
  /\ AppendMutation(old, "supersede", Superseded(old),
       [disk EXCEPT !.supersession =
          @ \cup {[from |-> old.id, to |-> new.id, mutation |-> x.revision]}],
       <<"supersession">>)
  /\ UNCHANGED <<retention, sweep, faults>>

Tombstoned(r) == [r EXCEPT !.state = "tombstoned"]

TombstoneMemory(r) ==
  LET x == MutationFor(r, "tombstone", Tombstoned(r)) IN
  /\ "tombstone" \in Commands /\ Idle
  /\ ~ (r.state = "tombstoned" /\ \E t \in disk.tombstones : t.memory = r.id)
  /\ AppendMutation(r, "tombstone", Tombstoned(r),
       [disk EXCEPT !.tombstones = @ \cup {[memory |-> r.id, mutation |-> x.revision]}],
       <<"tombstones">>)
  /\ UNCHANGED <<retention, sweep, faults>>

-----------------------------------------------------------------------------
(* Retention.                                                              *)

\* The policy is written in place, so a process that dies in between leaves half
\* of it.  Every command that reads the policy, this one included, then refuses:
\* none mends it.
SetRetention ==
  /\ "retention-policy" \in Commands /\ Idle
  /\ retention # Torn
  /\ retention' \in Expiries \cup {Torn}
  /\ UNCHANGED <<disk, volatile, sweep, faults>>

\* Mutant: rows that expire later are not looked at.
SweptUndated == {r \in disk.memory : r.state = "active" /\ r.expires = retention}

\* The rows cmd_enforce_retention visits.
Swept == {r \in disk.memory : r.state = "active"}

\* The mutations a visit may add: two to a row that is given a date first.
SweepBound(r) ==
  /\ MutationBound(r)
  /\ r.expires = NoExpiry /\ retention \in Retentions => NextMutation(r.id) < MaxMutations

EnforceRetention ==
  /\ "enforce-retention" \in Commands /\ Idle
  /\ retention # Torn
  /\ sweep' = Swept
  /\ \A r \in Swept : SweepBound(r)
  /\ UNCHANGED <<disk, retention, volatile, faults>>

Dated(r) == [r EXCEPT !.expires = retention]

\* The row the loop is at, once it has been given a date: the row as it was read
\* is no longer the one on disk.  The loop goes on when it is done with that row.
Underway == sweep \ disk.memory

AtRow(r) == todo = <<>> /\ Underway \subseteq {r}

\* A row without an expiry date gets one from the policy.
AssignExpiry(r) ==
  /\ AtRow(r) /\ r \notin Underway
  /\ r.expires = NoExpiry /\ retention \in Retentions
  /\ AppendMutation(r, "retention_set", Dated(r), disk, <<>>)
  /\ UNCHANGED <<retention, sweep, faults>>

\* The row has a date, given just now or before, and it has passed.  (Which dates
\* have passed is left open.)
Expire(r) ==
  /\ AtRow(r)
  /\ \E current \in disk.memory :
       /\ current.id = r.id /\ current.expires # NoExpiry
       /\ AppendMutation(current, "expire", [current EXCEPT !.state = "expired"], disk, <<>>)
  /\ sweep' = sweep \ {r}
  /\ UNCHANGED <<retention, faults>>

Keep(r) ==
  /\ AtRow(r)
  /\ \E current \in disk.memory :
       current.id = r.id /\ (current.expires # NoExpiry \/ retention \notin Retentions)
  /\ sweep' = sweep \ {r}
  /\ UNCHANGED <<disk, retention, volatile, faults>>

-----------------------------------------------------------------------------
(* cmd_apply                                                               *)

Targets(c, d) == c.supersedes \cup d.supersede

\* Which of several superseded ids sorts first is fixed by their hashes.
Identity(c, targets) ==
  <<[proposal |-> c.proposal, expires |-> retention]>> \o
  (IF targets = {} THEN <<>> ELSE CHOOSE t \in targets : TRUE)

\* The row apply would write; last_verified comes from the row it has already.
Proposed(c, id) ==
  LET known == {r \in disk.memory : r.id = id}
  IN  [id |-> id, state |-> "active", expires |-> retention,
       confidence |-> c.proposal.confidence, epistemic |-> c.proposal.epistemic,
       verified |-> IF known = {} THEN 0 ELSE (CHOOSE r \in known : TRUE).verified]

\* Mutant: no receipt is looked up before applying.
NeverApplied(c, d) == FALSE

AlreadyApplied(c, d) ==
  \E i \in DOMAIN disk.applications :
    /\ disk.applications[i].candidate = c
    /\ disk.applications[i].decision = d.revision

\* Mutant: conflicts are settled at review time.
SettledAtReview(c, d) == TRUE

ConflictsCovered(c, d) == Ids(Conflicting(c)) \subseteq d.resolved

\* Mutant: the row before the mutation is read after it.
SupersedeMutationLate(r) ==
  [memory |-> r.id, revision |-> NextMutation(r.id), kind |-> "supersede",
   before |-> Superseded(r), after |-> Superseded(r)]

\* The mutation of _plan_supersession.
SupersedeMutation(r) ==
  [memory |-> r.id, revision |-> NextMutation(r.id), kind |-> "supersede",
   before |-> r, after |-> Superseded(r)]

\* Mutant: a row that differs from the stored one is no obstacle.
NeverCollides(row) == FALSE

\* _merge_unique: "id collision with different payload".
Collides(row) == \E r \in disk.memory : r.id = row.id /\ r # row

Apply(c) ==
  LET d == LatestDecision(c)
      targets == Targets(c, d)
      id == Identity(c, targets)
      row == Proposed(c, id)
      retired == {r \in disk.memory : r.id \in targets}
      application == [candidate |-> c, decision |-> d.revision, memory |-> id,
                      written |-> row, key |-> CandidateKey(c)]
  IN
  /\ "apply" \in Commands /\ Idle
  /\ Approved(c)
  /\ ~ AlreadyApplied(c, d)
  /\ ConflictsCovered(c, d)
  /\ retention # Torn                      \* load_curation_policy refuses it
  /\ Valid(row)
  /\ targets \subseteq Ids(disk.memory) /\ id \notin targets
  /\ ~ Collides(row)
  /\ \A r \in retired : MutationBound(r)
  /\ Stage([disk EXCEPT
              !.conflicts = @ \cup ConflictRows(c),
              !.memory = ((@ \cup {row}) \ retired) \cup {Superseded(r) : r \in retired},
              !.mutations = @ \cup {SupersedeMutation(r) : r \in retired},
              !.supersession = @ \cup
                {[from |-> r.id, to |-> id, mutation |-> NextMutation(r.id)] : r \in retired},
              !.applications = Append(@, application)],
           <<"conflicts">> \o TransactionFiles, TRUE)
  /\ UNCHANGED <<retention, sweep, faults>>

Sweep == \E r \in sweep : AssignExpiry(r) \/ Expire(r) \/ Keep(r)

Next ==
  \/ Write \/ Crash \/ Rollback
  \/ Propose \/ SetRetention \/ EnforceRetention
  \/ \E c \in disk.candidates :
       ImportSuggestion(c) \/ RecordConflicts(c) \/ Review(c) \/ Apply(c)
  \/ \E r \in disk.memory : Confidence(r) \/ Verify(r) \/ TombstoneMemory(r)
  \/ \E old, new \in disk.memory : Supersede(old, new)
  \/ Sweep

Spec == Init /\ [][Next]_vars

-----------------------------------------------------------------------------
(* Properties.                                                             *)

\* Every file holds rows of its own kind; so do the copies a command stages.
TypeOK ==
  /\ disk \in Disk /\ staged \in Disk /\ backup \in Disk
  /\ retention \in Expiries \cup {Torn}
  /\ todo \in Seq(FileNames)
  /\ atomic \in BOOLEAN
  /\ sweep \subseteq Row
  /\ faults \in 0 .. MaxFaults

\* Every row of canonical memory holds what a candidate proposed that a reviewer
\* approved, whatever crashed or was rolled back on the way (cmd_apply's gate).
Authority ==
  \A r \in disk.memory : \E d \in disk.decisions :
    /\ d.verdict = "approve"
    /\ d.candidate \in disk.candidates
    /\ d.candidate.proposal = r.id[1].proposal

\* A memory that was not there appears only while the last word on a candidate
\* that proposes it is an approval: a later reject or revise revokes an earlier
\* approve (cmd_apply reads the latest decision).
RevocationRespected ==
  [][\A r \in disk'.memory :
       r.id \in Ids(disk.memory) \/
       \E d \in disk.decisions :
         /\ d.verdict = "approve" /\ d.candidate.proposal = r.id[1].proposal
         /\ \A e \in DecisionsOf(d.candidate) : e.revision <= d.revision]_vars

\* No row is secret, and a row without sources is a user's assertion: what
\* validate_memory_record checks when a row is written holds of every row after
\* any sequence of mutations.
ProvenanceKept ==
  \A r \in disk.memory :
    /\ r.id[1].proposal.sensitivity # Secret
    /\ r.id[1].proposal.sourced \/ r.epistemic = "user_asserted"

Applications == {disk.applications[i] : i \in DOMAIN disk.applications}

\* The memories a reviewer saw as conflicts when allowing application a.
ResolvedBy(a) ==
  UNION {d.resolved : d \in {e \in DecisionsOf(a.candidate) : e.revision = a.decision}}

\* Two active memories that answer the same semantic key differently are there
\* together only because a decision that led to one of them resolved its
\* conflict with the other: no sequence of reviews, applications, local-model
\* revisions and supersessions lets a contradiction in unseen (detect_conflicts
\* is run again by cmd_apply).
ConflictsResolved ==
  \A r, s \in disk.memory :
    /\ r.state = "active" /\ s.state = "active"
    /\ r.id[1].proposal.type = s.id[1].proposal.type
    /\ r.id[1].proposal.content # s.id[1].proposal.content
    /\ MemoryKey(r.id) = MemoryKey(s.id) /\ MemoryKey(r.id) # NoKey
    /\ \E a \in Applications : a.memory = r.id
    /\ \E a \in Applications : a.memory = s.id
    => \E a \in Applications :
         \/ a.memory = r.id /\ s.id \in ResolvedBy(a)
         \/ a.memory = s.id /\ r.id \in ResolvedBy(a)

\* A review decision is carried out at most once, however often apply is run,
\* crashes or fails (cmd_apply looks for a prior receipt).
OneApplicationPerDecision ==
  \A i, j \in DOMAIN disk.applications :
    /\ disk.applications[i].candidate = disk.applications[j].candidate
    /\ disk.applications[i].decision = disk.applications[j].decision
    => i = j

\* No receipt is ever on disk before the thing it is a receipt for, at any
\* point of a command, after a crash there, or during a rollback: the order in
\* which the files are replaced (and put back) keeps every reference resolvable.
ReceiptsNeverDangle ==
  LET memories == Ids(disk.memory) IN
  /\ \A x \in disk.conflicts : x.candidate \in disk.candidates /\ x.memory \in memories
  /\ \A d \in disk.decisions :
       /\ d.candidate \in disk.candidates
       /\ \A m \in d.resolved : [candidate |-> d.candidate, memory |-> m] \in disk.conflicts
  /\ \A x \in disk.mutations : x.memory \in memories
  /\ \A e \in disk.supersession :
       /\ e.to \in memories
       /\ \E x \in MutationsOf(e.from) : x.revision = e.mutation /\ x.kind = "supersede"
  /\ \A t \in disk.tombstones :
       \E x \in MutationsOf(t.memory) : x.revision = t.mutation /\ x.kind = "tombstone"
  /\ \A a \in Applications :
       /\ a.memory \in memories
       /\ \E d \in DecisionsOf(a.candidate) : d.revision = a.decision /\ d.verdict = "approve"
  /\ \A g \in disk.suggestions : g.candidate \in disk.candidates

RollingBack == todo # <<>> /\ ~ atomic /\ staged = backup

\* A superseded, expired or tombstoned memory never becomes active again,
\* except that a failed apply puts back the rows it had superseded itself.
NoResurrection ==
  [][~ RollingBack =>
       \A r \in disk.memory, s \in disk'.memory :
         r.id = s.id /\ s.state = "active" => r.state = "active"]_vars

\* A retention sweep that runs to its end leaves no active row without an expiry
\* date when the policy sets a period (cmd_enforce_retention).
SweepDatesEveryRow ==
  [][sweep # {} /\ sweep' = {} /\ faults' = faults /\ retention \in Retentions =>
       \A r \in disk'.memory : r.state = "active" => r.expires # NoExpiry]_vars

\* The state of a memory before its first mutation.
InitialRow(r) ==
  LET ms == MutationsOf(r.id)
  IN  IF ms = {} THEN r ELSE (CHOOSE x \in ms : \A y \in ms : x.revision <= y.revision).before

\* What validate_curation checks of a workspace at rest: decisions and mutations
\* are numbered without gaps, each mutation starts from the row the one before
\* it left, the last one left the row that is there, the first one started from
\* the row an application wrote.
AuditIntact ==
  todo = <<>> =>
    /\ \A c \in disk.candidates :
         {d.revision : d \in DecisionsOf(c)} = 1 .. Cardinality(DecisionsOf(c))
    /\ \A r \in disk.memory :
         LET ms == MutationsOf(r.id) IN
         /\ {x.revision : x \in ms} = 1 .. Cardinality(ms)
         /\ \A x, y \in ms : y.revision = x.revision + 1 => y.before = x.after
         /\ ms = {} \/ LastOf(ms).after = r
         /\ \E a \in Applications : a.memory = r.id /\ a.written = InitialRow(r)

\* routing._validated_application_rows: the checks of one application, the hash of
\* the memory last (the mutation chain it starts with is in AuditIntact).
ValidatedApplication(a) ==
  /\ a.candidate \in disk.candidates
  /\ \E d \in DecisionsOf(a.candidate) : d.revision = a.decision /\ d.verdict = "approve"
  /\ \E r \in disk.memory : r.id = a.memory /\ a.written = InitialRow(r)

\* The router takes every application of a workspace at rest as valid, so that
\* every workspace validate_curation accepts can still be routed.
RouterAccepts == todo = <<>> => \A a \in Applications : ValidatedApplication(a)

=============================================================================
