------------------------------ MODULE Storage ------------------------------
(***************************************************************************)
(* The encrypted directory store of AI-CONTEXT (tools/storage.py over      *)
(* tools/storage_legacy.py): encrypted objects, one per logical path; a    *)
(* manifest that names the active key; a pending journal and a receipt for *)
(* every deletion; a journal for a key rotation.                           *)
(*                                                                         *)
(* A process runs one command at a time and takes one step per file it     *)
(* replaces or removes, and one for the reads and checks before it.  It    *)
(* may die between any two steps.  With Overlap several processes work on  *)
(* one store at once; without it a command starts when the others ended.   *)
(*                                                                         *)
(* Encryption is abstract: an object carries its key, and decryption with  *)
(* another key fails.  The id of an object hashes a fresh nonce, so every  *)
(* encryption has an id of its own.                                        *)
(***************************************************************************)
EXTENDS Integers, FiniteSets

CONSTANTS
  Procs,       \* processes
  Paths,       \* logical paths
  Data,        \* contents of objects
  Keys,        \* key files: a key and its id
  NoKey,       \* not a key: the key has not been replaced
  NoObject,    \* no file at a path
  NoReceipt,   \* no pending deletion at a path
  NoRotation,  \* no rotation journal
  Commands,    \* the commands issued in this instance
  Overlap,     \* commands of different processes run at the same time
  MaxObjects,  \* bound on encryptions
  MaxFaults    \* bound on crashes

Ids == 1 .. MaxObjects
Envelope == [id : Ids, key : Keys, data : Data]
Receipt == [path : Paths, object : Ids, key : Keys]
Rotation == [from : Keys, to : Keys, paths : SUBSET Paths]

\* key_history: the active key, and the key that replaced each retired one.
Manifest == [active : Keys, replacedBy : [Keys -> Keys \cup {NoKey}]]

ASSUME ConstantsAssumption ==
  /\ NoKey \notin Keys /\ NoObject \notin Envelope \cup Data
  /\ NoReceipt \notin Receipt /\ NoRotation \notin Rotation
  /\ Overlap \in BOOLEAN /\ MaxObjects \in Nat /\ MaxFaults \in Nat

VARIABLES
  manifest,   \* manifest.json
  objects,    \* objects/: the envelope at each path
  rotation,   \* rotation.json
  pending,    \* receipts/pending-deletions/: the receipt at each path
  deletions,  \* receipts/deletions.jsonl
  attested,   \* receipts/key-events.jsonl: keys said to be destroyed
  op,         \* volatile: the command each process runs, and what it has read
  made,       \* encryptions so far (bounded by MaxObjects)
  removed,    \* receipts of the objects unlinked so far (observation only)
  faults      \* crashes so far (bounded by MaxFaults)

disk == <<manifest, objects, rotation, pending, deletions, attested>>
counters == <<made, removed, faults>>
vars == <<disk, op, counters>>

(***************************************************************************)
(* What a process holds at each step of put, delete and rotate.            *)
(***************************************************************************)
Idle == [at |-> "idle"]

Putting ==
  [at : {"seal"}, path : Paths, data : Data, key : Keys] \cup
  [at : {"put"}, path : Paths, object : Envelope]

DeletionSteps == {"check", "unlink", "log", "clear"}

Deleting ==
  [at : {"journal"}, path : Paths, key : Keys] \cup
  [at : DeletionSteps, path : Paths, receipt : Receipt] \cup
  [at : {"append"}, path : Paths, receipt : Receipt, log : SUBSET Receipt]

Rotating ==
  [at : {"begin"}, journal : Rotation] \cup
  [at : {"resume"}, from : Keys, to : Keys] \cup
  [at : {"finish"}] \cup
  [at : {"rotate", "cleanup"}, journal : Rotation, read : Manifest, todo : SUBSET Paths] \cup
  [at : {"rewrite"}, journal : Rotation, read : Manifest, todo : SUBSET Paths,
   path : Paths, object : Envelope]

Operation == {Idle} \cup Putting \cup Deleting \cup Rotating

Init ==
  /\ \E k \in Keys :
       manifest = [active |-> k, replacedBy |-> [j \in Keys |-> NoKey]]
  /\ objects = [x \in Paths |-> NoObject]
  /\ rotation = NoRotation
  /\ pending = [x \in Paths |-> NoReceipt]
  /\ deletions = {} /\ attested = {}
  /\ op = [p \in Procs |-> Idle]
  /\ made = 0 /\ removed = {} /\ faults = 0

-----------------------------------------------------------------------------
(* Processes.                                                              *)

Goto(p, step) == op' = [op EXCEPT ![p] = step]

AllIdle == \A q \in Procs : op[q] = Idle

Starts(p, command) ==
  command \in Commands /\ op[p] = Idle /\ (Overlap \/ AllIdle)

\* A StorageError: the command ends, what it wrote stays.
Fail(p) == Goto(p, Idle) /\ UNCHANGED <<disk, counters>>

Crash(p) ==
  /\ op[p] # Idle
  /\ faults < MaxFaults
  /\ faults' = faults + 1
  /\ Goto(p, Idle)
  /\ UNCHANGED <<disk, made, removed>>

\* Mutant: the rotation journal is not looked at again.
KeyIsActive(k) == k = manifest.active

\* _refresh_live_state
Refreshed(k) == rotation = NoRotation /\ k = manifest.active

\* Mutant: a pending deletion is no obstacle.
NeverPending(x) == FALSE

\* _assert_no_pending_for
PendingFor(x) == pending[x] # NoReceipt

\* _decrypt_envelope succeeds.
Decrypts(x, k) == objects[x] # NoObject /\ objects[x].key = k

Encrypted(k, d) == [id |-> made + 1, key |-> k, data |-> d]

CanEncrypt == made < MaxObjects /\ made' = made + 1

\* A command starts only when the bound leaves room for what it may encrypt,
\* interruptions included.
RoomFor(n) == made + n + (MaxFaults - faults) <= MaxObjects

-----------------------------------------------------------------------------
(* put_bytes                                                               *)

OpenPut(p, x, d, k) ==
  /\ Starts(p, "put") /\ Refreshed(k) /\ RoomFor(1)
  /\ Goto(p, [at |-> "seal", path |-> x, data |-> d, key |-> k])
  /\ UNCHANGED <<disk, counters>>

SealPut(p) ==
  LET o == op[p] IN
  /\ o.at = "seal"
  /\ \/ PendingFor(o.path) /\ Fail(p)
     \/ /\ ~ PendingFor(o.path) /\ CanEncrypt
        /\ Goto(p, [at |-> "put", path |-> o.path, object |-> Encrypted(o.key, o.data)])
        /\ UNCHANGED <<disk, removed, faults>>

WritePut(p) ==
  LET o == op[p] IN
  /\ o.at = "put"
  /\ objects' = [objects EXCEPT ![o.path] = o.object]
  /\ Goto(p, Idle)
  /\ UNCHANGED <<manifest, rotation, pending, deletions, attested, counters>>

-----------------------------------------------------------------------------
(* delete: journal, unlink the object, append the receipt, drop the journal *)

OpenDelete(p, x, k) ==
  /\ Starts(p, "delete") /\ Refreshed(k)
  /\ Goto(p, [at |-> "journal", path |-> x, key |-> k])
  /\ UNCHANGED <<disk, counters>>

ReceiptFor(x) == [path |-> x, object |-> objects[x].id, key |-> objects[x].key]

\* A pending deletion is taken up again; else the object is read, decrypted
\* and journalled.
JournalDelete(p) ==
  LET o == op[p]
      x == o.path
      begin(r) == Goto(p, [at |-> "check", path |-> x, receipt |-> r])
  IN
  /\ o.at = "journal"
  /\ \/ /\ pending[x] # NoReceipt
        /\ begin(pending[x])
        /\ UNCHANGED <<disk, counters>>
     \/ /\ pending[x] = NoReceipt
        /\ Decrypts(x, o.key)
        /\ pending' = [pending EXCEPT ![x] = ReceiptFor(x)]
        /\ begin(ReceiptFor(x))
        /\ UNCHANGED <<manifest, objects, rotation, deletions, attested, counters>>
     \/ /\ pending[x] = NoReceipt
        /\ ~ Decrypts(x, o.key)
        /\ Fail(p)

\* Mutant: the receipt comes before the removal it is for.
ReceiptFirst == [check |-> "log", append |-> "unlink", unlink |-> "clear"]

\* Mutant: the journal is dropped without a receipt.
ReceiptForgotten == [check |-> "unlink", unlink |-> "clear", append |-> "clear"]

\* The step that follows the check, the removal and the receipt.
DeletionOrder == [check |-> "unlink", unlink |-> "log", append |-> "clear"]

\* Mutant: an object that is gone is no reason to go on to its receipt.
NeverUnlinked(x) == FALSE

Unlinked(x) == objects[x] = NoObject

CheckDelete(p) ==
  LET o == op[p]
      intact == objects[o.path] # NoObject /\ objects[o.path].id = o.receipt.object
  IN
  /\ o.at = "check"
  /\ \/ /\ Unlinked(o.path)
        /\ Goto(p, [o EXCEPT !.at = "log"])
        /\ UNCHANGED <<disk, counters>>
     \/ /\ intact
        /\ Goto(p, [o EXCEPT !.at = DeletionOrder.check])
        /\ UNCHANGED <<disk, counters>>
     \/ /\ ~ Unlinked(o.path) /\ ~ intact
        /\ Fail(p)

Unlink(p) ==
  LET o == op[p] IN
  /\ o.at = "unlink"
  /\ \/ objects[o.path] = NoObject /\ Fail(p)
     \/ /\ objects[o.path] # NoObject
        /\ objects' = [objects EXCEPT ![o.path] = NoObject]
        /\ removed' = removed \cup {ReceiptFor(o.path)}
        /\ Goto(p, [o EXCEPT !.at = DeletionOrder.unlink])
        /\ UNCHANGED <<manifest, rotation, pending, deletions, attested, made, faults>>

ReadLog(p) ==
  LET o == op[p] IN
  /\ o.at = "log"
  /\ Goto(p, [at |-> "append", path |-> o.path, receipt |-> o.receipt, log |-> deletions])
  /\ UNCHANGED <<disk, counters>>

\* append_jsonl_unique: the file is replaced by what was read and the receipt.
AppendReceipt(p) ==
  LET o == op[p] IN
  /\ o.at = "append"
  /\ deletions' = IF o.receipt \in o.log THEN deletions ELSE o.log \cup {o.receipt}
  /\ Goto(p, [at |-> DeletionOrder.append, path |-> o.path, receipt |-> o.receipt])
  /\ UNCHANGED <<manifest, objects, rotation, pending, attested, counters>>

ClearPending(p) ==
  LET o == op[p] IN
  /\ o.at = "clear"
  /\ pending' = [pending EXCEPT ![o.path] = NoReceipt]
  /\ Goto(p, Idle)
  /\ UNCHANGED <<manifest, objects, rotation, deletions, attested, counters>>

-----------------------------------------------------------------------------
(* begin_rotation and resume_rotation                                      *)

Retired(m) == {k \in Keys : m.replacedBy[k] # NoKey}
KeyHistory(m) == {m.active} \cup Retired(m)

Present == {x \in Paths : objects[x] # NoObject}

BeginRotation(p, new) ==
  /\ Starts(p, "rotate-key")
  /\ rotation = NoRotation
  /\ new \notin KeyHistory(manifest)
  /\ RoomFor(Cardinality(Present))
  /\ Goto(p, [at |-> "begin",
              journal |-> [from |-> manifest.active, to |-> new, paths |-> Present]])
  /\ UNCHANGED <<disk, counters>>

WriteJournal(p) ==
  LET j == op[p].journal IN
  /\ op[p].at = "begin"
  /\ rotation' = j
  /\ Goto(p, [at |-> "resume", from |-> j.from, to |-> j.to])
  /\ UNCHANGED <<manifest, objects, pending, deletions, attested, counters>>

ResumeRotation(p) ==
  /\ Starts(p, "rotate-key")
  /\ rotation # NoRotation
  /\ Goto(p, [at |-> "resume", from |-> rotation.from, to |-> rotation.to])
  /\ UNCHANGED <<disk, counters>>

\* Mutant: a rotation whose manifest is already written is not recognised.
NeverCommitted(m, to) == FALSE

Committed(m, to) == m.active = to

\* The journal and the manifest are read; a rotation that only has its journal
\* left to remove is told from one that has objects to re-encrypt.
LoadRotation(p) ==
  LET o == op[p]
      proceed(step) ==
        /\ Goto(p, [at |-> step, journal |-> rotation, read |-> manifest,
                    todo |-> rotation.paths])
        /\ UNCHANGED <<disk, counters>>
      matches == rotation # NoRotation /\ rotation.from = o.from /\ rotation.to = o.to
      fresh == manifest.active = o.from /\ o.to \notin KeyHistory(manifest)
  IN
  /\ o.at = "resume"
  /\ \/ matches /\ Committed(manifest, o.to) /\ proceed("cleanup")
     \/ matches /\ ~ Committed(manifest, o.to) /\ fresh /\ proceed("rotate")
     \/ ~ (matches /\ (Committed(manifest, o.to) \/ fresh)) /\ Fail(p)

\* The next object of the journal is read: skipped, or re-encrypted.
ReadObject(p, x) ==
  LET o == op[p]
      j == o.journal
  IN
  /\ o.at = "rotate" /\ x \in o.todo
  /\ \/ /\ Decrypts(x, j.to)
        /\ Goto(p, [o EXCEPT !.todo = @ \ {x}])
        /\ UNCHANGED <<disk, counters>>
     \/ /\ ~ Decrypts(x, j.to) /\ Decrypts(x, j.from)
        /\ CanEncrypt
        /\ Goto(p, [at |-> "rewrite", journal |-> j, read |-> o.read, todo |-> o.todo,
                    path |-> x, object |-> Encrypted(j.to, objects[x].data)])
        /\ UNCHANGED <<disk, removed, faults>>
     \/ /\ ~ Decrypts(x, j.to) /\ ~ Decrypts(x, j.from)
        /\ Fail(p)

RewriteObject(p) ==
  LET o == op[p] IN
  /\ o.at = "rewrite"
  /\ objects' = [objects EXCEPT ![o.path] = o.object]
  /\ Goto(p, [at |-> "rotate", journal |-> o.journal, read |-> o.read,
              todo |-> o.todo \ {o.path}])
  /\ UNCHANGED <<manifest, rotation, pending, deletions, attested, counters>>

CommitManifest(p) ==
  LET o == op[p]
      j == o.journal
  IN
  /\ o.at = "rotate" /\ o.todo = {}
  /\ manifest' = [active |-> j.to,
                  replacedBy |-> [o.read.replacedBy EXCEPT ![j.from] = j.to]]
  /\ Goto(p, [at |-> "finish"])
  /\ UNCHANGED <<objects, rotation, pending, deletions, attested, counters>>

\* _rotation_cleanup_committed
CheckCommitted(p) ==
  LET o == op[p]
      j == o.journal
      sound == /\ o.read.replacedBy[j.from] = j.to
               /\ \A x \in j.paths : Decrypts(x, j.to)
  IN
  /\ o.at = "cleanup"
  /\ \/ /\ sound /\ Goto(p, [at |-> "finish"])
        /\ UNCHANGED <<disk, counters>>
     \/ ~ sound /\ Fail(p)

RemoveJournal(p) ==
  /\ op[p].at = "finish"
  /\ rotation' = NoRotation
  /\ Goto(p, Idle)
  /\ UNCHANGED <<manifest, objects, pending, deletions, attested, counters>>

\* Mutant: any key of the store may be said to be destroyed.
KnownKey(k) == k \in KeyHistory(manifest)

Destroyable(k) == k \in Retired(manifest)

\* attest_key_destruction
AttestKeyDestruction(p, k) ==
  /\ Starts(p, "attest-key-destruction")
  /\ Destroyable(k)
  /\ attested' = attested \cup {k}
  /\ UNCHANGED <<manifest, objects, rotation, pending, deletions, op, counters>>

-----------------------------------------------------------------------------
Step(p) ==
  \/ SealPut(p) \/ WritePut(p)
  \/ JournalDelete(p) \/ CheckDelete(p) \/ Unlink(p)
  \/ ReadLog(p) \/ AppendReceipt(p) \/ ClearPending(p)
  \/ WriteJournal(p) \/ LoadRotation(p) \/ (\E x \in Paths : ReadObject(p, x))
  \/ RewriteObject(p) \/ CommitManifest(p) \/ CheckCommitted(p) \/ RemoveJournal(p)

Next == \E p \in Procs :
  \/ Step(p) \/ Crash(p) \/ ResumeRotation(p)
  \/ \E k \in Keys :
       \/ BeginRotation(p, k) \/ AttestKeyDestruction(p, k)
       \/ \E x \in Paths : OpenDelete(p, x, k) \/ \E d \in Data : OpenPut(p, x, d, k)

Spec == Init /\ [][Next]_vars

\* A command that runs is not suspended for ever, and the user who is told to
\* repeat a delete or to resume a rotation does so time and again.
FairSpec ==
  /\ Spec
  /\ \A p \in Procs : WF_vars(Step(p))
  /\ SF_vars(\E p \in Procs : ResumeRotation(p))
  /\ \A x \in Paths :
       SF_vars(pending[x] # NoReceipt /\ \E p \in Procs, k \in Keys : OpenDelete(p, x, k))

-----------------------------------------------------------------------------
(* Properties.                                                             *)

\* The files and what the processes hold are of their kinds.
TypeOK ==
  /\ manifest \in Manifest
  /\ objects \in [Paths -> Envelope \cup {NoObject}]
  /\ rotation \in Rotation \cup {NoRotation}
  /\ pending \in [Paths -> Receipt \cup {NoReceipt}]
  /\ deletions \subseteq Receipt /\ attested \subseteq Keys
  /\ op \in [Procs -> Operation]
  /\ made \in 0 .. MaxObjects /\ removed \subseteq Receipt /\ faults \in 0 .. MaxFaults

\* validate_store succeeds on every store at rest that has no journal, whatever
\* was interrupted and resumed before: every object is under the active key and
\* keys attested as destroyed are retired.
StoreValidates ==
  AllIdle /\ rotation = NoRotation /\ (\A x \in Paths : pending[x] = NoReceipt) =>
    /\ \A x \in Present : objects[x].key = manifest.active
    /\ attested \subseteq Retired(manifest)

\* A receipt in deletions.jsonl never coexists with the object it is for, however
\* put, delete and rotate overlap and wherever they crash: what
\* validate_deletion_receipts refuses.  docs/STORAGE.md:195 has it the other way
\* round, the receipt "before removing the primary ciphertext object": in the code
\* only the pending journal, which embeds the receipt, comes before the removal
\* (RemovalRecorded), and under the documented order a crash between the two
\* would leave a store that does not validate.
ReceiptMeansGone ==
  \A r \in deletions : objects[r.path] # NoObject => objects[r.path].id # r.object

\* An object that was removed has its receipt, at least in the pending journal,
\* at every point of the deletion and after a crash there: what is left of the
\* documented order, in which the receipt comes first.
RemovalRecorded ==
  \A r \in removed : r \in deletions \/ pending[r.path] = r

\* A key whose destruction has been attested is needed for no object.
DestroyedKeysUnused == \A x \in Present : objects[x].key \notin attested

\* The object a pending deletion is for has been given another id.
Displaced(x) ==
  /\ pending[x] # NoReceipt /\ objects[x] # NoObject
  /\ objects[x].id # pending[x].object

\* "repeat delete to resume it": the object a pending deletion is for is still
\* the one at its path, or already gone.
PendingResumable == \A x \in Paths : ~ Displaced(x)

\* An interrupted rotation is completed by resuming it.
RotationCompletes == rotation # NoRotation ~> rotation = NoRotation

\* An interrupted deletion is completed by repeating it, unless a rotation has
\* given its object another id (PendingResumable is about that case).
DeletionCompletes ==
  \A x \in Paths :
    pending[x] # NoReceipt ~>
      pending[x] = NoReceipt \/ Displaced(x)

\* The store implements the map it promises; NoObject is its Absent.
Promise == INSTANCE ObjectStore WITH
  contents <- [x \in Paths |-> IF objects[x] = NoObject THEN NoObject ELSE objects[x].data],
  doomed <- {x \in Paths : pending[x] # NoReceipt},
  sealed <- rotation # NoRotation,
  Absent <- NoObject

\* Put and delete alone change what the store holds, and a key rotation changes
\* none of it, also when it is interrupted and resumed.
KeepsPromise == Promise!Spec

=============================================================================
