---------------------------- MODULE StorageAlone ----------------------------
(***************************************************************************)
(* Theorems about Storage when commands do not overlap: what is on record, *)
(* which keys are needed, and that the store implements ObjectStore.  For  *)
(* every set of processes, paths, keys and data, and any number of crashes *)
(* between any two steps of a deletion or a rotation.                      *)
(***************************************************************************)
EXTENDS StorageProofs

\* One process runs at a time.
OneRuns == \A p, q \in Procs : op[p] # Idle /\ op[q] # Idle => p = q

\* The active key is not retired, and what was destroyed is.
HistoryFits ==
  /\ manifest.active \notin Retired(manifest)
  /\ attested \subseteq Retired(manifest)

\* A rotation has objects to re-encrypt, or may have.
Underway == rotation # NoRotation /\ rotation.to # manifest.active

\* Which keys the objects are under, and that no object is forgotten by the
\* rotation that is underway.
KeysFit ==
  IF Underway
    THEN /\ rotation.from = manifest.active
         /\ rotation.to \notin KeyHistory(manifest)
         /\ Present \subseteq rotation.paths
         /\ \A x \in Present : objects[x].key \in {rotation.from, rotation.to}
    ELSE \A x \in Present : objects[x].key = manifest.active

\* A receipt that names the object at its path names its key.
ReceiptsFit ==
  \A x \in Paths :
    pending[x] # NoReceipt /\ objects[x] # NoObject /\ objects[x].id = pending[x].object
      => objects[x].key = pending[x].key

\* The steps of a deletion after its object is gone, and all of them.
DeletesGone == {"log", "append", "clear"}
Deletes == {"check", "unlink"} \cup DeletesGone

\* What a process holds agrees with the files.
Holds(o) ==
  /\ o.at \in {"seal", "journal"} => Refreshed(o.key)
  /\ o.at = "put" => Refreshed(o.object.key) /\ pending[o.path] = NoReceipt
  /\ o.at \in Deletes => rotation = NoRotation /\ pending[o.path] = o.receipt
  /\ o.at = "unlink" => objects[o.path] # NoObject /\ objects[o.path].id = o.receipt.object
  /\ o.at \in DeletesGone => objects[o.path] = NoObject
  /\ o.at = "append" => o.log = deletions
  /\ o.at = "clear" => o.receipt \in deletions
  /\ o.at = "begin" => /\ rotation = NoRotation
                       /\ o.journal.from = manifest.active
                       /\ o.journal.to \notin KeyHistory(manifest)
                       /\ o.journal.paths = Present
  /\ o.at \in {"rotate", "rewrite"} =>
       /\ rotation = o.journal /\ manifest = o.read /\ Underway
       /\ \A x \in Present \ o.todo : objects[x].key = o.journal.to
  /\ o.at = "rewrite" => /\ objects[o.path] # NoObject
                         /\ o.object.key = o.journal.to
                         /\ o.object.data = objects[o.path].data
  /\ o.at \in {"cleanup", "finish"} => rotation # NoRotation /\ ~ Underway

\* What the running command holds agrees with the disk.
HeldFits == \A p \in Procs : Holds(op[p])

\* The files agree with each other and with the keys.
DiskFits == HistoryFits /\ KeysFit /\ ReceiptsFit /\ RemovalRecorded

\* The inductive invariant of commands that run one at a time.
AloneInv == OneRuns /\ DiskFits /\ HeldFits

-----------------------------------------------------------------------------
(* The invariant is inductive.                                             *)

\* Of a process that runs, or is about to, every other one is idle.
LEMMA OthersIdle ==
  ASSUME OneRuns, NEW p \in Procs, op[p] # Idle \/ AllIdle
  PROVE  \A q \in Procs \ {p} : op[q] = Idle
  BY DEF OneRuns, AllIdle

\* Nothing needs to agree with what an idle process holds.
LEMMA IdleHolds == Holds(Idle)
  BY DEF Idle, Holds, Deletes, DeletesGone

\* What is left to show when one process has taken a step.
LEMMA AfterStep ==
  ASSUME TypeOK, TypeOK', NEW p \in Procs, \A q \in Procs \ {p} : op[q] = Idle,
         \A q \in Procs \ {p} : op'[q] = op[q],
         Holds(op[p])', DiskFits'
  PROVE  AloneInv'
  <1>1. OneRuns'
    BY DEF OneRuns
  <1>2. Holds(Idle)'
    BY IdleHolds, PTL
  <1>3. HeldFits'
    <2> SUFFICES ASSUME NEW q \in Procs PROVE Holds(op[q])'
      BY DEF HeldFits
    <2>1. CASE q = p
      BY <2>1
    <2>2. CASE q # p
      <3>1. op'[q] = Idle
        BY <2>2
      <3> QED
        BY <3>1, <1>2 DEF Holds
    <2> QED
      BY <2>1, <2>2
  <1> QED
    BY <1>1, <1>3 DEF AloneInv

\* A step that writes no file.
LEMMA DiskSame ==
  ASSUME DiskFits, UNCHANGED <<disk, removed>>
  PROVE  DiskFits'
  BY DEF DiskFits, disk, HistoryFits, KeysFit, ReceiptsFit, RemovalRecorded, Retired, Underway,
     KeyHistory, Present

\* A command that fails or dies.
LEMMA StopAlone ==
  ASSUME TypeOK, TypeOK', AloneInv, NEW p \in Procs, op[p] # Idle,
         Goto(p, Idle), UNCHANGED <<disk, removed>>
  PROVE  AloneInv'
  <1>1. \A q \in Procs \ {p} : op[q] = Idle
    BY OthersIdle DEF AloneInv
  <1>2. /\ \A q \in Procs \ {p} : op'[q] = op[q]
        /\ op'[p] = Idle
    BY DEF Goto, TypeOK
  <1>3. Holds(Idle)'
    BY IdleHolds, PTL
  <1>4. Holds(op[p])'
    BY <1>2, <1>3 DEF Holds
  <1> QED
    BY <1>1, <1>2, <1>4, AfterStep, DiskSame DEF AloneInv

\* put: the object is written under the key of the store, and no deletion of
\* its path has begun meanwhile.
LEMMA PutAlone ==
  ASSUME TypeOK, TypeOK', GoneInv, AloneInv, ~ Overlap, NEW p \in Procs,
         SealPut(p) \/ WritePut(p) \/
           \E x \in Paths, d \in Data, k \in Keys : OpenPut(p, x, d, k)
  PROVE  AloneInv'
  <1> DEFINE o == op[p]
  <1>0. /\ o \in Operation /\ Holds(o) /\ DiskFits
        /\ o # Idle \/ AllIdle => \A q \in Procs \ {p} : op[q] = Idle
    BY OthersIdle DEF TypeOK, AloneInv, HeldFits
  <1>1. CASE \E x \in Paths, d \in Data, k \in Keys : OpenPut(p, x, d, k)
    <2> PICK x \in Paths, d \in Data, k \in Keys : OpenPut(p, x, d, k)
      BY <1>1
    <2>1. AllIdle /\ Refreshed(k) /\ UNCHANGED <<disk, counters>>
      BY DEF OpenPut, Starts
    <2>2. /\ op'[p] = [at |-> "seal", path |-> x, data |-> d, key |-> k]
          /\ \A q \in Procs \ {p} : op'[q] = op[q]
      BY DEF OpenPut, Goto, TypeOK
    <2>3. Holds(op[p])'
      BY <2>1, <2>2 DEF Holds, Deletes, DeletesGone, Refreshed, disk
    <2> QED
      BY <1>0, <2>1, <2>2, <2>3, AfterStep, DiskSame DEF counters
  <1>2. CASE SealPut(p)
    <2>1. o \in Sealing /\ o # Idle
      BY <1>0, <1>2, OperationCases DEF SealPut, Idle
    <2>2. CASE Fail(p)
      BY <2>1, <2>2, StopAlone DEF Fail, counters
    <2>3. CASE ~ Fail(p)
      <3> DEFINE step == [at |-> "put", path |-> o.path, object |-> Encrypted(o.key, o.data)]
      <3>1. /\ pending[o.path] = NoReceipt /\ Goto(p, step)
            /\ UNCHANGED <<disk, removed, faults>> /\ o.at = "seal"
        BY <1>2, <2>3 DEF SealPut, PendingFor
      <3>2. op'[p] = step /\ \A q \in Procs \ {p} : op'[q] = op[q]
        BY <3>1 DEF Goto, TypeOK
      <3>3. Refreshed(o.key)
        BY <1>0, <3>1 DEF Holds
      <3>4. Holds(op[p])'
        BY <3>1, <3>2, <3>3 DEF Holds, Deletes, DeletesGone, Refreshed, disk, Encrypted
      <3> QED
        BY <1>0, <2>1, <3>1, <3>2, <3>4, AfterStep, DiskSame
    <2> QED
      BY <2>2, <2>3
  <1>3. CASE WritePut(p)
    <2>1. o \in Writing /\ o # Idle /\ o.at = "put"
      BY <1>0, <1>3, OperationCases DEF WritePut, Idle
    <2>2. /\ rotation = NoRotation /\ o.object.key = manifest.active
          /\ pending[o.path] = NoReceipt
      BY <1>0, <2>1 DEF Holds, Refreshed
    <2>3. /\ objects' = [objects EXCEPT ![o.path] = o.object] /\ op'[p] = Idle
          /\ \A q \in Procs \ {p} : op'[q] = op[q]
          /\ UNCHANGED <<manifest, rotation, pending, deletions, attested, removed>>
      BY <1>3 DEF WritePut, Goto, TypeOK, counters
    <2>4. HistoryFits' /\ RemovalRecorded'
      BY <1>0, <2>3 DEF DiskFits, HistoryFits, RemovalRecorded, Retired
    <2>5. KeysFit'
      BY <1>0, <2>2, <2>3 DEF DiskFits, KeysFit, Underway, Present, TypeOK
    <2>6. ReceiptsFit'
      BY <1>0, <2>2, <2>3 DEF DiskFits, ReceiptsFit, TypeOK
    <2>7. Holds(Idle)'
      BY IdleHolds, PTL
    <2> QED
      BY <1>0, <2>1, <2>3, <2>4, <2>5, <2>6, <2>7, AfterStep DEF DiskFits, Holds
  <1> QED
    BY <1>1, <1>2, <1>3

\* delete: the receipt comes after the removal, and the pending journal goes
\* after the receipt is written.
LEMMA DeleteAlone ==
  ASSUME TypeOK, TypeOK', GoneInv, AloneInv, ~ Overlap, NEW p \in Procs,
         \/ JournalDelete(p) \/ CheckDelete(p) \/ Unlink(p)
         \/ ReadLog(p) \/ AppendReceipt(p) \/ ClearPending(p)
         \/ \E x \in Paths, k \in Keys : OpenDelete(p, x, k)
  PROVE  AloneInv'
  <1> DEFINE o == op[p]
  <1>0. /\ o \in Operation /\ Holds(o) /\ DiskFits
        /\ o # Idle \/ AllIdle => \A q \in Procs \ {p} : op[q] = Idle
    BY OthersIdle DEF TypeOK, AloneInv, HeldFits
  <1>1. CASE \E x \in Paths, k \in Keys : OpenDelete(p, x, k)
    <2> PICK x \in Paths, k \in Keys : OpenDelete(p, x, k)
      BY <1>1
    <2>1. AllIdle /\ Refreshed(k) /\ UNCHANGED <<disk, counters>>
      BY DEF OpenDelete, Starts
    <2>2. /\ op'[p] = [at |-> "journal", path |-> x, key |-> k]
          /\ \A q \in Procs \ {p} : op'[q] = op[q]
      BY DEF OpenDelete, Goto, TypeOK
    <2>3. Holds(op[p])'
      BY <2>1, <2>2 DEF Holds, Deletes, DeletesGone, Refreshed, disk
    <2> QED
      BY <1>0, <2>1, <2>2, <2>3, AfterStep, DiskSame DEF counters
  <1>2. CASE JournalDelete(p)
    <2>1. o \in Journalling /\ o # Idle /\ o.at = "journal" /\ rotation = NoRotation
      BY <1>0, <1>2, OperationCases DEF JournalDelete, Idle, Holds, Refreshed
    <2>2. CASE Fail(p)
      BY <2>1, <2>2, StopAlone DEF Fail, counters
    <2>3. CASE pending[o.path] # NoReceipt
      <3> DEFINE step == [at |-> "check", path |-> o.path, receipt |-> pending[o.path]]
      <3>1. Goto(p, step) /\ UNCHANGED <<disk, counters>>
        BY <1>2, <2>3 DEF JournalDelete
      <3>2. op'[p] = step /\ \A q \in Procs \ {p} : op'[q] = op[q]
        BY <3>1 DEF Goto, TypeOK
      <3>3. Holds(op[p])'
        BY <2>1, <3>1, <3>2 DEF Holds, Deletes, DeletesGone, disk
      <3> QED
        BY <1>0, <2>1, <3>1, <3>2, <3>3, AfterStep, DiskSame DEF counters
    <2>4. CASE ~ Fail(p) /\ pending[o.path] = NoReceipt
      <3> DEFINE r == ReceiptFor(o.path)
                 step == [at |-> "check", path |-> o.path, receipt |-> r]
      <3>1. /\ Goto(p, step) /\ objects[o.path] # NoObject
            /\ pending' = [pending EXCEPT ![o.path] = r]
            /\ UNCHANGED <<manifest, objects, rotation, deletions, attested, counters>>
        BY <1>2, <2>4 DEF JournalDelete, Decrypts
      <3>2. op'[p] = step /\ \A q \in Procs \ {p} : op'[q] = op[q]
        BY <3>1 DEF Goto, TypeOK
      <3>3. o.path \in Paths /\ pending'[o.path] = r
        BY <2>1, <3>1 DEF Journalling, TypeOK
      <3>4. Holds(op[p])'
        BY <2>1, <3>1, <3>2, <3>3 DEF Holds, Deletes, DeletesGone
      <3>5. HistoryFits' /\ KeysFit'
        BY <1>0, <3>1 DEF DiskFits, HistoryFits, KeysFit, Retired, Underway, KeyHistory, Present
      <3>6. ReceiptsFit'
        BY <1>0, <3>1, <3>3 DEF DiskFits, ReceiptsFit, TypeOK, ReceiptFor
      <3>7. RemovalRecorded'
        <4> SUFFICES ASSUME NEW s \in removed PROVE s \in deletions \/ pending'[s.path] = s
          BY <3>1 DEF RemovalRecorded, counters
        <4>1. s \in Receipt /\ (s \in deletions \/ pending[s.path] = s)
          BY <1>0 DEF TypeOK, DiskFits, RemovalRecorded
        <4>2. s # NoReceipt /\ s.path \in Paths
          BY <4>1, ConstantsAssumption DEF Receipt
        <4> QED
          BY <2>4, <3>1, <4>1, <4>2 DEF TypeOK
      <3> QED
        BY <1>0, <2>1, <3>2, <3>4, <3>5, <3>6, <3>7, AfterStep DEF DiskFits
    <2> QED
      BY <2>2, <2>3, <2>4
  <1>3. CASE CheckDelete(p)
    <2>1. o \in Holding /\ o # Idle /\ o.at = "check" /\ rotation = NoRotation
          /\ pending[o.path] = o.receipt
      BY <1>0, <1>3, OperationCases DEF CheckDelete, DeletionSteps, Idle, Holds, Deletes
    <2>2. CASE Fail(p)
      BY <2>1, <2>2, StopAlone DEF Fail, counters
    <2>3. CASE ~ Fail(p)
      <3>1. PICK s \in {"log", "unlink"} :
              /\ Goto(p, [o EXCEPT !.at = s]) /\ UNCHANGED <<disk, counters>>
              /\ s = "log" => objects[o.path] = NoObject
              /\ s = "unlink" => objects[o.path] # NoObject /\ objects[o.path].id = o.receipt.object
        BY <1>3, <2>3 DEF CheckDelete, DeletionOrder, Unlinked
      <3>2. /\ op'[p] = [o EXCEPT !.at = s] /\ \A q \in Procs \ {p} : op'[q] = op[q]
            /\ op'[p].at = s /\ op'[p].path = o.path /\ op'[p].receipt = o.receipt
        BY <2>1, <3>1 DEF Goto, TypeOK, Holding
      <3>3. Holds(op[p])'
        BY <2>1, <3>1, <3>2 DEF Holds, Deletes, DeletesGone, disk
      <3> QED
        BY <1>0, <2>1, <3>1, <3>2, <3>3, AfterStep, DiskSame DEF counters
    <2> QED
      BY <2>2, <2>3
  <1>4. CASE Unlink(p)
    <2>1. /\ o \in Holding /\ o # Idle /\ o.at = "unlink" /\ rotation = NoRotation
          /\ pending[o.path] = o.receipt /\ o.path \in Paths /\ o.receipt \in Receipt
          /\ objects[o.path] # NoObject /\ objects[o.path].id = o.receipt.object
      BY <1>0, <1>4, OperationCases DEF Unlink, DeletionSteps, Idle, Holds, Deletes, Holding
    <2>2. /\ objects' = [objects EXCEPT ![o.path] = NoObject]
          /\ removed' = removed \cup {ReceiptFor(o.path)}
          /\ Goto(p, [o EXCEPT !.at = "log"])
          /\ UNCHANGED <<manifest, rotation, pending, deletions, attested>>
      BY <1>4, <2>1 DEF Unlink, DeletionOrder
    <2>3. /\ op'[p] = [o EXCEPT !.at = "log"] /\ \A q \in Procs \ {p} : op'[q] = op[q]
          /\ op'[p].at = "log" /\ op'[p].path = o.path /\ op'[p].receipt = o.receipt
          /\ objects'[o.path] = NoObject
      BY <2>1, <2>2 DEF Goto, TypeOK, Holding
    <2>4. ReceiptFor(o.path) = o.receipt
      <3>1. o.receipt # NoReceipt /\ o.receipt.path = o.path
        BY <2>1, ConstantsAssumption DEF GoneInv, PathsAgree
      <3>2. objects[o.path].key = o.receipt.key
        BY <1>0, <2>1, <3>1 DEF DiskFits, ReceiptsFit
      <3> QED
        BY <2>1, <3>1, <3>2 DEF ReceiptFor, Receipt
    <2>5. Holds(op[p])'
      BY <2>1, <2>2, <2>3 DEF Holds, Deletes, DeletesGone
    <2>6. HistoryFits'
      BY <1>0, <2>2 DEF DiskFits, HistoryFits, Retired
    <2>7. KeysFit'
      BY <1>0, <2>1, <2>2 DEF DiskFits, KeysFit, Underway, Present, TypeOK
    <2>8. ReceiptsFit'
      BY <1>0, <2>1, <2>2 DEF DiskFits, ReceiptsFit, TypeOK
    <2>9. RemovalRecorded'
      <3>1. o.receipt.path = o.path
        BY <2>4 DEF ReceiptFor
      <3> QED
        BY <1>0, <2>1, <2>2, <2>4, <3>1 DEF DiskFits, RemovalRecorded
    <2> QED
      BY <1>0, <2>1, <2>3, <2>5, <2>6, <2>7, <2>8, <2>9, AfterStep DEF DiskFits
  <1>5. CASE ReadLog(p)
    <2>1. /\ o \in Holding /\ o # Idle /\ o.at = "log" /\ rotation = NoRotation
          /\ pending[o.path] = o.receipt /\ objects[o.path] = NoObject
      BY <1>0, <1>5, OperationCases DEF ReadLog, DeletionSteps, Idle, Holds, Deletes, DeletesGone
    <2> DEFINE step == [at |-> "append", path |-> o.path, receipt |-> o.receipt, log |-> deletions]
    <2>2. Goto(p, step) /\ UNCHANGED <<disk, counters>>
      BY <1>5 DEF ReadLog
    <2>3. op'[p] = step /\ \A q \in Procs \ {p} : op'[q] = op[q]
      BY <2>2 DEF Goto, TypeOK
    <2>4. Holds(op[p])'
      BY <2>1, <2>2, <2>3 DEF Holds, Deletes, DeletesGone, disk
    <2> QED
      BY <1>0, <2>1, <2>2, <2>3, <2>4, AfterStep, DiskSame DEF counters
  <1>6. CASE AppendReceipt(p)
    <2>1. /\ o \in Appending /\ o # Idle /\ o.at = "append" /\ rotation = NoRotation
          /\ pending[o.path] = o.receipt /\ objects[o.path] = NoObject /\ o.log = deletions
      BY <1>0, <1>6, OperationCases DEF AppendReceipt, Idle, Holds, Deletes, DeletesGone
    <2> DEFINE step == [at |-> "clear", path |-> o.path, receipt |-> o.receipt]
    <2>2. /\ Goto(p, step) /\ deletions' = deletions \cup {o.receipt}
          /\ UNCHANGED <<manifest, objects, rotation, pending, attested, counters>>
      BY <1>6, <2>1 DEF AppendReceipt, DeletionOrder
    <2>3. op'[p] = step /\ \A q \in Procs \ {p} : op'[q] = op[q]
      BY <2>2 DEF Goto, TypeOK
    <2>4. Holds(op[p])'
      BY <2>1, <2>2, <2>3 DEF Holds, Deletes, DeletesGone
    <2>5. DiskFits'
      BY <1>0, <2>2 DEF DiskFits, HistoryFits, KeysFit, ReceiptsFit, RemovalRecorded, Retired,
         Underway, KeyHistory, Present, counters
    <2> QED
      BY <1>0, <2>1, <2>3, <2>4, <2>5, AfterStep
  <1>7. CASE ClearPending(p)
    <2>1. /\ o \in Holding /\ o # Idle /\ o.at = "clear" /\ o.path \in Paths
          /\ pending[o.path] = o.receipt /\ o.receipt \in deletions
      BY <1>0, <1>7, OperationCases DEF ClearPending, DeletionSteps, Idle, Holds, Deletes,
         DeletesGone, Holding
    <2>2. /\ pending' = [pending EXCEPT ![o.path] = NoReceipt] /\ op'[p] = Idle
          /\ \A q \in Procs \ {p} : op'[q] = op[q]
          /\ UNCHANGED <<manifest, objects, rotation, deletions, attested, removed>>
      BY <1>7 DEF ClearPending, Goto, TypeOK, counters
    <2>3. Holds(Idle)'
      BY IdleHolds, PTL
    <2>4. HistoryFits' /\ KeysFit'
      BY <1>0, <2>2 DEF DiskFits, HistoryFits, KeysFit, Retired, Underway, KeyHistory, Present
    <2>5. ReceiptsFit'
      BY <1>0, <2>1, <2>2 DEF DiskFits, ReceiptsFit, TypeOK
    <2>6. RemovalRecorded'
      <3> SUFFICES ASSUME NEW s \in removed PROVE s \in deletions \/ pending'[s.path] = s
        BY <2>2 DEF RemovalRecorded
      <3>1. s \in deletions \/ pending[s.path] = s
        BY <1>0 DEF DiskFits, RemovalRecorded
      <3>2. CASE s.path = o.path
        BY <2>1, <3>1, <3>2
      <3>3. CASE s.path # o.path
        BY <2>2, <3>1, <3>3 DEF TypeOK
      <3> QED
        BY <3>2, <3>3
    <2> QED
      BY <1>0, <2>1, <2>2, <2>3, <2>4, <2>5, <2>6, AfterStep DEF DiskFits, Holds
  <1> QED
    BY <1>1, <1>2, <1>3, <1>4, <1>5, <1>6, <1>7

\* rotate-key: an object is rewritten under the new key before the manifest
\* names that key, and the journal goes last.
LEMMA RotationAlone ==
  ASSUME TypeOK, TypeOK', GoneInv, AloneInv, ~ Overlap, NEW p \in Procs,
         \/ WriteJournal(p) \/ LoadRotation(p) \/ RewriteObject(p) \/ CommitManifest(p)
         \/ CheckCommitted(p) \/ RemoveJournal(p) \/ ResumeRotation(p)
         \/ (\E x \in Paths : ReadObject(p, x))
         \/ \E k \in Keys : BeginRotation(p, k) \/ AttestKeyDestruction(p, k)
  PROVE  AloneInv'
  <1> DEFINE o == op[p]
  <1>0. /\ o \in Operation /\ Holds(o) /\ DiskFits
        /\ o # Idle \/ AllIdle => \A q \in Procs \ {p} : op[q] = Idle
    BY OthersIdle DEF TypeOK, AloneInv, HeldFits
  <1>1. CASE \E k \in Keys : BeginRotation(p, k)
    <2> PICK k \in Keys : BeginRotation(p, k)
      BY <1>1
    <2> DEFINE j == [from |-> manifest.active, to |-> k, paths |-> Present]
               step == [at |-> "begin", journal |-> j]
    <2>1. /\ AllIdle /\ rotation = NoRotation /\ k \notin KeyHistory(manifest)
          /\ Goto(p, step) /\ UNCHANGED <<disk, counters>>
      BY DEF BeginRotation, Starts
    <2>2. op'[p] = step /\ \A q \in Procs \ {p} : op'[q] = op[q]
      BY <2>1 DEF Goto, TypeOK
    <2>3. Holds(op[p])'
      BY <2>1, <2>2 DEF Holds, Deletes, DeletesGone, disk, KeyHistory, Retired, Present
    <2> QED
      BY <1>0, <2>1, <2>2, <2>3, AfterStep, DiskSame DEF counters
  <1>2. CASE \E k \in Keys : AttestKeyDestruction(p, k)
    <2> PICK k \in Keys : AttestKeyDestruction(p, k)
      BY <1>2
    <2>1. /\ AllIdle /\ k \in Retired(manifest) /\ attested' = attested \cup {k}
          /\ UNCHANGED <<manifest, objects, rotation, pending, deletions, op, removed>>
      BY DEF AttestKeyDestruction, Destroyable, Starts, counters
    <2>2. op'[p] = Idle /\ \A q \in Procs \ {p} : op'[q] = op[q]
      BY <2>1 DEF AllIdle
    <2>3. Holds(Idle)'
      BY IdleHolds, PTL
    <2>4. DiskFits'
      BY <1>0, <2>1 DEF DiskFits, HistoryFits, KeysFit, ReceiptsFit, RemovalRecorded, Retired,
         Underway, KeyHistory, Present
    <2> QED
      BY <1>0, <2>1, <2>2, <2>3, <2>4, AfterStep DEF Holds
  <1>3. CASE ResumeRotation(p)
    <2> DEFINE step == [at |-> "resume", from |-> rotation.from, to |-> rotation.to]
    <2>1. AllIdle /\ Goto(p, step) /\ UNCHANGED <<disk, counters>>
      BY <1>3 DEF ResumeRotation, Starts
    <2>2. op'[p] = step /\ \A q \in Procs \ {p} : op'[q] = op[q]
      BY <2>1 DEF Goto, TypeOK
    <2>3. Holds(op[p])'
      BY <2>2 DEF Holds, Deletes, DeletesGone
    <2> QED
      BY <1>0, <2>1, <2>2, <2>3, AfterStep, DiskSame DEF counters
  <1>4. CASE WriteJournal(p)
    <2> DEFINE j == o.journal
               step == [at |-> "resume", from |-> j.from, to |-> j.to]
    <2>1. /\ o \in Beginning /\ o # Idle /\ rotation = NoRotation /\ j.from = manifest.active
          /\ j.to \notin KeyHistory(manifest) /\ j.paths = Present
      BY <1>0, <1>4, OperationCases DEF WriteJournal, Idle, Holds
    <2>2. /\ rotation' = j /\ Goto(p, step)
          /\ UNCHANGED <<manifest, objects, pending, deletions, attested, removed>>
      BY <1>4 DEF WriteJournal, counters
    <2>3. op'[p] = step /\ \A q \in Procs \ {p} : op'[q] = op[q]
      BY <2>2 DEF Goto, TypeOK
    <2>4. Holds(op[p])'
      BY <2>3 DEF Holds, Deletes, DeletesGone
    <2>5. HistoryFits' /\ ReceiptsFit' /\ RemovalRecorded'
      BY <1>0, <2>2 DEF DiskFits, HistoryFits, ReceiptsFit, RemovalRecorded, Retired
    <2>6. j # NoRotation
      BY <2>1, ConstantsAssumption DEF Beginning
    <2>7. KeysFit'
      BY <1>0, <2>1, <2>2, <2>6 DEF DiskFits, KeysFit, Underway, KeyHistory, Retired, Present
    <2> QED
      BY <1>0, <2>1, <2>3, <2>4, <2>5, <2>7, AfterStep DEF DiskFits
  <1>5. CASE LoadRotation(p)
    <2>1. o # Idle
      BY <1>5 DEF LoadRotation, Idle
    <2>2. CASE Fail(p)
      BY <2>1, <2>2, StopAlone DEF Fail, counters
    <2>3. CASE ~ Fail(p)
      <3>1. PICK s \in {"rotate", "cleanup"} :
              /\ rotation # NoRotation
              /\ s = "rotate" => manifest.active # rotation.to
              /\ s = "cleanup" => manifest.active = rotation.to
              /\ Goto(p, [at |-> s, journal |-> rotation, read |-> manifest,
                          todo |-> rotation.paths])
              /\ UNCHANGED <<disk, counters>>
        BY <1>5, <2>3 DEF LoadRotation, Committed
      <3> DEFINE step == [at |-> s, journal |-> rotation, read |-> manifest,
                          todo |-> rotation.paths]
      <3>2. op'[p] = step /\ \A q \in Procs \ {p} : op'[q] = op[q]
        BY <3>1 DEF Goto, TypeOK
      <3>3. s = "rotate" => Underway /\ Present \subseteq rotation.paths
        BY <1>0, <3>1 DEF DiskFits, KeysFit, Underway
      <3>4. Holds(op[p])'
        BY <3>1, <3>2, <3>3 DEF Holds, Deletes, DeletesGone, disk, Underway, Present
      <3> QED
        BY <1>0, <2>1, <3>1, <3>2, <3>4, AfterStep, DiskSame DEF counters
    <2> QED
      BY <2>2, <2>3
  <1>6. CASE \E x \in Paths : ReadObject(p, x)
    <2> PICK x \in Paths : ReadObject(p, x)
      BY <1>6
    <2>1. /\ o \in Walking /\ o # Idle /\ o.at = "rotate"
          /\ rotation = o.journal /\ manifest = o.read /\ Underway
          /\ \A y \in Present \ o.todo : objects[y].key = o.journal.to
      BY <1>0, OperationCases DEF ReadObject, Idle, Holds
    <2>2. CASE Fail(p)
      BY <2>1, <2>2, StopAlone DEF Fail, counters
    <2>3. CASE ~ Fail(p) /\ Decrypts(x, o.journal.to)
      <3> DEFINE step == [o EXCEPT !.todo = @ \ {x}]
      <3>1. Goto(p, step) /\ UNCHANGED <<disk, counters>> /\ objects[x].key = o.journal.to
        BY <2>3 DEF ReadObject, Decrypts
      <3>2. /\ op'[p] = step /\ \A q \in Procs \ {p} : op'[q] = op[q]
            /\ step.at = "rotate" /\ step.journal = o.journal /\ step.read = o.read
            /\ step.todo = o.todo \ {x}
        BY <2>1, <3>1 DEF Goto, TypeOK, Walking
      <3>3. Holds(op[p])'
        BY <2>1, <3>1, <3>2 DEF Holds, Deletes, DeletesGone, disk, Underway, Present
      <3> QED
        BY <1>0, <2>1, <3>1, <3>2, <3>3, AfterStep, DiskSame DEF counters
    <2>4. CASE ~ Fail(p) /\ ~ Decrypts(x, o.journal.to)
      <3> DEFINE e == Encrypted(o.journal.to, objects[x].data)
                 step == [at |-> "rewrite", journal |-> o.journal, read |-> o.read,
                          todo |-> o.todo, path |-> x, object |-> e]
      <3>1. Goto(p, step) /\ UNCHANGED <<disk, removed, faults>> /\ objects[x] # NoObject
        BY <2>4 DEF ReadObject, Decrypts
      <3>2. op'[p] = step /\ \A q \in Procs \ {p} : op'[q] = op[q]
        BY <3>1 DEF Goto, TypeOK
      <3>3. e.key = o.journal.to /\ e.data = objects[x].data
        BY DEF Encrypted
      <3>4. Holds(op[p])'
        BY <2>1, <3>1, <3>2, <3>3 DEF Holds, Deletes, DeletesGone, disk, Underway, Present
      <3> QED
        BY <1>0, <2>1, <3>1, <3>2, <3>4, AfterStep, DiskSame
    <2> QED
      BY <2>2, <2>3, <2>4
  <1>7. CASE RewriteObject(p)
    <2> DEFINE x == o.path
               step == [at |-> "rotate", journal |-> o.journal, read |-> o.read,
                        todo |-> o.todo \ {x}]
    <2>1. /\ o \in Rewriting /\ o # Idle /\ o.at = "rewrite" /\ x \in Paths
          /\ rotation = o.journal /\ manifest = o.read /\ Underway
          /\ objects[x] # NoObject /\ o.object.key = o.journal.to
          /\ \A y \in Present \ o.todo : objects[y].key = o.journal.to
      BY <1>0, <1>7, OperationCases DEF RewriteObject, Idle, Holds, Rewriting
    <2>2. /\ objects' = [objects EXCEPT ![x] = o.object] /\ Goto(p, step)
          /\ UNCHANGED <<manifest, rotation, pending, deletions, attested, removed>>
      BY <1>7 DEF RewriteObject, counters
    <2>3. op'[p] = step /\ \A q \in Procs \ {p} : op'[q] = op[q]
      BY <2>2 DEF Goto, TypeOK
    <2>4. o.object # NoObject
      BY <2>1, ConstantsAssumption DEF Rewriting
    <2>5. /\ Present' = Present
          /\ \A y \in Present : y # x => objects'[y] = objects[y]
          /\ objects'[x] = o.object
      BY <2>1, <2>2, <2>4 DEF Present, TypeOK
    <2>6. Holds(op[p])'
      BY <2>1, <2>2, <2>3, <2>5 DEF Holds, Deletes, DeletesGone, Underway
    <2>7. HistoryFits' /\ RemovalRecorded'
      BY <1>0, <2>2 DEF DiskFits, HistoryFits, RemovalRecorded, Retired
    <2>8. KeysFit'
      BY <1>0, <2>1, <2>2, <2>5 DEF DiskFits, KeysFit, Underway, KeyHistory, Retired
    <2>9. pending[x] # NoReceipt => o.object.id # pending[x].object
      BY <2>1, SeenBy DEF GoneInv, HeldAreNew, HeldIds
    <2>10. ReceiptsFit'
      BY <1>0, <2>1, <2>2, <2>9 DEF DiskFits, ReceiptsFit, TypeOK
    <2> QED
      BY <1>0, <2>1, <2>3, <2>6, <2>7, <2>8, <2>10, AfterStep DEF DiskFits
  <1>8. CASE CommitManifest(p)
    <2> DEFINE j == o.journal
    <2>1. /\ o \in Walking /\ o # Idle /\ o.at = "rotate" /\ o.todo = {}
          /\ rotation = j /\ manifest = o.read /\ Underway /\ j \in Rotation
          /\ \A y \in Present : objects[y].key = j.to
      BY <1>0, <1>8, OperationCases DEF CommitManifest, Idle, Holds, Walking
    <2>2. /\ manifest' = [active |-> j.to,
                          replacedBy |-> [manifest.replacedBy EXCEPT ![j.from] = j.to]]
          /\ Goto(p, [at |-> "finish"])
          /\ UNCHANGED <<objects, rotation, pending, deletions, attested, removed>>
      BY <1>8, <2>1 DEF CommitManifest, counters
    <2>3. op'[p] = [at |-> "finish"] /\ \A q \in Procs \ {p} : op'[q] = op[q]
      BY <2>2 DEF Goto, TypeOK
    <2>4. ~ Underway' /\ rotation' # NoRotation
      BY <2>1, <2>2 DEF Underway
    <2>5. Holds(op[p])'
      BY <2>3, <2>4 DEF Holds, Deletes, DeletesGone
    <2>6. /\ j.from = manifest.active /\ j.to \notin KeyHistory(manifest)
          /\ j.from \in Keys /\ j.to \in Keys /\ j.to # NoKey
      BY <1>0, <2>1, ConstantsAssumption DEF DiskFits, KeysFit, Rotation
    <2>7. Retired(manifest') = Retired(manifest) \cup {j.from}
      BY <2>2, <2>6 DEF Retired, TypeOK, Manifest
    <2>8. HistoryFits'
      BY <1>0, <2>2, <2>6, <2>7 DEF DiskFits, HistoryFits, KeyHistory
    <2>9. KeysFit'
      BY <2>1, <2>2, <2>4 DEF KeysFit, Present
    <2>10. ReceiptsFit' /\ RemovalRecorded'
      BY <1>0, <2>2 DEF DiskFits, ReceiptsFit, RemovalRecorded
    <2> QED
      BY <1>0, <2>1, <2>3, <2>5, <2>8, <2>9, <2>10, AfterStep DEF DiskFits
  <1>9. CASE CheckCommitted(p)
    <2>1. o # Idle /\ rotation # NoRotation /\ ~ Underway
      BY <1>0, <1>9 DEF CheckCommitted, Idle, Holds
    <2>2. CASE Fail(p)
      BY <2>1, <2>2, StopAlone DEF Fail, counters
    <2>3. CASE ~ Fail(p)
      <3>1. Goto(p, [at |-> "finish"]) /\ UNCHANGED <<disk, counters>>
        BY <1>9, <2>3 DEF CheckCommitted
      <3>2. op'[p] = [at |-> "finish"] /\ \A q \in Procs \ {p} : op'[q] = op[q]
        BY <3>1 DEF Goto, TypeOK
      <3>3. Holds(op[p])'
        BY <2>1, <3>1, <3>2 DEF Holds, Deletes, DeletesGone, disk, Underway
      <3> QED
        BY <1>0, <2>1, <3>1, <3>2, <3>3, AfterStep, DiskSame DEF counters
    <2> QED
      BY <2>2, <2>3
  <1>10. CASE RemoveJournal(p)
    <2>1. o # Idle /\ ~ Underway
      BY <1>0, <1>10 DEF RemoveJournal, Idle, Holds
    <2>2. /\ rotation' = NoRotation /\ op'[p] = Idle
          /\ \A q \in Procs \ {p} : op'[q] = op[q]
          /\ UNCHANGED <<manifest, objects, pending, deletions, attested, removed>>
      BY <1>10 DEF RemoveJournal, Goto, TypeOK, counters
    <2>3. Holds(Idle)'
      BY IdleHolds, PTL
    <2>4. DiskFits'
      BY <1>0, <2>1, <2>2 DEF DiskFits, HistoryFits, KeysFit, ReceiptsFit, RemovalRecorded,
         Retired, Underway, KeyHistory, Present
    <2> QED
      BY <1>0, <2>1, <2>2, <2>3, <2>4, AfterStep DEF Holds
  <1> QED
    BY <1>1, <1>2, <1>3, <1>4, <1>5, <1>6, <1>7, <1>8, <1>9, <1>10

\* Every step keeps the invariant.
LEMMA AloneInductive ==
  ASSUME ~ Overlap, TypeOK, TypeOK', GoneInv, AloneInv, [Next]_vars
  PROVE  AloneInv'
  <1>1. CASE UNCHANGED vars
    <2>1. UNCHANGED <<disk, removed, op>>
      BY <1>1 DEF vars, counters
    <2>2. OneRuns' /\ HeldFits'
      BY <2>1 DEF AloneInv, OneRuns, HeldFits, Holds, disk, Refreshed, Underway, KeyHistory,
         Retired, Present
    <2> QED
      BY <2>1, <2>2, DiskSame DEF AloneInv
  <1>2. CASE Next
    <2> PICK p \in Procs :
          \/ Step(p) \/ Crash(p) \/ ResumeRotation(p)
          \/ \E k \in Keys :
               \/ BeginRotation(p, k) \/ AttestKeyDestruction(p, k)
               \/ \E x \in Paths : OpenDelete(p, x, k) \/ \E d \in Data : OpenPut(p, x, d, k)
      BY <1>2 DEF Next
    <2>1. CASE Step(p)
      BY <2>1, PutAlone, DeleteAlone, RotationAlone DEF Step
    <2>2. CASE Crash(p)
      BY <2>2, StopAlone DEF Crash
    <2>3. CASE \E k \in Keys, x \in Paths : OpenDelete(p, x, k)
      BY <2>3, DeleteAlone
    <2>4. CASE \E k \in Keys, x \in Paths, d \in Data : OpenPut(p, x, d, k)
      BY <2>4, PutAlone
    <2>5. CASE \/ ResumeRotation(p)
               \/ \E k \in Keys : BeginRotation(p, k) \/ AttestKeyDestruction(p, k)
      BY <2>5, RotationAlone
    <2> QED
      BY <2>1, <2>2, <2>3, <2>4, <2>5
  <1> QED
    BY <1>1, <1>2

\* A store that was just initialised satisfies the invariant.
LEMMA InitAlone == Init => AloneInv
  <1> SUFFICES ASSUME Init PROVE AloneInv
    OBVIOUS
  <1>1. OneRuns /\ HeldFits
    BY IdleHolds DEF Init, OneRuns, HeldFits
  <1>2. DiskFits
    BY DEF Init, DiskFits, HistoryFits, KeysFit, ReceiptsFit, RemovalRecorded, Retired,
       Underway, Present
  <1> QED
    BY <1>1, <1>2 DEF AloneInv

\* With what it rests on.
Alone == TypeOK /\ GoneInv /\ AloneInv

\* Without overlap the invariant holds always.
LEMMA AlwaysAlone == ASSUME ~ Overlap PROVE Spec => []Alone
  <1>1. Init => Alone
    BY InitType, InitGone, InitAlone DEF Alone
  <1>2. Alone /\ [Next]_vars => Alone'
    BY NextType, GoneInductive, AloneInductive DEF Alone
  <1> QED
    BY <1>1, <1>2, PTL DEF Spec

-----------------------------------------------------------------------------
(* What follows from it.                                                   *)

\* An object that delete has removed has its receipt, at least in the pending
\* journal: no interruption of a deletion, and no rotation after it, loses it.
THEOREM RemovalAlwaysRecorded == ASSUME ~ Overlap PROVE Spec => []RemovalRecorded
  <1>1. Alone => RemovalRecorded
    BY DEF Alone, AloneInv, DiskFits
  <1> QED
    BY <1>1, AlwaysAlone, PTL

\* validate_store succeeds on a store at rest that has no journal: rotate-key,
\* interrupted and resumed anywhere, forgets no object.
THEOREM StoreAlwaysValidates == ASSUME ~ Overlap PROVE Spec => []StoreValidates
  <1>1. Alone => StoreValidates
    BY DEF Alone, AloneInv, DiskFits, HistoryFits, KeysFit, Underway, StoreValidates
  <1> QED
    BY <1>1, AlwaysAlone, PTL

\* No object is under a key whose destruction has been attested, also not while
\* a rotation is half done (attest_key_destruction).
THEOREM DestroyedKeysNeverUsed == ASSUME ~ Overlap PROVE Spec => []DestroyedKeysUnused
  <1>1. ASSUME Alone PROVE DestroyedKeysUnused
    <2> SUFFICES ASSUME NEW x \in Present PROVE objects[x].key \notin attested
      BY DEF DestroyedKeysUnused
    <2>1. attested \subseteq Retired(manifest) /\ manifest.active \notin Retired(manifest)
      BY <1>1 DEF Alone, AloneInv, DiskFits, HistoryFits
    <2>2. objects[x].key = manifest.active
          \/ /\ objects[x].key \in {rotation.from, rotation.to}
             /\ rotation.from = manifest.active /\ rotation.to \notin KeyHistory(manifest)
      BY <1>1 DEF Alone, AloneInv, DiskFits, KeysFit
    <2> QED
      BY <2>1, <2>2 DEF KeyHistory
  <1> QED
    BY <1>1, AlwaysAlone, PTL

-----------------------------------------------------------------------------
(* The store implements ObjectStore: put is the step that writes the       *)
(* object, a deletion dooms the path when its journal is written and       *)
(* erases the data when the object goes, and a rotation only seals the     *)
(* store and opens it again.                                               *)

\* The step of put that writes the object.
LEMMA WriteRefines ==
  ASSUME Alone, NEW p \in Procs, WritePut(p)
  PROVE  Promise!Put(op[p].path, op[p].object.data) /\ op[p].path \in Paths
         /\ op[p].object.data \in Data
  <1> DEFINE o == op[p]
  <1>1. o \in Writing /\ Holds(o)
    BY OperationCases DEF WritePut, Alone, TypeOK, AloneInv, HeldFits
  <1>2. /\ rotation = NoRotation /\ pending[o.path] = NoReceipt
        /\ o.path \in Paths /\ o.object \in Envelope /\ o.object # NoObject
    BY <1>1, ConstantsAssumption DEF WritePut, Holds, Refreshed, Writing
  <1>3. objects' = [objects EXCEPT ![o.path] = o.object] /\ UNCHANGED <<rotation, pending>>
    BY DEF WritePut
  <1> QED
    BY <1>2, <1>3 DEF Promise!Put, Envelope, Alone, TypeOK

\* The step of delete that writes its journal, if there was none.
LEMMA JournalRefines ==
  ASSUME Alone, NEW p \in Procs, JournalDelete(p)
  PROVE  UNCHANGED Promise!vars \/ \E x \in Paths : Promise!Doom(x)
  <1> DEFINE o == op[p]
             x == o.path
  <1>1. o \in Journalling /\ Holds(o)
    BY OperationCases DEF JournalDelete, Alone, TypeOK, AloneInv, HeldFits
  <1>2. x \in Paths /\ rotation = NoRotation
    BY <1>1 DEF JournalDelete, Holds, Refreshed, Journalling
  <1>3. CASE UNCHANGED disk
    BY <1>3 DEF disk, Promise!vars
  <1>4. CASE ~ UNCHANGED disk
    <2>1. /\ objects[x] # NoObject /\ pending' = [pending EXCEPT ![x] = ReceiptFor(x)]
          /\ UNCHANGED <<objects, rotation>>
      BY <1>4 DEF JournalDelete, Fail, Decrypts
    <2>2. objects[x].data # NoObject /\ ReceiptFor(x) # NoReceipt
      BY <1>2, <2>1, ReceiptForType, ConstantsAssumption DEF Alone, TypeOK, Envelope
    <2>3. Promise!Doom(x)
      BY <1>2, <2>1, <2>2 DEF Promise!Doom, Alone, TypeOK
    <2> QED
      BY <1>2, <2>3 DEF Promise!Doom
  <1> QED
    BY <1>3, <1>4

\* The step of delete that removes the object.
LEMMA UnlinkRefines ==
  ASSUME Alone, NEW p \in Procs, Unlink(p)
  PROVE  op[p].path \in Paths /\ Promise!Erase(op[p].path)
  <1> DEFINE o == op[p]
  <1>1. o \in Holding /\ Holds(o)
    BY OperationCases DEF Unlink, DeletionSteps, Alone, TypeOK, AloneInv, HeldFits
  <1>2. /\ o.path \in Paths /\ rotation = NoRotation /\ pending[o.path] # NoReceipt
        /\ objects[o.path] # NoObject
    BY <1>1, ConstantsAssumption DEF Unlink, Holds, Deletes, Holding
  <1>3. objects' = [objects EXCEPT ![o.path] = NoObject] /\ UNCHANGED <<rotation, pending>>
    BY <1>2 DEF Unlink
  <1> QED
    BY <1>2, <1>3 DEF Promise!Erase, Alone, TypeOK

\* The step of delete that drops the journal.
LEMMA ClearRefines ==
  ASSUME Alone, NEW p \in Procs, ClearPending(p)
  PROVE  op[p].path \in Paths /\ Promise!Finish(op[p].path)
  <1> DEFINE o == op[p]
  <1>1. o \in Holding /\ Holds(o)
    BY OperationCases DEF ClearPending, DeletionSteps, Alone, TypeOK, AloneInv, HeldFits
  <1>2. /\ o.path \in Paths /\ rotation = NoRotation /\ pending[o.path] # NoReceipt
        /\ objects[o.path] = NoObject
    BY <1>1, ConstantsAssumption DEF ClearPending, Holds, Deletes, DeletesGone, Holding
  <1>3. pending' = [pending EXCEPT ![o.path] = NoReceipt] /\ UNCHANGED <<rotation, objects>>
    BY DEF ClearPending
  <1> QED
    BY <1>2, <1>3 DEF Promise!Finish, Alone, TypeOK

\* The steps of rotate-key that write and remove the journal.
LEMMA SealRefines ==
  ASSUME Alone, NEW p \in Procs, WriteJournal(p) \/ RemoveJournal(p)
  PROVE  Promise!Seal
  <1>1. op[p] \in Operation /\ Holds(op[p])
    BY DEF Alone, TypeOK, AloneInv, HeldFits
  <1>2. UNCHANGED <<objects, pending>>
    BY DEF WriteJournal, RemoveJournal
  <1>3. (rotation # NoRotation)' <=> ~ (rotation # NoRotation)
    <2>1. CASE WriteJournal(p)
      <3>1. op[p] \in Beginning
        BY <1>1, <2>1, OperationCases DEF WriteJournal
      <3> QED
        BY <1>1, <2>1, <3>1, ConstantsAssumption DEF WriteJournal, Holds, Beginning
    <2>2. CASE RemoveJournal(p)
      BY <1>1, <2>2 DEF RemoveJournal, Holds
    <2> QED
      BY <2>1, <2>2
  <1> QED
    BY <1>2, <1>3 DEF Promise!Seal

\* An object that is rewritten has the same data.
LEMMA RewriteRefines ==
  ASSUME Alone, NEW p \in Procs, RewriteObject(p)
  PROVE  UNCHANGED Promise!vars
  <1> DEFINE o == op[p]
  <1>1. o \in Rewriting /\ Holds(o)
    BY OperationCases DEF RewriteObject, Alone, TypeOK, AloneInv, HeldFits
  <1>2. /\ o.path \in Paths /\ o.object # NoObject /\ objects[o.path] # NoObject
        /\ o.object.data = objects[o.path].data
    BY <1>1, ConstantsAssumption DEF RewriteObject, Holds, Rewriting
  <1>3. objects' = [objects EXCEPT ![o.path] = o.object] /\ UNCHANGED <<rotation, pending>>
    BY DEF RewriteObject
  <1> QED
    BY <1>2, <1>3 DEF Promise!vars, Alone, TypeOK

\* No other step changes what the store promises.
LEMMA OtherRefines ==
  ASSUME UNCHANGED <<objects, pending, rotation>>
  PROVE  UNCHANGED Promise!vars
  BY DEF Promise!vars

\* Every step of a command is a step of the promise, or none.
LEMMA StepKeepsPromise ==
  ASSUME Alone, [Next]_vars
  PROVE  [Promise!Next]_(Promise!vars)
  <1>1. CASE UNCHANGED vars
    BY <1>1, OtherRefines DEF vars, disk
  <1>2. CASE Next
    <2> PICK p \in Procs :
          \/ Step(p) \/ Crash(p) \/ ResumeRotation(p)
          \/ \E k \in Keys :
               \/ BeginRotation(p, k) \/ AttestKeyDestruction(p, k)
               \/ \E x \in Paths : OpenDelete(p, x, k) \/ \E d \in Data : OpenPut(p, x, d, k)
      BY <1>2 DEF Next
    <2>1. CASE WritePut(p)
      BY <2>1, WriteRefines DEF Promise!Next, Promise!Put
    <2>2. CASE JournalDelete(p)
      BY <2>2, JournalRefines DEF Promise!Next
    <2>3. CASE Unlink(p)
      BY <2>3, UnlinkRefines DEF Promise!Next, Promise!Erase
    <2>4. CASE ClearPending(p)
      BY <2>4, ClearRefines DEF Promise!Next, Promise!Finish
    <2>5. CASE WriteJournal(p) \/ RemoveJournal(p)
      BY <2>5, SealRefines DEF Promise!Next
    <2>6. CASE RewriteObject(p)
      BY <2>6, RewriteRefines
    <2>7. CASE \/ SealPut(p) \/ CheckDelete(p) \/ ReadLog(p) \/ AppendReceipt(p)
               \/ LoadRotation(p) \/ CommitManifest(p) \/ CheckCommitted(p)
               \/ \E x \in Paths : ReadObject(p, x)
      BY <2>7, OtherRefines DEF SealPut, CheckDelete, ReadLog, AppendReceipt, LoadRotation,
         CommitManifest, CheckCommitted, ReadObject, Fail, disk
    <2>8. CASE \/ Crash(p) \/ ResumeRotation(p)
               \/ \E k \in Keys :
                    \/ BeginRotation(p, k) \/ AttestKeyDestruction(p, k)
                    \/ \E x \in Paths : OpenDelete(p, x, k) \/ \E d \in Data : OpenPut(p, x, d, k)
      BY <2>8, OtherRefines DEF Crash, ResumeRotation, BeginRotation, AttestKeyDestruction,
         OpenDelete, OpenPut, disk
    <2> QED
      BY <2>1, <2>2, <2>3, <2>4, <2>5, <2>6, <2>7, <2>8 DEF Step
  <1> QED
    BY <1>1, <1>2

\* The store keeps the promise of ObjectStore: put and delete alone change what
\* it holds, a doomed path takes no data until its deletion is recorded, and a
\* key rotation changes no data, wherever any of them is interrupted.
THEOREM StoreKeepsPromise == ASSUME ~ Overlap PROVE Spec => KeepsPromise
  <1>1. Init => Promise!Init
    BY DEF Init, Promise!Init
  <1>2. Alone /\ [Next]_vars => [Promise!Next]_(Promise!vars)
    BY StepKeepsPromise
  <1> QED
    BY <1>1, <1>2, AlwaysAlone, PTL DEF Spec, KeepsPromise, Promise!Spec

=============================================================================
