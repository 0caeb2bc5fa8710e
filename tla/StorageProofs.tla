--------------------------- MODULE StorageProofs ---------------------------
(***************************************************************************)
(* Theorems about Storage, for every set of processes, paths, keys and     *)
(* data, with and without Overlap.                                         *)
(***************************************************************************)
EXTENDS Storage, TLAPS

Sealing == [at : {"seal"}, path : Paths, data : Data, key : Keys]
Writing == [at : {"put"}, path : Paths, object : Envelope]
Journalling == [at : {"journal"}, path : Paths, key : Keys]
Holding == [at : DeletionSteps, path : Paths, receipt : Receipt]
Appending == [at : {"append"}, path : Paths, receipt : Receipt, log : SUBSET Receipt]
Beginning == [at : {"begin"}, journal : Rotation]
Resuming == [at : {"resume"}, from : Keys, to : Keys]
Finishing == [at : {"finish"}]
Walking == [at : {"rotate", "cleanup"}, journal : Rotation, read : Manifest, todo : SUBSET Paths]
Rewriting == [at : {"rewrite"}, journal : Rotation, read : Manifest, todo : SUBSET Paths,
              path : Paths, object : Envelope]

\* The step a process is at determines what it holds.
LEMMA OperationCases ==
  ASSUME NEW o \in Operation
  PROVE  /\ o.at = "seal" => o \in Sealing
         /\ o.at = "put" => o \in Writing
         /\ o.at = "journal" => o \in Journalling
         /\ o.at \in DeletionSteps => o \in Holding
         /\ o.at = "append" => o \in Appending
         /\ o.at = "begin" => o \in Beginning
         /\ o.at = "resume" => o \in Resuming
         /\ o.at = "finish" => o \in Finishing
         /\ o.at \in {"rotate", "cleanup"} => o \in Walking
         /\ o.at = "rewrite" => o \in Rewriting
  BY DEF Operation, Idle, Putting, Deleting, Rotating, DeletionSteps, Sealing, Writing,
         Journalling, Holding, Appending, Beginning, Resuming, Finishing, Walking, Rewriting

\* Every kind of holding is one of a process.
LEMMA OperationKinds ==
  /\ Idle \in Operation
  /\ Sealing \subseteq Operation /\ Writing \subseteq Operation
  /\ Journalling \subseteq Operation /\ Holding \subseteq Operation
  /\ Appending \subseteq Operation /\ Beginning \subseteq Operation
  /\ Resuming \subseteq Operation /\ Finishing \subseteq Operation
  /\ Walking \subseteq Operation /\ Rewriting \subseteq Operation
  BY DEF Operation, Putting, Deleting, Rotating, Sealing, Writing,
         Journalling, Holding, Appending, Beginning, Resuming, Finishing, Walking, Rewriting

\* A process may go to any step that is one of an operation.
LEMMA GotoType ==
  ASSUME TypeOK, NEW p \in Procs, NEW step \in Operation, Goto(p, step)
  PROVE  op' \in [Procs -> Operation]
  BY DEF TypeOK, Goto

\* A failing command changes nothing but its own process.
LEMMA FailType ==
  ASSUME TypeOK, NEW p \in Procs, Fail(p)
  PROVE  TypeOK'
  <1>1. op' \in [Procs -> Operation]
    BY GotoType, OperationKinds DEF Fail
  <1> QED
    BY <1>1 DEF TypeOK, Fail, disk, counters

\* An encryption makes a new envelope.
LEMMA EncryptedType ==
  ASSUME TypeOK, CanEncrypt, NEW k \in Keys, NEW d \in Data
  PROVE  /\ Encrypted(k, d) \in Envelope
         /\ made' \in 0 .. MaxObjects
  BY ConstantsAssumption DEF TypeOK, CanEncrypt, Encrypted, Envelope, Ids

\* The receipt for an object that is there is a receipt.
LEMMA ReceiptForType ==
  ASSUME TypeOK, NEW x \in Paths, objects[x] # NoObject
  PROVE  ReceiptFor(x) \in Receipt
  BY DEF TypeOK, ReceiptFor, Receipt, Envelope

\* A store that was just initialised has its type (init_encrypted_store).
LEMMA InitType == Init => TypeOK
  <1> SUFFICES ASSUME Init PROVE TypeOK
    OBVIOUS
  <1>1. manifest \in Manifest
    BY DEF Init, Manifest
  <1>2. op \in [Procs -> Operation]
    BY OperationKinds DEF Init
  <1> QED
    BY <1>1, <1>2, ConstantsAssumption DEF Init, TypeOK

\* The steps of put keep the type.
LEMMA PutType ==
  ASSUME TypeOK, NEW p \in Procs,
         SealPut(p) \/ WritePut(p) \/
           \E x \in Paths, d \in Data, k \in Keys : OpenPut(p, x, d, k)
  PROVE  TypeOK'
  <1> op[p] \in Operation
    BY DEF TypeOK
  <1>1. CASE SealPut(p)
    <2>1. op[p] \in Sealing
      BY <1>1, OperationCases DEF SealPut
    <2>2. CASE Fail(p)
      BY <2>2, FailType
    <2>3. CASE ~ Fail(p)
      <3> DEFINE step == [at |-> "put", path |-> op[p].path,
                          object |-> Encrypted(op[p].key, op[p].data)]
      <3>1. CanEncrypt /\ Goto(p, step) /\ UNCHANGED <<disk, removed, faults>>
        BY <1>1, <2>3 DEF SealPut
      <3>2. Encrypted(op[p].key, op[p].data) \in Envelope /\ made' \in 0 .. MaxObjects
        BY <3>1, <2>1, EncryptedType DEF Sealing
      <3>3. step \in Writing
        BY <3>2, <2>1 DEF Writing, Sealing
      <3>4. op' \in [Procs -> Operation]
        BY <3>1, <3>3, GotoType, OperationKinds
      <3> QED
        BY <3>1, <3>2, <3>4 DEF TypeOK, disk
    <2> QED
      BY <2>2, <2>3
  <1>2. CASE WritePut(p)
    <2>1. op[p] \in Writing
      BY <1>2, OperationCases DEF WritePut
    <2>2. op' \in [Procs -> Operation]
      BY <1>2, GotoType, OperationKinds DEF WritePut
    <2>3. objects' \in [Paths -> Envelope \cup {NoObject}]
      BY <1>2, <2>1 DEF WritePut, Writing, TypeOK
    <2> QED
      BY <1>2, <2>2, <2>3 DEF WritePut, TypeOK, counters
  <1>3. CASE \E x \in Paths, d \in Data, k \in Keys : OpenPut(p, x, d, k)
    <2> PICK x \in Paths, d \in Data, k \in Keys : OpenPut(p, x, d, k)
      BY <1>3
    <2>1. [at |-> "seal", path |-> x, data |-> d, key |-> k] \in Sealing
      BY DEF Sealing
    <2>2. op' \in [Procs -> Operation]
      BY <2>1, GotoType, OperationKinds DEF OpenPut
    <2> QED
      BY <2>2 DEF OpenPut, TypeOK, disk, counters
  <1> QED
    BY <1>1, <1>2, <1>3

\* The steps of delete keep the type.
LEMMA DeleteType ==
  ASSUME TypeOK, NEW p \in Procs,
         \/ JournalDelete(p) \/ CheckDelete(p) \/ Unlink(p)
         \/ ReadLog(p) \/ AppendReceipt(p) \/ ClearPending(p)
         \/ \E x \in Paths, k \in Keys : OpenDelete(p, x, k)
  PROVE  TypeOK'
  <1> DEFINE o == op[p]
  <1>0. o \in Operation
    BY DEF TypeOK
  <1>1. CASE \E x \in Paths, k \in Keys : OpenDelete(p, x, k)
    <2> PICK x \in Paths, k \in Keys : OpenDelete(p, x, k)
      BY <1>1
    <2>1. [at |-> "journal", path |-> x, key |-> k] \in Journalling
      BY DEF Journalling
    <2>2. op' \in [Procs -> Operation]
      BY <2>1, GotoType, OperationKinds DEF OpenDelete
    <2> QED
      BY <2>2 DEF OpenDelete, TypeOK, disk, counters
  <1>2. CASE JournalDelete(p)
    <2>1. o \in Journalling
      BY <1>0, <1>2, OperationCases DEF JournalDelete
    <2>2. CASE Fail(p)
      BY <2>2, FailType
    <2>3. CASE pending[o.path] # NoReceipt
      <3> DEFINE step == [at |-> "check", path |-> o.path, receipt |-> pending[o.path]]
      <3>1. Goto(p, step) /\ UNCHANGED <<disk, counters>>
        BY <1>2, <2>3 DEF JournalDelete
      <3>2. step \in Holding
        BY <2>1, <2>3 DEF TypeOK, Journalling, Holding, DeletionSteps
      <3>3. op' \in [Procs -> Operation]
        BY <3>1, <3>2, GotoType, OperationKinds
      <3> QED
        BY <3>1, <3>3 DEF TypeOK, disk, counters
    <2>4. CASE ~ Fail(p) /\ pending[o.path] = NoReceipt
      <3> DEFINE step == [at |-> "check", path |-> o.path, receipt |-> ReceiptFor(o.path)]
      <3>1. /\ Goto(p, step) /\ objects[o.path] # NoObject
            /\ pending' = [pending EXCEPT ![o.path] = ReceiptFor(o.path)]
            /\ UNCHANGED <<manifest, objects, rotation, deletions, attested, counters>>
        BY <1>2, <2>4 DEF JournalDelete, Decrypts
      <3>2. ReceiptFor(o.path) \in Receipt
        BY <2>1, <3>1, ReceiptForType DEF Journalling
      <3>3. step \in Holding
        BY <2>1, <3>2 DEF Journalling, Holding, DeletionSteps
      <3>4. op' \in [Procs -> Operation]
        BY <3>1, <3>3, GotoType, OperationKinds
      <3>5. pending' \in [Paths -> Receipt \cup {NoReceipt}]
        BY <3>1, <3>2, <2>1 DEF TypeOK, Journalling
      <3> QED
        BY <3>1, <3>4, <3>5 DEF TypeOK, counters
    <2> QED
      BY <2>2, <2>3, <2>4
  <1>3. CASE CheckDelete(p)
    <2>1. o \in Holding
      BY <1>0, <1>3, OperationCases DEF CheckDelete, DeletionSteps
    <2>2. CASE Fail(p)
      BY <2>2, FailType
    <2>3. CASE ~ Fail(p)
      <3>1. PICK s \in {"log", "unlink"} :
              Goto(p, [o EXCEPT !.at = s]) /\ UNCHANGED <<disk, counters>>
        BY <1>3, <2>3 DEF CheckDelete, DeletionOrder
      <3>2. [o EXCEPT !.at = s] \in Holding
        BY <2>1 DEF Holding, DeletionSteps
      <3>3. op' \in [Procs -> Operation]
        BY <3>1, <3>2, GotoType, OperationKinds
      <3> QED
        BY <3>1, <3>3 DEF TypeOK, disk, counters
    <2> QED
      BY <2>2, <2>3
  <1>4. CASE Unlink(p)
    <2>1. o \in Holding
      BY <1>0, <1>4, OperationCases DEF Unlink, DeletionSteps
    <2>2. CASE Fail(p)
      BY <2>2, FailType
    <2>3. CASE ~ Fail(p)
      <3>1. /\ objects[o.path] # NoObject
            /\ objects' = [objects EXCEPT ![o.path] = NoObject]
            /\ removed' = removed \cup {ReceiptFor(o.path)}
            /\ Goto(p, [o EXCEPT !.at = "log"])
            /\ UNCHANGED <<manifest, rotation, pending, deletions, attested, made, faults>>
        BY <1>4, <2>3 DEF Unlink, DeletionOrder
      <3>2. [o EXCEPT !.at = "log"] \in Holding
        BY <2>1 DEF Holding, DeletionSteps
      <3>3. op' \in [Procs -> Operation]
        BY <3>1, <3>2, GotoType, OperationKinds
      <3>4. ReceiptFor(o.path) \in Receipt
        BY <2>1, <3>1, ReceiptForType DEF Holding
      <3>5. objects' \in [Paths -> Envelope \cup {NoObject}]
        BY <3>1, <2>1 DEF TypeOK, Holding
      <3> QED
        BY <3>1, <3>3, <3>4, <3>5 DEF TypeOK
    <2> QED
      BY <2>2, <2>3
  <1>5. CASE ReadLog(p)
    <2>1. o \in Holding
      BY <1>0, <1>5, OperationCases DEF ReadLog, DeletionSteps
    <2>2. [at |-> "append", path |-> o.path, receipt |-> o.receipt, log |-> deletions]
            \in Appending
      BY <2>1 DEF TypeOK, Holding, Appending
    <2>3. op' \in [Procs -> Operation]
      BY <1>5, <2>2, GotoType, OperationKinds DEF ReadLog
    <2> QED
      BY <1>5, <2>3 DEF ReadLog, TypeOK, disk, counters
  <1>6. CASE AppendReceipt(p)
    <2>1. o \in Appending
      BY <1>0, <1>6, OperationCases DEF AppendReceipt
    <2>2. [at |-> "clear", path |-> o.path, receipt |-> o.receipt] \in Holding
      BY <2>1 DEF Appending, Holding, DeletionSteps
    <2>3. op' \in [Procs -> Operation]
      BY <1>6, <2>2, GotoType, OperationKinds DEF AppendReceipt, DeletionOrder
    <2>4. deletions' \subseteq Receipt
      BY <1>6, <2>1 DEF AppendReceipt, Appending, TypeOK
    <2> QED
      BY <1>6, <2>3, <2>4 DEF AppendReceipt, TypeOK, counters
  <1>7. CASE ClearPending(p)
    <2>1. o \in Holding
      BY <1>0, <1>7, OperationCases DEF ClearPending, DeletionSteps
    <2>2. op' \in [Procs -> Operation]
      BY <1>7, GotoType, OperationKinds DEF ClearPending
    <2>3. pending' \in [Paths -> Receipt \cup {NoReceipt}]
      BY <1>7, <2>1 DEF ClearPending, TypeOK, Holding
    <2> QED
      BY <1>7, <2>2, <2>3 DEF ClearPending, TypeOK, counters
  <1> QED
    BY <1>1, <1>2, <1>3, <1>4, <1>5, <1>6, <1>7

\* The steps of rotate-key and attest-key-destruction keep the type.
LEMMA RotationType ==
  ASSUME TypeOK, NEW p \in Procs,
         \/ WriteJournal(p) \/ LoadRotation(p) \/ RewriteObject(p) \/ CommitManifest(p)
         \/ CheckCommitted(p) \/ RemoveJournal(p) \/ ResumeRotation(p)
         \/ (\E x \in Paths : ReadObject(p, x))
         \/ \E k \in Keys : BeginRotation(p, k) \/ AttestKeyDestruction(p, k)
  PROVE  TypeOK'
  <1> DEFINE o == op[p]
  <1>0. o \in Operation
    BY DEF TypeOK
  <1>1. CASE \E k \in Keys : BeginRotation(p, k)
    <2> PICK k \in Keys : BeginRotation(p, k)
      BY <1>1
    <2> DEFINE j == [from |-> manifest.active, to |-> k, paths |-> Present]
    <2>1. j \in Rotation
      BY DEF TypeOK, Rotation, Manifest, Present
    <2>2. [at |-> "begin", journal |-> j] \in Beginning
      BY <2>1 DEF Beginning
    <2>3. op' \in [Procs -> Operation]
      BY <2>2, GotoType, OperationKinds DEF BeginRotation
    <2> QED
      BY <2>3 DEF BeginRotation, TypeOK, disk, counters
  <1>2. CASE \E k \in Keys : AttestKeyDestruction(p, k)
    BY <1>2 DEF AttestKeyDestruction, TypeOK, counters
  <1>3. CASE ResumeRotation(p)
    <2>1. [at |-> "resume", from |-> rotation.from, to |-> rotation.to] \in Resuming
      BY <1>3 DEF ResumeRotation, TypeOK, Rotation, Resuming
    <2>2. op' \in [Procs -> Operation]
      BY <1>3, <2>1, GotoType, OperationKinds DEF ResumeRotation
    <2> QED
      BY <1>3, <2>2 DEF ResumeRotation, TypeOK, disk, counters
  <1>4. CASE WriteJournal(p)
    <2>1. o \in Beginning
      BY <1>0, <1>4, OperationCases DEF WriteJournal
    <2>2. [at |-> "resume", from |-> o.journal.from, to |-> o.journal.to] \in Resuming
      BY <2>1 DEF Beginning, Rotation, Resuming
    <2>3. op' \in [Procs -> Operation]
      BY <1>4, <2>2, GotoType, OperationKinds DEF WriteJournal
    <2>4. rotation' \in Rotation
      BY <1>4, <2>1 DEF WriteJournal, Beginning
    <2> QED
      BY <1>4, <2>3, <2>4 DEF WriteJournal, TypeOK, counters
  <1>5. CASE LoadRotation(p)
    <2>1. CASE Fail(p)
      BY <2>1, FailType
    <2>2. CASE ~ Fail(p)
      <3>1. PICK s \in {"rotate", "cleanup"} :
              /\ rotation # NoRotation
              /\ Goto(p, [at |-> s, journal |-> rotation, read |-> manifest,
                          todo |-> rotation.paths])
              /\ UNCHANGED <<disk, counters>>
        BY <1>5, <2>2 DEF LoadRotation
      <3>2. [at |-> s, journal |-> rotation, read |-> manifest, todo |-> rotation.paths]
              \in Walking
        BY <3>1 DEF TypeOK, Rotation, Walking
      <3>3. op' \in [Procs -> Operation]
        BY <3>1, <3>2, GotoType, OperationKinds
      <3> QED
        BY <3>1, <3>3 DEF TypeOK, disk, counters
    <2> QED
      BY <2>1, <2>2
  <1>6. CASE \E x \in Paths : ReadObject(p, x)
    <2> PICK x \in Paths : ReadObject(p, x)
      BY <1>6
    <2>1. o \in Walking
      BY <1>0, OperationCases DEF ReadObject
    <2>2. CASE Fail(p)
      BY <2>2, FailType
    <2>3. CASE ~ Fail(p) /\ Decrypts(x, o.journal.to)
      <3>1. Goto(p, [o EXCEPT !.todo = @ \ {x}]) /\ UNCHANGED <<disk, counters>>
        BY <2>3 DEF ReadObject
      <3>2. [o EXCEPT !.todo = @ \ {x}] \in Walking
        BY <2>1 DEF Walking
      <3>3. op' \in [Procs -> Operation]
        BY <3>1, <3>2, GotoType, OperationKinds
      <3> QED
        BY <3>1, <3>3 DEF TypeOK, disk, counters
    <2>4. CASE ~ Fail(p) /\ ~ Decrypts(x, o.journal.to)
      <3> DEFINE e == Encrypted(o.journal.to, objects[x].data)
                 step == [at |-> "rewrite", journal |-> o.journal, read |-> o.read,
                          todo |-> o.todo, path |-> x, object |-> e]
      <3>1. /\ Decrypts(x, o.journal.from) /\ CanEncrypt /\ Goto(p, step)
            /\ UNCHANGED <<disk, removed, faults>>
        BY <2>4 DEF ReadObject
      <3>2. o.journal.to \in Keys /\ objects[x].data \in Data
        BY <2>1, <3>1 DEF Walking, Rotation, Decrypts, TypeOK, Envelope
      <3>3. e \in Envelope /\ made' \in 0 .. MaxObjects
        BY <3>1, <3>2, EncryptedType
      <3>4. step \in Rewriting
        BY <2>1, <3>3 DEF Walking, Rewriting
      <3>5. op' \in [Procs -> Operation]
        BY <3>1, <3>4, GotoType, OperationKinds
      <3> QED
        BY <3>1, <3>3, <3>5 DEF TypeOK, disk
    <2> QED
      BY <2>2, <2>3, <2>4
  <1>7. CASE RewriteObject(p)
    <2>1. o \in Rewriting
      BY <1>0, <1>7, OperationCases DEF RewriteObject
    <2>2. [at |-> "rotate", journal |-> o.journal, read |-> o.read,
           todo |-> o.todo \ {o.path}] \in Walking
      BY <2>1 DEF Rewriting, Walking
    <2>3. op' \in [Procs -> Operation]
      BY <1>7, <2>2, GotoType, OperationKinds DEF RewriteObject
    <2>4. objects' \in [Paths -> Envelope \cup {NoObject}]
      BY <1>7, <2>1 DEF RewriteObject, Rewriting, TypeOK
    <2> QED
      BY <1>7, <2>3, <2>4 DEF RewriteObject, TypeOK, counters
  <1>8. CASE CommitManifest(p)
    <2>1. o \in Walking
      BY <1>0, <1>8, OperationCases DEF CommitManifest
    <2>2. [at |-> "finish"] \in Finishing
      BY DEF Finishing
    <2>3. op' \in [Procs -> Operation]
      BY <1>8, <2>2, GotoType, OperationKinds DEF CommitManifest
    <2>4. manifest' \in Manifest
      BY <1>8, <2>1 DEF CommitManifest, Walking, Rotation, Manifest
    <2> QED
      BY <1>8, <2>3, <2>4 DEF CommitManifest, TypeOK, counters
  <1>9. CASE CheckCommitted(p)
    <2>1. CASE Fail(p)
      BY <2>1, FailType
    <2>2. CASE ~ Fail(p)
      <3>1. Goto(p, [at |-> "finish"]) /\ UNCHANGED <<disk, counters>>
        BY <1>9, <2>2 DEF CheckCommitted
      <3>2. [at |-> "finish"] \in Finishing
        BY DEF Finishing
      <3>3. op' \in [Procs -> Operation]
        BY <3>1, <3>2, GotoType, OperationKinds
      <3> QED
        BY <3>1, <3>3 DEF TypeOK, disk, counters
    <2> QED
      BY <2>1, <2>2
  <1>10. CASE RemoveJournal(p)
    <2>1. op' \in [Procs -> Operation]
      BY <1>10, GotoType, OperationKinds DEF RemoveJournal
    <2> QED
      BY <1>10, <2>1 DEF RemoveJournal, TypeOK, counters
  <1> QED
    BY <1>1, <1>2, <1>3, <1>4, <1>5, <1>6, <1>7, <1>8, <1>9, <1>10

\* A crash keeps the type.
LEMMA CrashType ==
  ASSUME TypeOK, NEW p \in Procs, Crash(p)
  PROVE  TypeOK'
  <1>1. op' \in [Procs -> Operation]
    BY GotoType, OperationKinds DEF Crash
  <1>2. faults' \in 0 .. MaxFaults
    BY ConstantsAssumption DEF Crash, TypeOK
  <1> QED
    BY <1>1, <1>2 DEF TypeOK, Crash, disk

\* Every step keeps the type.
LEMMA NextType == TypeOK /\ [Next]_vars => TypeOK'
  <1> SUFFICES ASSUME TypeOK, [Next]_vars PROVE TypeOK'
    OBVIOUS
  <1>1. CASE UNCHANGED vars
    BY <1>1 DEF vars, disk, counters, TypeOK
  <1>2. CASE Next
    <2> PICK p \in Procs :
          \/ Step(p) \/ Crash(p) \/ ResumeRotation(p)
          \/ \E k \in Keys :
               \/ BeginRotation(p, k) \/ AttestKeyDestruction(p, k)
               \/ \E x \in Paths : OpenDelete(p, x, k) \/ \E d \in Data : OpenPut(p, x, d, k)
      BY <1>2 DEF Next
    <2>1. CASE Step(p)
      BY <2>1, PutType, DeleteType, RotationType DEF Step
    <2>2. CASE Crash(p)
      BY <2>2, CrashType
    <2>3. CASE \E k \in Keys, x \in Paths : OpenDelete(p, x, k)
      BY <2>3, DeleteType
    <2>4. CASE \E k \in Keys, x \in Paths, d \in Data : OpenPut(p, x, d, k)
      BY <2>4, PutType
    <2>5. CASE \/ ResumeRotation(p)
               \/ \E k \in Keys : BeginRotation(p, k) \/ AttestKeyDestruction(p, k)
      BY <2>5, RotationType
    <2> QED
      BY <2>1, <2>2, <2>3, <2>4, <2>5
  <1> QED
    BY <1>1, <1>2

\* The store's files and what the processes hold are always of their kinds,
\* however the commands of tools/storage.py overlap and crash.
THEOREM StorageTypeCorrect == Spec => []TypeOK
  <1>1. Init => TypeOK
    BY InitType
  <1>2. TypeOK /\ [Next]_vars => TypeOK'
    BY NextType
  <1> QED
    BY <1>1, <1>2, PTL DEF Spec

-----------------------------------------------------------------------------
(* ReceiptMeansGone is not inductive: a process may hold an object that is *)
(* not yet in the store, and a receipt that is not yet in the file.  The   *)
(* strengthening says that the id of an object about to be written is new, *)
(* and that what a process is about to record is true already.             *)

\* The id of the object process p is about to write.
HeldIds(p) == IF op[p].at \in {"put", "rewrite"} THEN {op[p].object.id} ELSE {}

\* The receipts process p is about to write, for objects that are gone.
Claimed(p) ==
  IF op[p].at = "log" THEN {op[p].receipt}
  ELSE IF op[p].at = "append" THEN {op[p].receipt} \cup op[p].log ELSE {}

\* The receipt a deletion carries.
Carried(p) ==
  IF op[p].at \in {"check", "unlink", "clear"} THEN {op[p].receipt} ELSE Claimed(p)

\* Every object id that a file or a receipt in the making names.
Seen ==
  {r.object : r \in deletions} \cup
  {pending[x].object : x \in {y \in Paths : pending[y] # NoReceipt}} \cup
  {objects[x].id : x \in Present} \cup
  {r.object : r \in UNION {Carried(p) : p \in Procs}}

\* The object of a receipt is no longer at its path.
Gone(r) == objects[r.path] # NoObject => objects[r.path].id # r.object

\* Identities that are held but not yet written are new, and no two processes hold the same.
HeldAreNew == \A p \in Procs : \A i \in HeldIds(p) : i \notin Seen /\ i <= made
HeldDiffer == \A p, q \in Procs : p # q => HeldIds(p) \cap HeldIds(q) = {}
SeenAreMade == \A i \in Seen : i <= made
\* Every receipt, written or claimed by a running deletion, is true.
ClaimsHold ==
  /\ \A r \in deletions : Gone(r)
  /\ \A p \in Procs : \A r \in Claimed(p) : Gone(r)

\* A receipt is for the path it is handled at.
Delivers(o) == o.at \in DeletionSteps \cup {"append"} => o.receipt.path = o.path

\* A receipt is kept at its object's path.
PathsAgree ==
  /\ \A x \in Paths : pending[x] # NoReceipt => pending[x].path = x
  /\ \A p \in Procs : Delivers(op[p])

\* The inductive invariant.
GoneInv == HeldAreNew /\ HeldDiffer /\ SeenAreMade /\ ClaimsHold /\ PathsAgree

\* What names an id has been seen.
LEMMA SeenBy ==
  ASSUME TypeOK
  PROVE  /\ \A r \in deletions : r.object \in Seen
         /\ \A x \in Paths : pending[x] # NoReceipt => pending[x].object \in Seen
         /\ \A x \in Paths : objects[x] # NoObject => objects[x].id \in Seen
         /\ \A p \in Procs : \A r \in Carried(p) : r.object \in Seen
  BY DEF Seen, Present

\* The ids a process holds are numbers.
LEMMA HeldType ==
  ASSUME TypeOK, NEW p \in Procs
  PROVE  /\ HeldIds(p) \subseteq Ids
         /\ Claimed(p) \subseteq Receipt /\ Carried(p) \subseteq Receipt
         /\ Claimed(p) \subseteq Carried(p)
  <1> op[p] \in Operation
    BY DEF TypeOK
  <1>1. HeldIds(p) \subseteq Ids
    BY OperationCases DEF HeldIds, Writing, Rewriting, Envelope
  <1>2. CASE op[p].at \in DeletionSteps
    <2>1. op[p] \in Holding
      BY <1>2, OperationCases
    <2> QED
      BY <1>1, <1>2, <2>1 DEF Holding, DeletionSteps, Claimed, Carried
  <1>3. CASE op[p].at = "append"
    <2>1. op[p] \in Appending
      BY <1>3, OperationCases
    <2> QED
      BY <1>1, <1>3, <2>1 DEF Appending, Claimed, Carried
  <1>4. CASE op[p].at \notin DeletionSteps /\ op[p].at # "append"
    BY <1>1, <1>4 DEF DeletionSteps, Claimed, Carried
  <1> QED
    BY <1>2, <1>3, <1>4

\* A step of process p that names only ids it has seen, writes only the object
\* it held, takes up only a new id, and claims only what holds.
LEMMA StepKeepsGone ==
  ASSUME TypeOK, TypeOK', GoneInv, NEW p \in Procs,
         \A q \in Procs \ {p} : op'[q] = op[q],
         made' >= made,
         \A i \in HeldIds(p)' : i > made /\ i <= made',
         \A r \in deletions' \cup Carried(p)' : r.object \in Seen,
         \A x \in Paths : pending'[x] # NoReceipt => pending'[x].object \in Seen,
         \A x \in Paths : objects'[x] # NoObject =>
           objects'[x] = objects[x] \/ objects'[x].id \in HeldIds(p),
         \A r \in deletions' \cup Claimed(p)' :
           r \in deletions \cup Claimed(p) \/ Gone(r)',
         \A x \in Paths : pending'[x] # NoReceipt => pending'[x].path = x,
         Delivers(op'[p])
  PROVE  GoneInv'
  <1>1. \A q \in Procs \ {p} :
          HeldIds(q)' = HeldIds(q) /\ Claimed(q)' = Claimed(q) /\ Carried(q)' = Carried(q)
    BY DEF HeldIds, Claimed, Carried
  <1>2. made \in Nat /\ made' \in Nat
    BY ConstantsAssumption DEF TypeOK
  <1>3. Seen' \subseteq Seen \cup HeldIds(p)
    <2> SUFFICES ASSUME NEW i \in Seen' PROVE i \in Seen \cup HeldIds(p)
      OBVIOUS
    <2>1. CASE \E r \in deletions' : i = r.object
      BY <2>1
    <2>2. CASE \E x \in Paths : pending'[x] # NoReceipt /\ i = pending'[x].object
      BY <2>2
    <2>3. CASE \E x \in Paths : objects'[x] # NoObject /\ i = objects'[x].id
      BY <2>3, SeenBy
    <2>4. CASE \E q \in Procs : \E r \in Carried(q)' : i = r.object
      BY <2>4, <1>1, SeenBy
    <2> QED
      BY <2>1, <2>2, <2>3, <2>4 DEF Seen, Present
  <1>4. \A i \in Seen \cup HeldIds(p) : i <= made
    BY DEF GoneInv, HeldAreNew, SeenAreMade
  <1>5. HeldIds(p) \subseteq Nat /\ Seen \subseteq Nat
    <2>1. \A r \in Receipt : r.object \in Nat
      BY DEF Receipt, Ids
    <2>2. \A x \in Present : objects[x].id \in Nat
      BY DEF TypeOK, Present, Envelope, Ids
    <2>3. \A q \in Procs : Carried(q) \subseteq Receipt /\ HeldIds(q) \subseteq Ids
      BY HeldType
    <2>4. \A x \in Paths : pending[x] # NoReceipt => pending[x] \in Receipt
      BY DEF TypeOK
    <2>5. deletions \subseteq Receipt
      BY DEF TypeOK
    <2>6. Seen \subseteq Nat
      BY <2>1, <2>2, <2>3, <2>4, <2>5 DEF Seen
    <2>7. Ids \subseteq Nat
      BY ConstantsAssumption DEF Ids
    <2> QED
      BY <2>3, <2>6, <2>7
  <1>6. SeenAreMade'
    <2> SUFFICES ASSUME NEW i \in Seen' PROVE i <= made'
      BY DEF SeenAreMade
    <2>1. i \in Nat /\ i <= made
      BY <1>3, <1>4, <1>5
    <2> QED
      BY <2>1, <1>2
  <1>7. HeldAreNew'
    <2> SUFFICES ASSUME NEW q \in Procs, NEW i \in HeldIds(q)'
                 PROVE  i \notin Seen' /\ i <= made'
      BY DEF HeldAreNew
    <2>1. CASE q = p
      <3>1. op'[p] \in Operation
        BY DEF TypeOK
      <3>2. i \in Nat
        BY <2>1, <3>1, OperationCases DEF HeldIds, Writing, Rewriting, Envelope, Ids
      <3>3. i > made /\ i <= made'
        BY <2>1
      <3> QED
        BY <3>2, <3>3, <1>2, <1>3, <1>4, <1>5
    <2>2. CASE q # p
      <3>1. i \in HeldIds(q) /\ i \in Nat
        BY <2>2, <1>1, HeldType DEF Ids
      <3> QED
        BY <3>1, <2>2, <1>2, <1>3 DEF GoneInv, HeldAreNew, HeldDiffer
    <2> QED
      BY <2>1, <2>2
  <1>8. HeldDiffer'
    <2> SUFFICES ASSUME NEW q \in Procs, NEW r \in Procs, q # r,
                        NEW i \in HeldIds(q)', i \in HeldIds(r)'
                 PROVE  FALSE
      BY DEF HeldDiffer
    <2>1. \A s \in Procs \ {p} : \A j \in HeldIds(s)' : j \in HeldIds(s) /\ j <= made /\ j \in Nat
      BY <1>1, HeldType DEF GoneInv, HeldAreNew, Ids
    <2>2. CASE q = p \/ r = p
      BY <2>1, <2>2, <1>2
    <2>3. CASE q # p /\ r # p
      BY <2>1, <2>3 DEF GoneInv, HeldDiffer
    <2> QED
      BY <2>2, <2>3
  <1>9. ClaimsHold'
    <2>1. ASSUME NEW q \in Procs, NEW r \in deletions \cup Claimed(q), r \in Receipt
          PROVE  Gone(r)'
      <3>1. r.path \in Paths
        BY <2>1 DEF Receipt
      <3>2. r.object \in Seen /\ Gone(r)
        BY <2>1, SeenBy, HeldType DEF GoneInv, ClaimsHold
      <3> QED
        BY <3>1, <3>2 DEF Gone, GoneInv, HeldAreNew
    <2>2. deletions \subseteq Receipt /\ \A q \in Procs : Claimed(q) \subseteq Receipt
      BY HeldType DEF TypeOK
    <2>3. ASSUME NEW r \in deletions' PROVE Gone(r)'
      BY <2>1, <2>2
    <2>4. ASSUME NEW q \in Procs, NEW r \in Claimed(q)' PROVE Gone(r)'
      <3>1. CASE q = p
        BY <3>1, <2>1, <2>2
      <3>2. CASE q # p
        BY <3>2, <1>1, <2>1, <2>2
      <3> QED
        BY <3>1, <3>2
    <2> QED
      BY <2>3, <2>4 DEF ClaimsHold
  <1>10. PathsAgree'
    BY DEF GoneInv, PathsAgree, Delivers
  <1> QED
    BY <1>6, <1>7, <1>8, <1>9, <1>10 DEF GoneInv

\* A process that goes to a step is there, and the others stay where they are.
LEMMA GotoEffect ==
  ASSUME TypeOK, NEW p \in Procs, NEW step, Goto(p, step)
  PROVE  op'[p] = step /\ \A q \in Procs \ {p} : op'[q] = op[q]
  BY DEF TypeOK, Goto

\* A process that goes to a step at which it holds neither object nor receipt,
\* and writes no more than the object it held, keeps the invariant.
LEMMA BareStep ==
  ASSUME TypeOK, TypeOK', GoneInv, NEW p \in Procs, NEW step, Goto(p, step),
         step.at \notin {"put", "rewrite", "append"} \cup DeletionSteps,
         made' = made, deletions' = deletions,
         \A x \in Paths : pending'[x] = pending[x] \/ pending'[x] = NoReceipt,
         \A x \in Paths : objects'[x] # NoObject =>
           objects'[x] = objects[x] \/ objects'[x].id \in HeldIds(p)
  PROVE  GoneInv'
  <1>1. op'[p] = step /\ \A q \in Procs \ {p} : op'[q] = op[q]
    BY GotoEffect
  <1>2. HeldIds(p)' = {} /\ Carried(p)' = {} /\ Claimed(p)' = {} /\ Delivers(op'[p])
    BY <1>1 DEF HeldIds, Carried, Claimed, Delivers, DeletionSteps
  <1>3. made' >= made
    BY ConstantsAssumption DEF TypeOK
  <1>4. \A x \in Paths : pending'[x] # NoReceipt =>
          pending'[x].object \in Seen /\ pending'[x].path = x
    BY SeenBy DEF GoneInv, PathsAgree
  <1>5. \A r \in deletions' \cup Carried(p)' : r.object \in Seen
    BY <1>2, SeenBy
  <1>6. \A r \in deletions' \cup Claimed(p)' : r \in deletions \cup Claimed(p)
    BY <1>2
  <1> QED
    BY <1>1, <1>2, <1>3, <1>4, <1>5, <1>6, StepKeepsGone

\* A command that fails keeps the invariant.
LEMMA FailGone ==
  ASSUME TypeOK, TypeOK', GoneInv, NEW p \in Procs, Fail(p)
  PROVE  GoneInv'
  BY BareStep DEF Fail, Idle, disk, counters, DeletionSteps

\* A process that has encrypted an object holds a new id.
LEMMA EncryptingStep ==
  ASSUME TypeOK, TypeOK', GoneInv, NEW p \in Procs, NEW step, Goto(p, step),
         step.at \in {"put", "rewrite"}, step.object.id = made + 1, made' = made + 1,
         UNCHANGED disk
  PROVE  GoneInv'
  <1>1. op'[p] = step /\ \A q \in Procs \ {p} : op'[q] = op[q]
    BY GotoEffect
  <1>2. HeldIds(p)' = {made + 1}
    BY <1>1 DEF HeldIds
  <1>3. Carried(p)' = {} /\ Claimed(p)' = {} /\ Delivers(op'[p])
    BY <1>1 DEF Carried, Claimed, Delivers, DeletionSteps
  <1>4. made \in Nat
    BY ConstantsAssumption DEF TypeOK
  <1>5. made' >= made /\ \A i \in HeldIds(p)' : i > made /\ i <= made'
    BY <1>2, <1>4
  <1>6. \A x \in Paths : pending'[x] # NoReceipt =>
          pending'[x].object \in Seen /\ pending'[x].path = x
    BY SeenBy DEF GoneInv, PathsAgree, disk
  <1>7. \A r \in deletions' \cup Carried(p)' : r.object \in Seen
    BY <1>3, SeenBy DEF disk
  <1>8. \A r \in deletions' \cup Claimed(p)' : r \in deletions \cup Claimed(p)
    BY <1>3 DEF disk
  <1>9. \A x \in Paths : objects'[x] = objects[x]
    BY DEF disk
  <1> QED
    BY <1>1, <1>3, <1>5, <1>6, <1>7, <1>8, <1>9, StepKeepsGone

\* A process that goes from a step of a deletion, or of a new one, to another,
\* names a receipt it has seen and claims only what holds.
LEMMA DeletionStep ==
  ASSUME TypeOK, TypeOK', GoneInv, NEW p \in Procs, NEW step, Goto(p, step),
         step.at \in DeletionSteps, made' = made,
         step.receipt.object \in Seen, step.receipt.path = step.path,
         step.at = "log" => Gone(step.receipt)',
         deletions' \subseteq deletions \cup Claimed(p),
         \A x \in Paths : pending'[x] # NoReceipt =>
           pending'[x].object \in Seen /\ pending'[x].path = x,
         \A x \in Paths : objects'[x] # NoObject => objects'[x] = objects[x]
  PROVE  GoneInv'
  <1>1. op'[p] = step /\ \A q \in Procs \ {p} : op'[q] = op[q]
    BY GotoEffect
  <1>2. /\ HeldIds(p)' = {} /\ Delivers(op'[p])
        /\ Carried(p)' = {step.receipt}
        /\ Claimed(p)' = IF step.at = "log" THEN {step.receipt} ELSE {}
    BY <1>1 DEF HeldIds, Carried, Claimed, Delivers, DeletionSteps
  <1>3. made' >= made
    BY ConstantsAssumption DEF TypeOK
  <1>4. \A r \in deletions \cup Claimed(p) : r.object \in Seen
    BY SeenBy, HeldType
  <1>5. \A r \in deletions' \cup Carried(p)' : r.object \in Seen
    BY <1>2, <1>4
  <1>6. \A r \in deletions' \cup Claimed(p)' : r \in deletions \cup Claimed(p) \/ Gone(r)'
    BY <1>2
  <1>7. \A i \in HeldIds(p)' : i > made /\ i <= made'
    BY <1>2
  <1> QED
    BY <1>1, <1>2, <1>3, <1>5, <1>6, <1>7, StepKeepsGone

\* The steps of put keep the invariant: the object a put writes has a new id.
LEMMA PutGone ==
  ASSUME TypeOK, TypeOK', GoneInv, NEW p \in Procs,
         SealPut(p) \/ WritePut(p) \/
           \E x \in Paths, d \in Data, k \in Keys : OpenPut(p, x, d, k)
  PROVE  GoneInv'
  <1>1. CASE SealPut(p)
    <2>1. CASE Fail(p)
      BY <2>1, FailGone
    <2>2. CASE ~ Fail(p)
      BY <1>1, <2>2, EncryptingStep DEF SealPut, CanEncrypt, Encrypted
    <2> QED
      BY <2>1, <2>2
  <1>2. CASE WritePut(p)
    <2>1. HeldIds(p) = {op[p].object.id}
      BY <1>2 DEF WritePut, HeldIds
    <2>2. \A x \in Paths : objects'[x] = objects[x] \/ objects'[x] = op[p].object
      BY <1>2 DEF WritePut, TypeOK
    <2> QED
      BY <1>2, <2>1, <2>2, BareStep DEF WritePut, Idle, DeletionSteps, counters
  <1>3. CASE \E x \in Paths, d \in Data, k \in Keys : OpenPut(p, x, d, k)
    BY <1>3, BareStep DEF OpenPut, disk, counters, DeletionSteps
  <1> QED
    BY <1>1, <1>2, <1>3

\* The steps of delete keep the invariant: a receipt is claimed only once the
\* object it is for is gone.
LEMMA DeleteGone ==
  ASSUME TypeOK, TypeOK', GoneInv, NEW p \in Procs,
         \/ JournalDelete(p) \/ CheckDelete(p) \/ Unlink(p)
         \/ ReadLog(p) \/ AppendReceipt(p) \/ ClearPending(p)
         \/ \E x \in Paths, k \in Keys : OpenDelete(p, x, k)
  PROVE  GoneInv'
  <1> DEFINE o == op[p]
  <1>0. /\ o \in Operation /\ Delivers(o)
        /\ \A x \in Paths : pending[x] # NoReceipt =>
             pending[x].object \in Seen /\ pending[x].path = x
    BY SeenBy DEF TypeOK, GoneInv, PathsAgree
  <1>1. CASE \E x \in Paths, k \in Keys : OpenDelete(p, x, k)
    BY <1>1, BareStep DEF OpenDelete, disk, counters, DeletionSteps
  <1>2. CASE JournalDelete(p)
    <2>0. o \in Journalling
      BY <1>0, <1>2, OperationCases DEF JournalDelete
    <2>1. CASE Fail(p)
      BY <2>1, FailGone
    <2>2. CASE pending[o.path] # NoReceipt
      <3>1. pending[o.path].object \in Seen /\ pending[o.path].path = o.path
        BY <1>0, <2>0, <2>2 DEF Journalling
      <3> QED
        BY <1>0, <1>2, <2>2, <3>1, DeletionStep DEF JournalDelete, DeletionSteps, disk, counters
    <2>3. CASE ~ Fail(p) /\ pending[o.path] = NoReceipt
      <3> DEFINE r == ReceiptFor(o.path)
      <3>1. /\ objects[o.path] # NoObject
            /\ Goto(p, [at |-> "check", path |-> o.path, receipt |-> r])
            /\ pending' = [pending EXCEPT ![o.path] = r]
            /\ UNCHANGED <<manifest, objects, rotation, deletions, attested, counters>>
        BY <1>2, <2>3 DEF JournalDelete, Decrypts
      <3>2. r.object \in Seen /\ r.path = o.path
        BY <2>0, <3>1, SeenBy DEF ReceiptFor, Journalling
      <3>3. \A x \in Paths : pending'[x] # NoReceipt =>
              pending'[x].object \in Seen /\ pending'[x].path = x
        BY <1>0, <3>1, <3>2 DEF TypeOK
      <3> QED
        BY <3>1, <3>2, <3>3, DeletionStep DEF DeletionSteps, counters
    <2> QED
      BY <2>1, <2>2, <2>3
  <1>3. CASE CheckDelete(p)
    <2> o.at \in DeletionSteps
      BY <1>3 DEF CheckDelete, DeletionSteps
    <2>0. o \in Holding /\ o.receipt \in Carried(p) /\ o.receipt.path = o.path
      BY <1>0, OperationCases DEF Carried, Claimed, DeletionSteps, Delivers
    <2>0a. o.receipt.object \in Seen
      BY <2>0, SeenBy
    <2>1. CASE Fail(p)
      BY <2>1, FailGone
    <2>2. CASE ~ Fail(p)
      <3>1. PICK s \in {"log", "unlink"} :
              /\ Goto(p, [o EXCEPT !.at = s]) /\ UNCHANGED <<disk, counters>>
              /\ s = "log" => objects[o.path] = NoObject
        BY <1>3, <2>2 DEF CheckDelete, Unlinked, DeletionOrder
      <3>2. PICK r, step : r = o.receipt /\ step = [o EXCEPT !.at = s]
        OBVIOUS
      <3>3. step.at = s /\ step.path = o.path /\ step.receipt = r /\ Goto(p, step)
        BY <2>0, <3>1, <3>2 DEF Holding
      <3>4. s = "log" => Gone(r)'
        BY <2>0, <3>1, <3>2 DEF Gone, disk
      <3>5. r.object \in Seen /\ r.path = step.path /\ step.at \in DeletionSteps
        BY <2>0, <2>0a, <3>2, <3>3 DEF DeletionSteps
      <3> QED
        BY <1>0, <3>1, <3>3, <3>4, <3>5, DeletionStep DEF disk, counters
    <2> QED
      BY <2>1, <2>2
  <1>4. CASE Unlink(p)
    <2> o.at \in DeletionSteps
      BY <1>4 DEF Unlink, DeletionSteps
    <2>0. o \in Holding /\ o.receipt \in Carried(p) /\ o.receipt.path = o.path
      BY <1>0, OperationCases DEF Carried, Claimed, DeletionSteps, Delivers
    <2>0a. o.receipt.object \in Seen
      BY <2>0, SeenBy
    <2>1. CASE Fail(p)
      BY <2>1, FailGone
    <2>2. CASE ~ Fail(p)
      <3>1. /\ objects' = [objects EXCEPT ![o.path] = NoObject]
            /\ Goto(p, [o EXCEPT !.at = "log"])
            /\ UNCHANGED <<manifest, rotation, pending, deletions, attested, made, faults>>
        BY <1>4, <2>2 DEF Unlink, DeletionOrder
      <3>2. PICK r, step : r = o.receipt /\ step = [o EXCEPT !.at = "log"]
        OBVIOUS
      <3>3. step.at = "log" /\ step.path = o.path /\ step.receipt = r /\ Goto(p, step)
        BY <2>0, <3>1, <3>2 DEF Holding
      <3>4. Gone(r)' /\ \A x \in Paths : objects'[x] # NoObject => objects'[x] = objects[x]
        BY <2>0, <3>1, <3>2 DEF Gone, Holding, TypeOK
      <3>5. r.object \in Seen /\ r.path = step.path /\ step.at \in DeletionSteps
        BY <2>0, <2>0a, <3>2, <3>3 DEF DeletionSteps
      <3> QED
        BY <1>0, <3>1, <3>3, <3>4, <3>5, DeletionStep
    <2> QED
      BY <2>1, <2>2
  <1>5. CASE ReadLog(p)
    <2>0. o.receipt \in Claimed(p)
      BY <1>5 DEF ReadLog, Claimed
    <2> DEFINE step == [at |-> "append", path |-> o.path, receipt |-> o.receipt, log |-> deletions]
    <2>1. Goto(p, step) /\ UNCHANGED <<disk, counters>>
      BY <1>5 DEF ReadLog
    <2>2. op'[p] = step /\ \A q \in Procs \ {p} : op'[q] = op[q]
      BY <2>1, GotoEffect
    <2>3. /\ HeldIds(p)' = {} /\ Carried(p)' = {o.receipt} \cup deletions
          /\ Claimed(p)' = {o.receipt} \cup deletions
      BY <2>2 DEF HeldIds, Carried, Claimed
    <2>4. Delivers(op'[p])
      BY <1>0, <1>5, <2>2 DEF ReadLog, Delivers, DeletionSteps
    <2>5. made' >= made
      BY <2>1, ConstantsAssumption DEF TypeOK, counters
    <2>6. \A r \in deletions' \cup Carried(p)' : r.object \in Seen
      BY <2>0, <2>1, <2>3, SeenBy, HeldType DEF disk
    <2>7. \A r \in deletions' \cup Claimed(p)' : r \in deletions \cup Claimed(p)
      BY <2>0, <2>1, <2>3 DEF disk
    <2>8. \A x \in Paths : objects'[x] = objects[x] /\ pending'[x] = pending[x]
      BY <2>1 DEF disk
    <2> HIDE DEF step
    <2> QED
      BY <1>0, <2>2, <2>3, <2>4, <2>5, <2>6, <2>7, <2>8, StepKeepsGone
  <1>6. CASE AppendReceipt(p)
    <2> DEFINE step == [at |-> "clear", path |-> o.path, receipt |-> o.receipt]
    <2>1. /\ Goto(p, step)
          /\ UNCHANGED <<manifest, objects, rotation, pending, attested, counters>>
      BY <1>6 DEF AppendReceipt, DeletionOrder
    <2>2. deletions' \subseteq deletions \cup Claimed(p) /\ o.receipt \in Claimed(p)
      BY <1>6 DEF AppendReceipt, Claimed
    <2>3. o.receipt.object \in Seen /\ o.receipt.path = o.path
      BY <1>0, <1>6, <2>2, SeenBy, HeldType DEF AppendReceipt, Delivers
    <2> QED
      BY <1>0, <2>1, <2>2, <2>3, DeletionStep DEF DeletionSteps, counters
  <1>7. CASE ClearPending(p)
    <2>1. \A x \in Paths : pending'[x] = pending[x] \/ pending'[x] = NoReceipt
      BY <1>7 DEF ClearPending, TypeOK
    <2> QED
      BY <1>7, <2>1, BareStep DEF ClearPending, Idle, DeletionSteps, counters
  <1> QED
    BY <1>1, <1>2, <1>3, <1>4, <1>5, <1>6, <1>7

\* The steps of rotate-key keep the invariant: a rewritten object has a new id.
LEMMA RotationGone ==
  ASSUME TypeOK, TypeOK', GoneInv, NEW p \in Procs,
         \/ WriteJournal(p) \/ LoadRotation(p) \/ RewriteObject(p) \/ CommitManifest(p)
         \/ CheckCommitted(p) \/ RemoveJournal(p) \/ ResumeRotation(p)
         \/ (\E x \in Paths : ReadObject(p, x))
         \/ \E k \in Keys : BeginRotation(p, k) \/ AttestKeyDestruction(p, k)
  PROVE  GoneInv'
  <1>1. CASE \/ ResumeRotation(p) \/ WriteJournal(p) \/ CommitManifest(p) \/ RemoveJournal(p)
             \/ \E k \in Keys : BeginRotation(p, k)
    BY <1>1, BareStep DEF ResumeRotation, WriteJournal, CommitManifest, RemoveJournal,
       BeginRotation, Idle, disk, counters, DeletionSteps
  <1>2. CASE LoadRotation(p)
    <2>1. CASE Fail(p)
      BY <2>1, FailGone
    <2>2. CASE ~ Fail(p)
      BY <1>2, <2>2, BareStep DEF LoadRotation, disk, counters, DeletionSteps
    <2> QED
      BY <2>1, <2>2
  <1>3. CASE CheckCommitted(p)
    <2>1. CASE Fail(p)
      BY <2>1, FailGone
    <2>2. CASE ~ Fail(p)
      BY <1>3, <2>2, BareStep DEF CheckCommitted, disk, counters, DeletionSteps
    <2> QED
      BY <2>1, <2>2
  <1>4. CASE \E x \in Paths : ReadObject(p, x)
    <2> PICK x \in Paths : ReadObject(p, x)
      BY <1>4
    <2>1. CASE Fail(p)
      BY <2>1, FailGone
    <2>2. CASE ~ Fail(p) /\ Decrypts(x, op[p].journal.to)
      <3> DEFINE step == [op[p] EXCEPT !.todo = @ \ {x}]
      <3>1. Goto(p, step) /\ UNCHANGED <<disk, counters>>
        BY <2>2 DEF ReadObject
      <3>2. op[p] \in Walking /\ op[p].at = "rotate"
        BY OperationCases DEF ReadObject, TypeOK
      <3>3. step.at = "rotate"
        BY <3>2 DEF Walking
      <3> HIDE DEF step
      <3> QED
        BY <3>1, <3>3, BareStep DEF disk, counters, DeletionSteps
    <2>3. CASE ~ Fail(p) /\ ~ Decrypts(x, op[p].journal.to)
      BY <2>3, EncryptingStep DEF ReadObject, CanEncrypt, Encrypted
    <2> QED
      BY <2>1, <2>2, <2>3
  <1>5. CASE RewriteObject(p)
    <2>1. HeldIds(p) = {op[p].object.id}
      BY <1>5 DEF RewriteObject, HeldIds
    <2>2. \A x \in Paths : objects'[x] = objects[x] \/ objects'[x] = op[p].object
      BY <1>5 DEF RewriteObject, TypeOK
    <2> QED
      BY <1>5, <2>1, <2>2, BareStep DEF RewriteObject, DeletionSteps, counters
  <1>6. CASE \E k \in Keys : AttestKeyDestruction(p, k)
    <2>1. UNCHANGED <<objects, pending, deletions, op, made>>
      BY <1>6 DEF AttestKeyDestruction, counters
    <2> QED
      BY <2>1 DEF GoneInv, HeldAreNew, HeldDiffer, SeenAreMade, ClaimsHold, PathsAgree, Seen,
         Present, Carried, Claimed, HeldIds, Gone, Delivers
  <1> QED
    BY <1>1, <1>2, <1>3, <1>4, <1>5, <1>6

\* Every step keeps the invariant.
LEMMA GoneInductive == TypeOK /\ TypeOK' /\ GoneInv /\ [Next]_vars => GoneInv'
  <1> SUFFICES ASSUME TypeOK, TypeOK', GoneInv, [Next]_vars PROVE GoneInv'
    OBVIOUS
  <1>1. CASE UNCHANGED vars
    BY <1>1 DEF vars, disk, counters, GoneInv, HeldAreNew, HeldDiffer, SeenAreMade, ClaimsHold,
       PathsAgree, Seen, Present, Carried, Claimed, HeldIds, Gone, Delivers
  <1>2. CASE Next
    <2> PICK p \in Procs :
          \/ Step(p) \/ Crash(p) \/ ResumeRotation(p)
          \/ \E k \in Keys :
               \/ BeginRotation(p, k) \/ AttestKeyDestruction(p, k)
               \/ \E x \in Paths : OpenDelete(p, x, k) \/ \E d \in Data : OpenPut(p, x, d, k)
      BY <1>2 DEF Next
    <2>1. CASE Step(p)
      BY <2>1, PutGone, DeleteGone, RotationGone DEF Step
    <2>2. CASE Crash(p)
      BY <2>2, BareStep DEF Crash, Idle, disk, DeletionSteps
    <2>3. CASE \E k \in Keys, x \in Paths : OpenDelete(p, x, k)
      BY <2>3, DeleteGone
    <2>4. CASE \E k \in Keys, x \in Paths, d \in Data : OpenPut(p, x, d, k)
      BY <2>4, PutGone
    <2>5. CASE \/ ResumeRotation(p)
               \/ \E k \in Keys : BeginRotation(p, k) \/ AttestKeyDestruction(p, k)
      BY <2>5, RotationGone
    <2> QED
      BY <2>1, <2>2, <2>3, <2>4, <2>5
  <1> QED
    BY <1>1, <1>2

\* A store that was just initialised satisfies the invariant.
LEMMA InitGone == Init => GoneInv
  <1> SUFFICES ASSUME Init PROVE GoneInv
    OBVIOUS
  <1>1. \A p \in Procs : /\ HeldIds(p) = {} /\ Carried(p) = {} /\ Claimed(p) = {}
                         /\ Delivers(op[p])
    BY DEF Init, Idle, HeldIds, Carried, Claimed, Delivers, DeletionSteps
  <1>2. Seen = {}
    BY <1>1 DEF Init, Seen, Present
  <1> QED
    BY <1>1, <1>2 DEF Init, GoneInv, HeldAreNew, HeldDiffer, SeenAreMade, ClaimsHold, PathsAgree

\* No deletion receipt ever coexists with the object it is for: put, delete and
\* rotate-key of any number of processes may overlap and crash at any step, and
\* validate_deletion_receipts never finds "ciphertext object is still present".
THEOREM ReceiptsMeanGone == Spec => []ReceiptMeansGone
  <1>1. Init => TypeOK /\ GoneInv
    BY InitType, InitGone
  <1>2. (TypeOK /\ GoneInv) /\ [Next]_vars => (TypeOK /\ GoneInv)'
    BY NextType, GoneInductive
  <1>3. GoneInv => ReceiptMeansGone
    BY DEF GoneInv, ClaimsHold, Gone, ReceiptMeansGone
  <1> QED
    BY <1>1, <1>2, <1>3, PTL DEF Spec

=============================================================================
