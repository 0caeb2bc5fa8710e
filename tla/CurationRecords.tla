-------------------------- MODULE CurationRecords --------------------------
(***************************************************************************)
(* Theorems about Curation: what its files say of one another at every     *)
(* point of every command, and what a command may do to a memory.          *)
(***************************************************************************)
EXTENDS CurationProofs, FiniteSetTheorems

\* The files when the first n of order have been replaced by those of new.
View(files, new, order, n) ==
  [f \in FileNames |-> IF \E i \in 1 .. n : order[i] = f THEN new[f] ELSE files[f]]

-----------------------------------------------------------------------------
(* What holds of the files between any two replacements.                   *)

\* A conflict names a known candidate and a known memory.
ConflictsRefer(files) ==
  \A x \in files.conflicts :
    x.candidate \in files.candidates /\ x.memory \in Ids(files.memory)

\* A decision is about a known candidate and resolves recorded conflicts.
DecisionsRefer(files) ==
  \A d \in files.decisions :
    /\ d.candidate \in files.candidates
    /\ \A m \in d.resolved : [candidate |-> d.candidate, memory |-> m] \in files.conflicts

\* A mutation is of a known memory.
MutationsRefer(files) == \A x \in files.mutations : x.memory \in Ids(files.memory)

\* A supersession leads to a known memory, from a mutation that supersedes.
EdgesRefer(files) ==
  \A e \in files.supersession :
    /\ e.to \in Ids(files.memory)
    /\ \E x \in files.mutations :
         x.memory = e.from /\ x.revision = e.mutation /\ x.kind = "supersede"

\* A tombstone has its mutation.
TombstonesRefer(files) ==
  \A t \in files.tombstones : \E x \in files.mutations :
    x.memory = t.memory /\ x.revision = t.mutation /\ x.kind = "tombstone"

\* An application names a known memory and a decision that approves.
ApplicationRefers(a, files) ==
  /\ a.memory \in Ids(files.memory)
  /\ \E d \in files.decisions :
       d.candidate = a.candidate /\ d.revision = a.decision /\ d.verdict = "approve"

ApplicationsRefer(files) ==
  \A i \in DOMAIN files.applications : ApplicationRefers(files.applications[i], files)

\* A suggestion is about a known candidate.
SuggestionsRefer(files) == \A g \in files.suggestions : g.candidate \in files.candidates

\* No decision is applied twice.
AppliedOnce(apps) ==
  \A i, j \in DOMAIN apps :
    apps[i].candidate = apps[j].candidate /\ apps[i].decision = apps[j].decision => i = j

\* A memory has one row.
OneRowPerId(rows) == \A r, s \in rows : r.id = s.id => r = s

\* Every row is valid.
AllValid(rows) == \A r \in rows : Valid(r)

\* Files whose records all refer to what is there.
Sound(files) ==
  /\ ConflictsRefer(files) /\ DecisionsRefer(files) /\ MutationsRefer(files)
  /\ EdgesRefer(files) /\ TombstonesRefer(files) /\ ApplicationsRefer(files)
  /\ SuggestionsRefer(files)
  /\ AppliedOnce(files.applications)
  /\ OneRowPerId(files.memory) /\ AllValid(files.memory)

-----------------------------------------------------------------------------
(* The invariant.                                                          *)

\* Whatever the running command has still to replace, the files are sound
\* after each replacement.
StaysSound == \A n \in 0 .. Len(todo) : Sound(View(disk, staged, todo, n))

\* The files of an application, in the order it writes them.
ApplyOrder == <<"conflicts">> \o TransactionFiles

\* The apply transaction has replaced the first of its files, and can put them
\* back.
ApplyUnderway ==
  LET done == Len(ApplyOrder) - Len(todo) IN
  /\ done \in 0 .. 4
  /\ \A i \in 1 .. Len(todo) : todo[i] = ApplyOrder[done + i]
  /\ disk = View(backup, staged, ApplyOrder, done)
  /\ \A n \in 0 .. Len(ApplyOrder) : Sound(View(backup, staged, ApplyOrder, n))
  /\ Ids(backup.memory) \subseteq Ids(staged.memory)

\* No row of later is active whose memory was not active in rows.
NoneRevived(rows, later) ==
  \A r \in rows, s \in later : r.id = s.id /\ s.state = "active" => r.state = "active"

\* The memory file is still to be replaced.
MemoryPending == \E i \in DOMAIN todo : todo[i] = "memory"

\* What the running command does to canonical memory.
MemoryFits ==
  /\ ~ MemoryPending => disk.memory = staged.memory
  /\ ~ RollingBack => NoneRevived(disk.memory, staged.memory)
  /\ ~ atomic => Ids(staged.memory) \subseteq Ids(disk.memory)

\* The last word on a candidate that proposes memory m is an approval.
LastWordApproves(m) ==
  \E d \in disk.decisions :
    /\ d.verdict = "approve" /\ d.candidate.proposal = m[1].proposal
    /\ \A e \in DecisionsOf(d.candidate) : e.revision <= d.revision

\* A row that is only staged is one whose candidate is approved by the last decision.
Approvals ==
  \A r \in staged.memory : r.id \in Ids(disk.memory) \/ LastWordApproves(r.id)

\* Of some rows, those the policy would date are among the ones to be visited.
UndatedIn(rows, pending, period) ==
  pending # {} /\ period \in Retentions =>
    \A r \in rows : r.state = "active" /\ r.expires = NoExpiry => r \in pending

\* What the retention sweep has still to visit.
SweepFits ==
  /\ atomic => sweep = {}
  /\ UndatedIn(staged.memory, sweep, retention)

\* With nothing left to write, what is staged is what is written.
AtRest == todo = <<>> => staged = disk /\ ~ atomic

\* The inductive invariant of the records.
RecordsInv ==
  StaysSound /\ (atomic => ApplyUnderway) /\ MemoryFits /\ Approvals /\ SweepFits /\ AtRest

-----------------------------------------------------------------------------
(* Views of the files.                                                     *)

\* The files of the apply transaction, the conflicts before it.
LEMMA ApplyOrderIs ==
  /\ ApplyOrder = <<"conflicts", "memory", "mutations", "supersession", "applications">>
  /\ Len(ApplyOrder) = 5
  <1> DEFINE tuple == <<"conflicts", "memory", "mutations", "supersession", "applications">>
  <1>1. ApplyOrder \in Seq(FileNames) /\ tuple \in Seq(FileNames)
    BY DEF ApplyOrder, TransactionFiles, FileNames
  <1>2. Len(ApplyOrder) = 5 /\ Len(tuple) = 5
    BY DEF ApplyOrder, TransactionFiles
  <1>3. \A i \in 1 .. 5 : ApplyOrder[i] = tuple[i]
    BY DEF ApplyOrder, TransactionFiles
  <1> HIDE DEF tuple
  <1>4. ApplyOrder = tuple
    BY <1>1, <1>2, <1>3, SeqEqual
  <1> QED
    BY <1>2, <1>4 DEF tuple

\* Each file of a view is the new one or the old one.
LEMMA ViewField ==
  ASSUME NEW files, NEW new, NEW order, NEW n, NEW f \in FileNames
  PROVE  View(files, new, order, n)[f] =
           IF \E i \in 1 .. n : order[i] = f THEN new[f] ELSE files[f]
  BY DEF View

\* Before the first replacement the files are as they were.
LEMMA ViewZero ==
  ASSUME NEW files \in Disk, NEW new, NEW order
  PROVE  View(files, new, order, 0) = files
  <1>1. DOMAIN files = FileNames /\ files = [f \in FileNames |-> files[f]]
    BY DEF Disk, FileNames
  <1> QED
    BY <1>1 DEF View

\* Files with the same contents are equal.
LEMMA SameFiles ==
  ASSUME NEW a \in Disk, NEW b, DOMAIN b = FileNames, b = [f \in FileNames |-> b[f]],
         \A f \in FileNames : a[f] = b[f]
  PROVE  a = b
  <1>1. DOMAIN a = FileNames /\ a = [f \in FileNames |-> a[f]]
    BY DEF Disk, FileNames
  <1> QED
    BY <1>1

\* One replacement, and then the first n of those that are left.
LEMMA ViewNext ==
  ASSUME NEW files \in Disk, NEW new, NEW order \in Seq(FileNames), order # <<>>,
         NEW n \in Nat, n < Len(order)
  PROVE  View([files EXCEPT ![Head(order)] = new[Head(order)]], new, Tail(order), n)
           = View(files, new, order, n + 1)
  <1> DEFINE done == [files EXCEPT ![Head(order)] = new[Head(order)]]
  <1>1. Head(order) = order[1] /\ order[1] \in FileNames
    BY DEF FileNames
  <1>2. \A i \in 1 .. n : Tail(order)[i] = order[i + 1]
    OBVIOUS
  <1>3. \A f \in FileNames : done[f] = IF f = order[1] THEN new[f] ELSE files[f]
    BY <1>1 DEF Disk, FileNames
  <1>4. \A f \in FileNames : (\E i \in 1 .. n + 1 : order[i] = f) <=>
          (f = order[1] \/ \E i \in 1 .. n : Tail(order)[i] = f)
    <2> SUFFICES ASSUME NEW f \in FileNames
                 PROVE  (\E i \in 1 .. n + 1 : order[i] = f) <=>
                          (f = order[1] \/ \E i \in 1 .. n : Tail(order)[i] = f)
      OBVIOUS
    <2>1. ASSUME NEW i \in 1 .. n + 1, order[i] = f, f # order[1]
          PROVE  \E j \in 1 .. n : Tail(order)[j] = f
      <3>1. i - 1 \in 1 .. n /\ Tail(order)[i - 1] = order[i]
        BY <1>2, <2>1
      <3> QED
        BY <2>1, <3>1
    <2>2. ASSUME NEW i \in 1 .. n, Tail(order)[i] = f
          PROVE  \E j \in 1 .. n + 1 : order[j] = f
      BY <1>2, <2>2
    <2>3. 1 \in 1 .. n + 1
      OBVIOUS
    <2> QED
      BY <2>1, <2>2, <2>3
  <1> HIDE DEF done
  <1>5. \A f \in FileNames :
          (IF \E i \in 1 .. n : Tail(order)[i] = f THEN new[f] ELSE done[f])
            = (IF \E i \in 1 .. n + 1 : order[i] = f THEN new[f] ELSE files[f])
    BY <1>3, <1>4
  <1>6. View(done, new, Tail(order), n) = View(files, new, order, n + 1)
    BY <1>5 DEF View
  <1> QED
    BY <1>6 DEF done

\* Of files that only grow, what is new is all there is to check.
LEMMA SoundMore ==
  ASSUME NEW a, NEW b, Sound(a),
         a.candidates \subseteq b.candidates, a.conflicts \subseteq b.conflicts,
         a.decisions \subseteq b.decisions, a.mutations \subseteq b.mutations,
         Ids(a.memory) \subseteq Ids(b.memory),
         \A x \in b.conflicts \ a.conflicts :
           x.candidate \in b.candidates /\ x.memory \in Ids(b.memory),
         \A d \in b.decisions \ a.decisions :
           /\ d.candidate \in b.candidates
           /\ \A m \in d.resolved : [candidate |-> d.candidate, memory |-> m] \in b.conflicts,
         \A x \in b.mutations \ a.mutations : x.memory \in Ids(b.memory),
         \A e \in b.supersession \ a.supersession :
           /\ e.to \in Ids(b.memory)
           /\ \E x \in b.mutations :
                x.memory = e.from /\ x.revision = e.mutation /\ x.kind = "supersede",
         \A t \in b.tombstones \ a.tombstones : \E x \in b.mutations :
           x.memory = t.memory /\ x.revision = t.mutation /\ x.kind = "tombstone",
         \A i \in DOMAIN b.applications :
           \/ i \in DOMAIN a.applications /\ b.applications[i] = a.applications[i]
           \/ ApplicationRefers(b.applications[i], b),
         AppliedOnce(b.applications),
         \A g \in b.suggestions \ a.suggestions : g.candidate \in b.candidates,
         OneRowPerId(b.memory), AllValid(b.memory)
  PROVE  Sound(b)
  <1>1. ConflictsRefer(b) /\ DecisionsRefer(b) /\ MutationsRefer(b) /\ SuggestionsRefer(b)
    BY DEF Sound, ConflictsRefer, DecisionsRefer, MutationsRefer, SuggestionsRefer
  <1>2. EdgesRefer(b) /\ TombstonesRefer(b)
    BY DEF Sound, EdgesRefer, TombstonesRefer
  <1>3. ApplicationsRefer(b)
    BY DEF Sound, ApplicationsRefer, ApplicationRefers
  <1> QED
    BY <1>1, <1>2, <1>3 DEF Sound

-----------------------------------------------------------------------------
(* The invariant is inductive: replacements, crashes and the rollback.     *)

\* A workspace at rest.
LEMMA RestRecords ==
  ASSUME TypeOK, RecordsInv
  PROVE  /\ Sound(disk)
         /\ todo = <<>> => staged = disk /\ ~ atomic
  <1>1. 0 \in 0 .. Len(todo)
    BY DEF TypeOK
  <1> QED
    BY <1>1, ViewZero DEF TypeOK, RecordsInv, StaysSound, AtRest

\* A command that ends, or dies, leaves sound files.
LEMMA SettleRecords ==
  ASSUME TypeOK, TypeOK', Settle(disk'), Sound(disk'),
         UndatedIn(disk'.memory, sweep', retention')
  PROVE  RecordsInv'
  <1>1. staged' = disk' /\ todo' = <<>> /\ atomic' = FALSE
    BY DEF Settle
  <1>2. StaysSound'
    <2>1. View(disk', staged', todo', 0) = disk'
      BY ViewZero DEF TypeOK
    <2>2. Len(todo') = 0
      BY <1>1
    <2> QED
      BY <2>1, <2>2 DEF StaysSound
  <1>3. NoneRevived(disk'.memory, disk'.memory)
    BY DEF Sound, OneRowPerId, NoneRevived
  <1> QED
    BY <1>1, <1>2, <1>3 DEF RecordsInv, MemoryFits, Approvals, SweepFits, AtRest, Ids

\* The replacement of one file.
LEMMA WriteRecords ==
  ASSUME TypeOK, TypeOK', AuthorityInv, RecordsInv, Write
  PROVE  RecordsInv'
  <1> DEFINE f == Head(todo)
  <1>1. /\ f \in FileNames /\ todo # <<>> /\ todo \in Seq(FileNames)
        /\ disk \in Disk /\ staged \in Disk /\ backup \in Disk /\ disk' \in Disk
        /\ disk' = [disk EXCEPT ![f] = staged[f]]
        /\ UNCHANGED <<retention, sweep>>
    BY DEF TypeOK, Write
  <1>2. \A n \in 0 .. Len(todo) - 1 :
          View(disk', staged, Tail(todo), n) = View(disk, staged, todo, n + 1)
    <2> HIDE DEF f
    <2> SUFFICES ASSUME NEW n \in 0 .. Len(todo) - 1
                 PROVE  View(disk', staged, Tail(todo), n) = View(disk, staged, todo, n + 1)
      OBVIOUS
    <2>1. n \in Nat /\ n < Len(todo)
      BY <1>1
    <2> QED
      BY <1>1, <2>1, ViewNext DEF f
  <1>3. \A n \in 0 .. Len(todo) - 1 : Sound(View(disk', staged, Tail(todo), n))
    <2> SUFFICES ASSUME NEW n \in 0 .. Len(todo) - 1
                 PROVE  Sound(View(disk', staged, Tail(todo), n))
      OBVIOUS
    <2>1. n + 1 \in 0 .. Len(todo)
      BY <1>1
    <2>2. Sound(View(disk, staged, todo, n + 1))
      BY <2>1 DEF RecordsInv, StaysSound
    <2> QED
      BY <1>2, <2>2
  <1>4. disk'.memory = IF f = "memory" THEN staged.memory ELSE disk.memory
    <2> HIDE DEF f
    <2> QED
      BY <1>1 DEF Disk, FileNames
  <1>5. Len(Tail(todo)) = Len(todo) - 1 /\ Len(todo) - 1 \in Nat
    BY <1>1
  <1>6. CASE Tail(todo) = <<>>
    <2>1. Settle(disk')
      BY <1>6 DEF Write
    <2>2. Sound(disk')
      <3>1. Sound(View(disk', staged, Tail(todo), 0))
        BY <1>3, <1>5
      <3> QED
        BY <1>1, <3>1, ViewZero
    <2>3. disk'.memory = staged.memory
      <3>1. Len(todo) = 1
        <4>1. Len(Tail(todo)) = Len(todo) - 1 /\ Len(todo) \in Nat
          BY <1>1
        <4>2. Len(Tail(todo)) = 0
          BY <1>6, EmptySeq, Zenon
        <4> QED
          BY <4>1, <4>2
      <3>2. MemoryPending => f = "memory"
        BY <1>1, <3>1 DEF MemoryPending
      <3> QED
        BY <1>4, <3>2 DEF RecordsInv, MemoryFits
    <2> QED
      BY <1>1, <2>1, <2>2, <2>3, SettleRecords DEF RecordsInv, SweepFits
  <1>7. CASE Tail(todo) # <<>>
    <2>1. UNCHANGED <<staged, backup, atomic>> /\ todo' = Tail(todo)
      BY <1>7 DEF Write
    <2>2. StaysSound'
      BY <1>3, <1>5, <2>1 DEF StaysSound
    <2>3. MemoryPending => MemoryPending' \/ f = "memory"
      <3> SUFFICES ASSUME NEW i \in DOMAIN todo, todo[i] = "memory", f # "memory"
                   PROVE  MemoryPending'
        BY DEF MemoryPending
      <3>1. i # 1 /\ i \in 1 .. Len(todo)
        BY <1>1
      <3>2. i - 1 \in DOMAIN Tail(todo) /\ Tail(todo)[i - 1] = todo[i]
        BY <1>1, <3>1
      <3> QED
        BY <2>1, <3>2 DEF MemoryPending
    <2>4. RollingBack' <=> RollingBack
      BY <1>1, <1>7, <2>1 DEF RollingBack
    <2>5. MemoryFits'
      <3>1. OneRowPerId(disk'.memory)
        <4>1. Sound(View(disk', staged, Tail(todo), 0))
          BY <1>3, <1>5
        <4> QED
          BY <1>1, <4>1, ViewZero DEF Sound
      <3>2. NoneRevived(disk'.memory, disk'.memory)
        BY <3>1 DEF OneRowPerId, NoneRevived
      <3> QED
        BY <1>4, <2>1, <2>3, <2>4, <3>2 DEF RecordsInv, MemoryFits
    <2>6. Approvals'
      <3> SUFFICES ASSUME NEW r \in staged.memory
                   PROVE  r.id \in Ids(disk'.memory) \/ LastWordApproves(r.id)'
        BY <2>1 DEF Approvals
      <3>1. CASE atomic
        <4>1. disk'.decisions = disk.decisions
          <5> HIDE DEF f
          <5> QED
            BY <1>1, <3>1 DEF AuthorityInv, SameReviews, Disk, FileNames
        <4>2. r.id \in Ids(disk.memory) \/ LastWordApproves(r.id)
          BY DEF RecordsInv, Approvals
        <4>3. Ids(disk.memory) \subseteq Ids(disk'.memory)
          <5>1. Ids(disk.memory) \subseteq Ids(staged.memory)
            BY <1>1, <3>1, ViewField DEF RecordsInv, ApplyUnderway, FileNames
          <5> QED
            BY <1>4, <5>1
        <4> QED
          BY <4>1, <4>2, <4>3 DEF LastWordApproves, DecisionsOf
      <3>2. CASE ~ atomic
        <4>1. Ids(staged.memory) \subseteq Ids(disk.memory)
          BY <3>2 DEF RecordsInv, MemoryFits
        <4> QED
          BY <1>4, <4>1 DEF Ids
      <3> QED
        BY <3>1, <3>2
    <2>7. SweepFits'
      BY <1>1, <2>1 DEF RecordsInv, SweepFits
    <2>8. (atomic => ApplyUnderway)'
      <3> SUFFICES ASSUME atomic PROVE ApplyUnderway'
        BY <2>1
      <3> DEFINE done == 5 - Len(todo)
      <3>1. /\ Len(ApplyOrder) = 5 /\ done \in 0 .. 4
            /\ \A i \in 1 .. Len(todo) : todo[i] = ApplyOrder[done + i]
            /\ disk = View(backup, staged, ApplyOrder, done)
        BY ApplyOrderIs DEF RecordsInv, ApplyUnderway
      <3>2. /\ 5 - Len(todo') = done + 1 /\ done + 1 \in 0 .. 4
            /\ \A i \in 1 .. Len(todo') : todo'[i] = ApplyOrder[done + 1 + i]
        <4>1. Len(todo') = Len(todo) - 1 /\ Len(todo') # 0
          BY <1>1, <1>5, <1>7, <2>1
        <4>2. \A i \in 1 .. Len(todo') : todo'[i] = todo[i + 1] /\ i + 1 \in 1 .. Len(todo)
          BY <1>1, <2>1, <4>1
        <4>3. Len(todo) \in Nat /\ 5 - Len(todo') = done + 1 /\ done + 1 \in 0 .. 4
          BY <3>1, <4>1
        <4>4. \A i \in 1 .. Len(todo') : todo'[i] = ApplyOrder[done + 1 + i]
          <5> SUFFICES ASSUME NEW i \in 1 .. Len(todo')
                       PROVE  todo'[i] = ApplyOrder[done + 1 + i]
            OBVIOUS
          <5>1. todo'[i] = todo[i + 1] /\ todo[i + 1] = ApplyOrder[done + (i + 1)]
            BY <3>1, <4>2
          <5>2. done + (i + 1) = done + 1 + i
            BY <3>1
          <5> QED
            BY <5>1, <5>2
        <4> QED
          BY <4>3, <4>4
      <3>3. f = ApplyOrder[done + 1]
        <4>1. f = todo[1] /\ 1 \in 1 .. Len(todo)
          BY <1>1
        <4> HIDE DEF f, done
        <4> QED
          BY <3>1, <4>1
      <3>4. disk' = View(backup, staged, ApplyOrder, done + 1)
        <4> HIDE DEF f, done
        <4> DEFINE view == View(backup, staged, ApplyOrder, done + 1)
        <4>1. \A g \in FileNames : disk'[g] = view[g]
          <5> SUFFICES ASSUME NEW g \in FileNames PROVE disk'[g] = view[g]
            OBVIOUS
          <5>1. disk'[g] = IF g = f THEN staged[g] ELSE disk[g]
            BY <1>1 DEF Disk, FileNames
          <5>2. disk[g] = IF \E i \in 1 .. done : ApplyOrder[i] = g THEN staged[g] ELSE backup[g]
            BY <3>1, ViewField
          <5>3. (\E i \in 1 .. done + 1 : ApplyOrder[i] = g) <=>
                  (g = f \/ \E i \in 1 .. done : ApplyOrder[i] = g)
            BY <3>1, <3>3
          <5> QED
            BY <5>1, <5>2, <5>3, ViewField
        <4>2. DOMAIN view = FileNames /\ view = [g \in FileNames |-> view[g]]
          BY DEF View
        <4>3. disk' \in Disk
          BY <1>1
        <4> HIDE DEF view
        <4>4. disk' = view
          BY ONLY <4>1, <4>2, <4>3, SameFiles
        <4> QED
          BY <4>4 DEF view
      <3> QED
        BY <2>1, <3>1, <3>2, <3>4 DEF RecordsInv, ApplyUnderway
    <2> QED
      BY <1>7, <2>1, <2>2, <2>5, <2>6, <2>7, <2>8 DEF RecordsInv, AtRest
  <1> QED
    BY <1>6, <1>7

\* The rollback of the apply transaction: what is put back leaves the files as
\* they were when the transaction had replaced one file less.
LEMMA RollbackRecords ==
  ASSUME TypeOK, TypeOK', RecordsInv, Rollback
  PROVE  RecordsInv'
  <1> DEFINE done == 5 - Len(todo)
             k == done - 1
  <1>1. /\ Len(ApplyOrder) = 5 /\ done \in 1 .. 4 /\ Len(TransactionFiles) - Len(todo) = k
        /\ disk = View(backup, staged, ApplyOrder, done)
        /\ \A n \in 0 .. 5 : Sound(View(backup, staged, ApplyOrder, n))
        /\ Ids(backup.memory) \subseteq Ids(staged.memory)
    <2>1. /\ 5 - Len(todo) \in 0 .. 4 /\ disk = View(backup, staged, ApplyOrder, done)
          /\ \A n \in 0 .. 5 : Sound(View(backup, staged, ApplyOrder, n))
          /\ Ids(backup.memory) \subseteq Ids(staged.memory) /\ Len(ApplyOrder) = 5
      BY ApplyOrderIs DEF RecordsInv, ApplyUnderway, Rollback
    <2>2. Len(TransactionFiles) = 4 /\ Len(todo) \in Nat
      BY DEF TransactionFiles, TypeOK
    <2>3. 4 - Len(todo) >= 0
      BY <2>2 DEF Rollback
    <2> QED
      BY <2>1, <2>2, <2>3
  <1>2. disk' = disk /\ sweep = {} /\ sweep' = {} /\ disk \in Disk /\ Sound(disk)
    BY RestRecords DEF Rollback, RecordsInv, SweepFits, TypeOK
  <1> USE DEF UndatedIn
  <1>3. CASE k = 0
    <2>1. Settle(disk')
      BY <1>1, <1>2, <1>3 DEF Rollback
    <2> QED
      BY <1>2, <2>1, SettleRecords
  <1>4. CASE k # 0
    <2>1. /\ todo' = Undo(k) /\ staged' = backup /\ backup' = backup /\ atomic' = FALSE
          /\ k \in 1 .. 3
      <3> DEFINE undone == Len(TransactionFiles) - Len(todo)
      <3>1. undone = k /\ k \in 1 .. 3
        <4> HIDE DEF done
        <4> QED
          BY <1>1, <1>4
      <3>2. undone # 0 => /\ todo' = Undo(undone) /\ staged' = backup /\ backup' = backup
                          /\ atomic' = FALSE
        BY DEF Rollback
      <3> HIDE DEF undone, k
      <3> QED
        BY <3>1, <3>2
    <2> HIDE DEF k, done
    <2>2. /\ Len(todo') = k /\ todo' # <<>>
          /\ \A i \in 1 .. k : todo'[i] = ApplyOrder[k + 2 - i]
      <3>1. Len(Undo(k)) = k /\ \A i \in 1 .. k : Undo(k)[i] = TransactionFiles[k + 1 - i]
        BY <2>1 DEF Undo
      <3>2. \A i \in 1 .. 4 : TransactionFiles[i] = ApplyOrder[i + 1]
        BY ApplyOrderIs DEF TransactionFiles
      <3>3. \A i \in 1 .. k : k + 1 - i \in 1 .. 4 /\ (k + 1 - i) + 1 = k + 2 - i
        BY <2>1
      <3>4. todo' # <<>>
        BY <2>1, <3>1
      <3> QED
        BY <2>1, <3>1, <3>2, <3>3, <3>4
    <2>3. done = k + 1
      BY <1>1 DEF k
    <2>4. ASSUME NEW n \in 0 .. k
          PROVE  View(disk, backup, todo', n) = View(backup, staged, ApplyOrder, done - n)
      <3>1. ASSUME NEW f \in FileNames
            PROVE  (IF \E i \in 1 .. n : todo'[i] = f THEN backup[f] ELSE disk[f])
                     = (IF \E i \in 1 .. done - n : ApplyOrder[i] = f THEN staged[f] ELSE backup[f])
        <4>1. disk[f] = IF \E i \in 1 .. done : ApplyOrder[i] = f THEN staged[f] ELSE backup[f]
          BY <1>1, ViewField
        <4>2. \A i, j \in 1 .. 5 : ApplyOrder[i] = ApplyOrder[j] => i = j
          BY ApplyOrderIs
        <4>3. CASE \E i \in 1 .. n : todo'[i] = f
          <5>1. PICK i \in 1 .. n : todo'[i] = f
            BY <4>3
          <5>2. i \in 1 .. k /\ f = ApplyOrder[k + 2 - i] /\ k + 2 - i > done - n
                /\ k + 2 - i \in 1 .. 5
            BY <2>1, <2>2, <2>3, <5>1
          <5>3. \A j \in 1 .. done - n : ApplyOrder[j] # f
            BY <2>1, <2>3, <4>2, <5>2
          <5> QED
            BY <4>3, <5>3
        <4>4. CASE ~ \E i \in 1 .. n : todo'[i] = f
          <5>1. ASSUME NEW j \in 1 .. done, ApplyOrder[j] = f
                PROVE  j \in 1 .. done - n
            <6>1. CASE j > done - n
              <7>1. k + 2 - j \in 1 .. n /\ k + 2 - j \in 1 .. k /\ k + 2 - (k + 2 - j) = j
                BY <2>1, <2>3, <6>1
              <7>2. todo'[k + 2 - j] = f
                BY <2>2, <5>1, <7>1
              <7> QED
                BY <4>4, <7>1, <7>2
            <6> QED
              BY <2>1, <2>3, <6>1
          <5>2. \A j \in 1 .. done - n : j \in 1 .. done
            BY <2>1, <2>3
          <5> QED
            BY <4>1, <4>4, <5>1, <5>2
        <4> QED
          BY <4>3, <4>4
      <3> QED
        BY <3>1 DEF View
    <2>5. StaysSound'
      <3> SUFFICES ASSUME NEW n \in 0 .. k PROVE Sound(View(disk, backup, todo', n))
        BY <1>2, <2>1, <2>2 DEF StaysSound
      <3>1. done - n \in 0 .. 5
        BY <2>1, <2>3
      <3> QED
        BY <1>1, <2>4, <3>1
    <2>6. RollingBack'
      BY <2>1, <2>2 DEF RollingBack
    <2>7. MemoryPending'
      <3>1. k \in DOMAIN todo' /\ todo'[k] = ApplyOrder[2]
        <4>1. k \in 1 .. k /\ k + 2 - k = 2
          BY <2>1
        <4>2. todo' \in Seq(FileNames)
          BY DEF TypeOK
        <4> QED
          BY <2>2, <4>1, <4>2
      <3> QED
        BY <3>1, ApplyOrderIs DEF MemoryPending
    <2>8. Ids(backup.memory) \subseteq Ids(disk.memory)
      <3>1. disk.memory \in {backup.memory, staged.memory}
        BY <1>1, ViewField DEF FileNames
      <3> QED
        BY <1>1, <3>1
    <2>9. Approvals'
      BY <1>2, <2>1, <2>8 DEF Approvals, Ids
    <2> QED
      BY <1>2, <2>1, <2>2, <2>5, <2>6, <2>7, <2>8, <2>9
         DEF RecordsInv, MemoryFits, SweepFits, AtRest
  <1> QED
    BY <1>3, <1>4

\* A command that stages new contents outside the transaction.
LEMMA StageRecords ==
  ASSUME TypeOK, TypeOK', RecordsInv, todo = <<>>,
         NEW new, NEW order, order # <<>>, Stage(new, order, FALSE),
         \A n \in 0 .. Len(order) : Sound(View(disk, new, order, n)),
         (\A i \in DOMAIN order : order[i] # "memory") => new.memory = disk.memory,
         NoneRevived(disk.memory, new.memory),
         Ids(new.memory) \subseteq Ids(disk.memory),
         UndatedIn(new.memory, sweep', retention')
  PROVE  RecordsInv'
  <1>1. disk' = disk /\ staged' = new /\ todo' = order /\ atomic' = FALSE
    BY DEF Stage
  <1>2. StaysSound'
    BY <1>1 DEF StaysSound
  <1>3. MemoryFits' /\ Approvals'
    BY <1>1 DEF MemoryFits, MemoryPending, Approvals, Ids
  <1> QED
    BY <1>1, <1>2, <1>3 DEF RecordsInv, SweepFits, AtRest

\* A command that leaves canonical memory alone.
LEMMA QuietStage ==
  ASSUME TypeOK, TypeOK', RecordsInv, Idle, sweep' = sweep,
         NEW new, NEW order, order # <<>>, Stage(new, order, FALSE),
         \A n \in 0 .. Len(order) : Sound(View(disk, new, order, n)),
         new.memory = disk.memory
  PROVE  RecordsInv'
  <1>1. todo = <<>> /\ sweep' = {}
    BY DEF Idle
  <1>2. NoneRevived(disk.memory, new.memory)
    BY RestRecords DEF Sound, OneRowPerId, NoneRevived
  <1>3. UndatedIn(new.memory, sweep', retention')
    BY <1>1 DEF UndatedIn
  <1> QED
    BY <1>1, <1>2, <1>3, StageRecords

-----------------------------------------------------------------------------
(* Candidates, suggestions and reviews.                                    *)

\* The conflicts of a candidate are with memories that are there.
LEMMA ConflictRowsRefer ==
  ASSUME NEW c
  PROVE  \A x \in ConflictRows(c) : x.candidate = c /\ x.memory \in Ids(disk.memory)
  BY DEF ConflictRows, Conflicting, Ids

\* Files that differ from the ones on disk only in candidates, suggestions,
\* conflicts and decisions.
ReviewsOnly(b) ==
  /\ b.memory = disk.memory /\ b.mutations = disk.mutations
  /\ b.supersession = disk.supersession /\ b.tombstones = disk.tombstones
  /\ b.applications = disk.applications

\* More candidates, and rows that name candidates and memories that are there.
LEMMA SoundReviews ==
  ASSUME Sound(disk), NEW b, ReviewsOnly(b), NEW c \in b.candidates,
         disk.candidates \subseteq b.candidates,
         disk.conflicts \subseteq b.conflicts,
         b.conflicts \subseteq disk.conflicts \cup ConflictRows(c),
         disk.decisions \subseteq b.decisions,
         \A d \in b.decisions \ disk.decisions :
           /\ d.candidate \in b.candidates
           /\ \A m \in d.resolved : [candidate |-> d.candidate, memory |-> m] \in b.conflicts,
         \A g \in b.suggestions \ disk.suggestions : g.candidate \in b.candidates
  PROVE  Sound(b)
  <1>1. \A x \in b.conflicts \ disk.conflicts :
          x.candidate \in b.candidates /\ x.memory \in Ids(b.memory)
    BY ConflictRowsRefer DEF ReviewsOnly
  <1>2. OneRowPerId(b.memory) /\ AllValid(b.memory) /\ AppliedOnce(b.applications)
    BY DEF Sound, ReviewsOnly
  <1> QED
    BY <1>1, <1>2, SoundMore DEF ReviewsOnly

\* propose writes the candidate before its conflicts.
LEMMA ProposeRecords ==
  ASSUME TypeOK, TypeOK', RecordsInv, Propose
  PROVE  RecordsInv'
  <1>1. PICK p \in Proposals, k \in SemanticKeys, s \in SUBSET Ids(disk.memory) :
          Stage(WithCandidate(disk, [proposal |-> p, key |-> k, supersedes |-> s,
                                     generator |-> "deterministic"]),
                <<"candidates", "conflicts">>, FALSE)
    BY DEF Propose
  <1> DEFINE c == [proposal |-> p, key |-> k, supersedes |-> s, generator |-> "deterministic"]
             new == WithCandidate(disk, c)
             order == <<"candidates", "conflicts">>
  <1>2. /\ new.candidates = disk.candidates \cup {c}
        /\ new.conflicts = disk.conflicts \cup ConflictRows(c)
        /\ new.memory = disk.memory
    BY DEF TypeOK, WithCandidate, Disk
  <1>3. Stage(new, order, FALSE) /\ Idle /\ sweep' = sweep /\ Sound(disk)
    BY <1>1, RestRecords DEF Propose
  <1> HIDE DEF c, new
  <1>4. ASSUME NEW n \in 0 .. 2 PROVE Sound(View(disk, new, order, n))
    <2> DEFINE b == View(disk, new, order, n)
    <2>1. /\ b.candidates = IF n >= 1 THEN new.candidates ELSE disk.candidates
          /\ b.conflicts = IF n >= 2 THEN new.conflicts ELSE disk.conflicts
          /\ b.decisions = disk.decisions /\ b.suggestions = disk.suggestions
          /\ ReviewsOnly(b)
      BY DEF View, FileNames, ReviewsOnly
    <2> HIDE DEF b
    <2>2. CASE n = 0
      <3>1. b = disk
        BY <2>2, ViewZero DEF b, TypeOK
      <3> QED
        BY <1>3, <3>1 DEF b
    <2>3. CASE n # 0
      <3>1. c \in b.candidates
        BY <1>2, <2>1, <2>3
      <3>2. Sound(b)
        BY <1>2, <1>3, <2>1, <3>1, SoundReviews
      <3> QED
        BY <3>2 DEF b
    <2> QED
      BY <2>2, <2>3
  <1>5. Len(order) = 2 /\ order # <<>>
    OBVIOUS
  <1> HIDE DEF order
  <1> QED
    BY <1>2, <1>3, <1>4, <1>5, QuietStage

\* llm-import names the candidate that was there, and then one it has written.
LEMMA ImportSuggestionRecords ==
  ASSUME TypeOK, TypeOK', RecordsInv, NEW c \in disk.candidates, ImportSuggestion(c)
  PROVE  RecordsInv'
  <1> DEFINE noted(v) == [disk EXCEPT !.suggestions =
                            @ \cup {[candidate |-> c, recommendation |-> v]}]
  <1>1. PICK v \in Recommendations :
          \/ Stage(noted(v), <<"suggestions">>, FALSE)
          \/ \E p \in Proposals, k \in SemanticKeys :
               Stage(WithCandidate(noted(v),
                       [proposal |-> p, key |-> k, supersedes |-> c.supersedes,
                        generator |-> "local_llm"]),
                     <<"suggestions", "candidates", "conflicts">>, FALSE)
    BY DEF ImportSuggestion
  <1>2. Idle /\ sweep' = sweep /\ Sound(disk)
    BY RestRecords DEF ImportSuggestion
  <1>3. /\ \A f \in FileNames \ {"suggestions"} : noted(v)[f] = disk[f]
        /\ noted(v).suggestions = disk.suggestions \cup {[candidate |-> c, recommendation |-> v]}
    BY DEF TypeOK, Disk, FileNames
  <1>4. CASE Stage(noted(v), <<"suggestions">>, FALSE)
    <2> DEFINE order == <<"suggestions">>
    <2> HIDE DEF noted
    <2>1. ASSUME NEW n \in 0 .. 1 PROVE Sound(View(disk, noted(v), order, n))
      <3> DEFINE b == View(disk, noted(v), order, n)
      <3>1. /\ b.suggestions \in {disk.suggestions, noted(v).suggestions}
            /\ b.candidates = disk.candidates /\ b.conflicts = disk.conflicts
            /\ b.decisions = disk.decisions /\ ReviewsOnly(b)
        BY DEF View, FileNames, ReviewsOnly
      <3> HIDE DEF b
      <3>2. Sound(b)
        BY <1>2, <1>3, <3>1, SoundReviews
      <3> QED
        BY <3>2 DEF b
    <2>2. Len(order) = 1 /\ order # <<>> /\ noted(v).memory = disk.memory
      BY <1>3 DEF FileNames
    <2> HIDE DEF order
    <2> QED
      BY <1>2, <1>4, <2>1, <2>2, QuietStage DEF order
  <1>5. ASSUME NEW p \in Proposals, NEW k \in SemanticKeys,
               Stage(WithCandidate(noted(v),
                       [proposal |-> p, key |-> k, supersedes |-> c.supersedes,
                        generator |-> "local_llm"]),
                     <<"suggestions", "candidates", "conflicts">>, FALSE)
        PROVE  RecordsInv'
    <2> DEFINE d == [proposal |-> p, key |-> k, supersedes |-> c.supersedes,
                     generator |-> "local_llm"]
               new == WithCandidate(noted(v), d)
               order == <<"suggestions", "candidates", "conflicts">>
    <2>1. /\ new.suggestions = noted(v).suggestions
          /\ new.candidates = disk.candidates \cup {d}
          /\ new.conflicts = disk.conflicts \cup ConflictRows(d)
          /\ new.memory = disk.memory
      <3> HIDE DEF d
      <3> QED
        BY DEF WithCandidate, TypeOK, Disk
    <2>2. Stage(new, order, FALSE)
      BY <1>5
    <2> HIDE DEF d, new, noted
    <2>3. ASSUME NEW n \in 0 .. 3 PROVE Sound(View(disk, new, order, n))
      <3> DEFINE b == View(disk, new, order, n)
      <3>1. /\ b.suggestions \in {disk.suggestions, new.suggestions}
            /\ b.candidates = IF n >= 2 THEN new.candidates ELSE disk.candidates
            /\ b.conflicts = IF n >= 3 THEN new.conflicts ELSE disk.conflicts
            /\ b.decisions = disk.decisions /\ ReviewsOnly(b)
        BY DEF View, FileNames, ReviewsOnly
      <3> HIDE DEF b
      <3>2. CASE n >= 2
        <4>1. d \in b.candidates
          BY <2>1, <3>1, <3>2
        <4>2. Sound(b)
          BY <1>2, <1>3, <2>1, <3>1, <4>1, SoundReviews
        <4> QED
          BY <4>2 DEF b
      <3>3. CASE ~ (n >= 2)
        <4>1. Sound(b)
          BY <1>2, <1>3, <2>1, <3>1, <3>3, SoundReviews
        <4> QED
          BY <4>1 DEF b
      <3> QED
        BY <3>2, <3>3
    <2>4. Len(order) = 3 /\ order # <<>>
      OBVIOUS
    <2> HIDE DEF order
    <2> QED
      BY <1>2, <2>1, <2>2, <2>3, <2>4, QuietStage
  <1> QED
    BY <1>1, <1>4, <1>5

\* conflicts writes the conflicts of a candidate that is there.
LEMMA RecordConflictsRecords ==
  ASSUME TypeOK, TypeOK', RecordsInv, NEW c \in disk.candidates, RecordConflicts(c)
  PROVE  RecordsInv'
  <1> DEFINE new == [disk EXCEPT !.conflicts = @ \cup ConflictRows(c)]
             order == <<"conflicts">>
  <1>1. Stage(new, order, FALSE) /\ Idle /\ sweep' = sweep /\ Sound(disk)
    BY RestRecords DEF RecordConflicts
  <1>2. new.conflicts = disk.conflicts \cup ConflictRows(c) /\ new.memory = disk.memory
    BY DEF TypeOK, Disk
  <1> HIDE DEF new
  <1>3. ASSUME NEW n \in 0 .. 1 PROVE Sound(View(disk, new, order, n))
    <2> DEFINE b == View(disk, new, order, n)
    <2>1. /\ b.conflicts \in {disk.conflicts, new.conflicts}
          /\ b.candidates = disk.candidates /\ b.suggestions = disk.suggestions
          /\ b.decisions = disk.decisions /\ ReviewsOnly(b)
      BY DEF View, FileNames, ReviewsOnly
    <2> HIDE DEF b
    <2>2. Sound(b)
      BY <1>1, <1>2, <2>1, SoundReviews
    <2> QED
      BY <2>2 DEF b
  <1>4. Len(order) = 1 /\ order # <<>>
    OBVIOUS
  <1> HIDE DEF order
  <1> QED
    BY <1>1, <1>2, <1>3, <1>4, QuietStage

\* review writes the conflicts a decision resolves before the decision.
LEMMA ReviewRecords ==
  ASSUME TypeOK, TypeOK', RecordsInv, NEW c \in disk.candidates, Review(c)
  PROVE  RecordsInv'
  <1> DEFINE conflicts == Ids(Conflicting(c))
             d(v, how, named) ==
               [candidate |-> c, revision |-> NextDecision(c), verdict |-> v,
                resolved |-> IF how = "none" THEN {} ELSE conflicts,
                supersede |-> IF how = "supersede_existing"
                                THEN named \cup conflicts ELSE named]
             after(v, how, named) ==
               [disk EXCEPT !.conflicts = @ \cup ConflictRows(c),
                            !.decisions = @ \cup {d(v, how, named)}]
             order == <<"conflicts", "decisions">>
  <1>1. PICK v \in Verdicts, how \in Resolutions, named \in SUBSET Ids(disk.memory) :
          Stage(after(v, how, named), order, FALSE)
    BY DEF Review
  <1> DEFINE decision == d(v, how, named)
             new == after(v, how, named)
  <1>2. Stage(new, order, FALSE) /\ Idle /\ sweep' = sweep /\ Sound(disk)
    BY <1>1, RestRecords DEF Review
  <1>3. /\ decision.candidate = c
        /\ \A m \in decision.resolved : [candidate |-> c, memory |-> m] \in ConflictRows(c)
    BY DEF ConflictRows, Ids
  <1>4. /\ new.conflicts = disk.conflicts \cup ConflictRows(c)
        /\ new.decisions = disk.decisions \cup {decision}
        /\ new.memory = disk.memory
    <2> HIDE DEF d
    <2> QED
      BY DEF TypeOK, Disk
  <1> HIDE DEF new, decision, d, after
  <1>5. ASSUME NEW n \in 0 .. 2 PROVE Sound(View(disk, new, order, n))
    <2> DEFINE b == View(disk, new, order, n)
    <2>1. /\ b.conflicts = IF n >= 1 THEN new.conflicts ELSE disk.conflicts
          /\ b.decisions = IF n >= 2 THEN new.decisions ELSE disk.decisions
          /\ b.candidates = disk.candidates /\ b.suggestions = disk.suggestions
          /\ ReviewsOnly(b)
      BY DEF View, FileNames, ReviewsOnly
    <2> HIDE DEF b
    <2>2. \A e \in b.decisions \ disk.decisions :
            /\ e.candidate \in b.candidates
            /\ \A m \in e.resolved : [candidate |-> e.candidate, memory |-> m] \in b.conflicts
      BY <1>3, <1>4, <2>1
    <2>3. Sound(b)
      BY <1>2, <1>4, <2>1, <2>2, SoundReviews
    <2> QED
      BY <2>3 DEF b
  <1>6. Len(order) = 2 /\ order # <<>>
    OBVIOUS
  <1> HIDE DEF order
  <1> QED
    BY <1>2, <1>4, <1>5, <1>6, QuietStage

-----------------------------------------------------------------------------
(* Mutations of canonical memory.                                          *)

\* append_mutation's row is about the memory, and of the kind asked for.
LEMMA MutationForRefers ==
  ASSUME disk \in Disk, NEW r, NEW kind, NEW after
  PROVE  MutationFor(r, kind, after).memory = r.id /\ MutationFor(r, kind, after).kind = kind
  <1> DEFINE same == {x \in MutationsOf(r.id) : x.kind = kind /\ x.after = r}
  <1>1. CASE after = r /\ same # {}
    <2>1. same \in SUBSET Mutation
      BY DEF MutationsOf, Disk
    <2>2. LastOf(same) \in same
      <3> HIDE DEF same
      <3> QED
        BY <1>1, <2>1, LastMutationExists
    <2> QED
      BY <1>1, <2>2 DEF MutationFor, MutationsOf
  <1>2. CASE ~ (after = r /\ same # {})
    BY <1>2 DEF MutationFor
  <1> QED
    BY <1>1, <1>2

\* append_mutation replaces the row, then adds the mutation, then its receipt.
LEMMA AppendMutationRecords ==
  ASSUME TypeOK, TypeOK', RecordsInv, todo = <<>>,
         NEW r \in disk.memory, NEW after, NEW kind, NEW receipts \in Disk,
         NEW receiptFile \in {<<>>, <<"supersession">>, <<"tombstones">>},
         AppendMutation(r, kind, after, receipts, receiptFile),
         after.id = r.id, after.state = "active" => r.state = "active",
         \A f \in FileNames \ {"supersession", "tombstones"} : receipts[f] = disk[f],
         \A e \in receipts.supersession \ disk.supersession :
           /\ e.to \in Ids(disk.memory) /\ e.from = r.id /\ kind = "supersede"
           /\ e.mutation = MutationFor(r, kind, after).revision,
         \A t \in receipts.tombstones \ disk.tombstones :
           /\ t.memory = r.id /\ kind = "tombstone"
           /\ t.mutation = MutationFor(r, kind, after).revision,
         UndatedIn((disk.memory \ {r}) \cup {after}, sweep', retention')
  PROVE  RecordsInv'
  <1> DEFINE x == MutationFor(r, kind, after)
             new == [receipts EXCEPT !.memory = (@ \ {r}) \cup {after},
                                     !.mutations = @ \cup {x}]
             order == <<"memory", "mutations">> \o receiptFile
  <1>1. Stage(new, order, FALSE) /\ Valid(after)
    BY DEF AppendMutation
  <1>2. Sound(disk) /\ disk \in Disk
    BY RestRecords DEF TypeOK
  <1>3. x.memory = r.id /\ x.kind = kind
    BY <1>2, MutationForRefers
  <1> HIDE DEF x
  <1>4. /\ new.memory = (disk.memory \ {r}) \cup {after}
        /\ new.mutations = disk.mutations \cup {x}
        /\ new.supersession = receipts.supersession
        /\ new.tombstones = receipts.tombstones
    <2>1. receipts.memory = disk.memory /\ receipts.mutations = disk.mutations
      BY DEF FileNames
    <2> QED
      BY <2>1 DEF Disk
  <1>5. /\ Ids(new.memory) = Ids(disk.memory)
        /\ OneRowPerId(new.memory) /\ AllValid(new.memory)
        /\ NoneRevived(disk.memory, new.memory)
    BY <1>1, <1>2, <1>4 DEF Ids, Sound, OneRowPerId, AllValid, NoneRevived
  <1>6. /\ order \in Seq(FileNames) /\ Len(order) \in {2, 3}
        /\ order[1] = "memory" /\ order[2] = "mutations"
        /\ Len(order) = 3 => order[3] \in {"supersession", "tombstones"}
    <2> DEFINE first == <<"memory", "mutations">>
    <2>1. /\ receiptFile \in Seq(FileNames) /\ Len(receiptFile) \in {0, 1}
          /\ Len(receiptFile) = 1 => receiptFile[1] \in {"supersession", "tombstones"}
      <3>1. CASE receiptFile = <<>>
        BY <3>1
      <3>2. CASE receiptFile = <<"supersession">>
        BY <3>2 DEF FileNames
      <3>3. CASE receiptFile = <<"tombstones">>
        BY <3>3 DEF FileNames
      <3> QED
        BY <3>1, <3>2, <3>3
    <2>2. /\ first \in Seq(FileNames) /\ Len(first) = 2
          /\ first[1] = "memory" /\ first[2] = "mutations"
      BY DEF FileNames
    <2>3. order = first \o receiptFile
      OBVIOUS
    <2> HIDE DEF first, order
    <2>4. /\ order \in Seq(FileNames) /\ Len(order) = 2 + Len(receiptFile)
          /\ order[1] = first[1] /\ order[2] = first[2]
          /\ Len(order) = 3 => order[3] = receiptFile[1]
      <3>1. /\ first \o receiptFile \in Seq(FileNames)
            /\ Len(first \o receiptFile) = Len(first) + Len(receiptFile)
            /\ \A i \in 1 .. Len(first) + Len(receiptFile) :
                 (first \o receiptFile)[i] = IF i <= Len(first) THEN first[i]
                                             ELSE receiptFile[i - Len(first)]
        <4>1. receiptFile \in Seq(FileNames) /\ first \in Seq(FileNames)
          BY <2>1, <2>2
        <4> QED
          BY ONLY <4>1, ConcatProperties, Zenon
      <3>2. PICK l \in {0, 1} : l = Len(receiptFile)
        BY <2>1
      <3>3. /\ order \in Seq(FileNames) /\ Len(order) = 2 + l
            /\ \A i \in 1 .. 2 + l :
                 order[i] = IF i <= 2 THEN first[i] ELSE receiptFile[i - 2]
        BY <2>2, <2>3, <3>1, <3>2
      <3>4. 1 \in 1 .. 2 + l /\ 2 \in 1 .. 2 + l /\ (l = 1 => 3 \in 1 .. 2 + l)
        OBVIOUS
      <3>5. l = 1 => order[3] = receiptFile[1]
        BY <3>3, <3>4
      <3> QED
        BY <3>2, <3>3, <3>4, <3>5
    <2>5. Len(order) \in {2, 3} /\ (Len(order) = 3 => Len(receiptFile) = 1)
      <3>1. Len(receiptFile) \in {0, 1} /\ Len(order) = 2 + Len(receiptFile)
        BY <2>1, <2>4
      <3>2. CASE Len(receiptFile) = 0
        BY ONLY <3>1, <3>2
      <3>3. CASE Len(receiptFile) = 1
        BY ONLY <3>1, <3>3
      <3> QED
        BY ONLY <3>1, <3>2, <3>3
    <2>6. order[1] = "memory" /\ order[2] = "mutations"
      BY ONLY <2>2, <2>4
    <2>7. Len(order) = 3 => order[3] \in {"supersession", "tombstones"}
      BY ONLY <2>1, <2>4, <2>5
    <2> QED
      BY ONLY <2>4, <2>5, <2>6, <2>7
  <1> HIDE DEF order
  <1>7. \E i \in DOMAIN order : order[i] = "memory"
    BY <1>6
  <1>8. order # <<>> /\ Len(order) \in 2 .. 3
    BY <1>6
  <1> HIDE DEF new
  <1>9. ASSUME NEW n \in 0 .. Len(order) PROVE Sound(View(disk, new, order, n))
    <2> DEFINE b == View(disk, new, order, n)
    <2>1. /\ b.memory = IF n >= 1 THEN new.memory ELSE disk.memory
          /\ b.mutations = IF n >= 2 THEN new.mutations ELSE disk.mutations
          /\ b.supersession # disk.supersession =>
               n >= 2 /\ b.supersession = receipts.supersession
          /\ b.tombstones # disk.tombstones => n >= 2 /\ b.tombstones = receipts.tombstones
          /\ b.candidates = disk.candidates /\ b.conflicts = disk.conflicts
          /\ b.decisions = disk.decisions /\ b.suggestions = disk.suggestions
          /\ b.applications = disk.applications
      <3>1. n \in Nat
        BY <1>8
      <3>2. order[1] = "memory" /\ order[2] = "mutations"
        BY <1>6
      <3>3. Len(order) = 3 => order[3] \in {"supersession", "tombstones"}
        BY <1>6
      <3>4. \A i \in 1 .. n : i = 1 \/ i = 2 \/ (i = 3 /\ Len(order) = 3)
        <4>1. PICK k \in {2, 3} : k = Len(order)
          BY <1>6
        <4>2. n \in 0 .. k
          BY <4>1
        <4> QED
          BY <4>1, <4>2
      <3>5. /\ \A f \in FileNames \ {"memory", "mutations", "supersession", "tombstones"} :
                 ~ \E i \in 1 .. n : order[i] = f
            /\ (\E i \in 1 .. n : order[i] = "memory") <=> n >= 1
            /\ (\E i \in 1 .. n : order[i] = "mutations") <=> n >= 2
            /\ \A f \in {"supersession", "tombstones"} :
                 (\E i \in 1 .. n : order[i] = f) => n >= 2
        <4>1. \A i \in 1 .. n : order[i] \in {"memory", "mutations", "supersession", "tombstones"}
          BY <3>2, <3>3, <3>4
        <4>2. n >= 1 => 1 \in 1 .. n
          BY <3>1
        <4>3. n >= 2 => 2 \in 1 .. n
          BY <3>1
        <4>4. \A i \in 1 .. n : i >= 1 /\ n >= i /\ i \in Nat
          BY <3>1
        <4> QED
          BY <3>1, <3>2, <3>3, <3>4, <4>1, <4>2, <4>3, <4>4
      <3>6. \A f \in FileNames : b[f] = IF \E i \in 1 .. n : order[i] = f THEN new[f] ELSE disk[f]
        BY ViewField
      <3> HIDE DEF b
      <3> QED
        BY <1>4, <3>5, <3>6 DEF FileNames
    <2> HIDE DEF b
    <2>2. Ids(b.memory) = Ids(disk.memory) /\ OneRowPerId(b.memory) /\ AllValid(b.memory)
      BY <1>2, <1>5, <2>1 DEF Sound
    <2>3. \A m \in b.mutations \ disk.mutations : m.memory \in Ids(b.memory)
      <3>1. r.id \in Ids(disk.memory)
        BY DEF Ids
      <3> QED
        BY <1>3, <1>4, <2>1, <2>2, <3>1
    <2>4. \A e \in b.supersession \ disk.supersession :
            /\ e.to \in Ids(b.memory)
            /\ \E m \in b.mutations :
                 m.memory = e.from /\ m.revision = e.mutation /\ m.kind = "supersede"
      BY <1>3, <1>4, <2>1, <2>2 DEF x
    <2>5. \A t \in b.tombstones \ disk.tombstones : \E m \in b.mutations :
            m.memory = t.memory /\ m.revision = t.mutation /\ m.kind = "tombstone"
      BY <1>3, <1>4, <2>1, <2>2 DEF x
    <2>6. AppliedOnce(b.applications) /\ disk.mutations \subseteq b.mutations
      BY <1>2, <1>4, <2>1 DEF Sound
    <2>7. Sound(b)
      BY <1>2, <2>1, <2>2, <2>3, <2>4, <2>5, <2>6, SoundMore
    <2> QED
      BY <2>7 DEF b
  <1>10. UndatedIn(new.memory, sweep', retention')
    BY <1>4
  <1> QED
    BY <1>1, <1>5, <1>7, <1>8, <1>9, <1>10, StageRecords

\* A mutation with no receipt besides its own row.
LEMMA PlainMutationRecords ==
  ASSUME TypeOK, TypeOK', RecordsInv, todo = <<>>,
         NEW r \in disk.memory, NEW after, NEW kind,
         AppendMutation(r, kind, after, disk, <<>>),
         after.id = r.id, after.state = "active" => r.state = "active",
         UndatedIn((disk.memory \ {r}) \cup {after}, sweep', retention')
  PROVE  RecordsInv'
  <1>1. disk \in Disk
    BY DEF TypeOK
  <1>2. <<>> \in {<<>>, <<"supersession">>, <<"tombstones">>}
    OBVIOUS
  <1> QED
    BY <1>1, <1>2, AppendMutationRecords

\* confidence and verify.
LEMMA UpdateRecords ==
  ASSUME TypeOK, TypeOK', RecordsInv, NEW r \in disk.memory, Confidence(r) \/ Verify(r)
  PROVE  RecordsInv'
  <1>1. r \in Row
    BY DEF TypeOK, Disk
  <1>2. CASE Confidence(r)
    <2>1. PICK x \in Confidences, e \in EpistemicStates :
            AppendMutation(r, "confidence_update",
                           [r EXCEPT !.confidence = x, !.epistemic = e], disk, <<>>)
      BY <1>2 DEF Confidence
    <2> DEFINE after == [r EXCEPT !.confidence = x, !.epistemic = e]
    <2>2. after.id = r.id /\ after.state = r.state
      BY <1>1 DEF Row
    <2>3. todo = <<>> /\ sweep' = {}
      BY <1>2 DEF Confidence, Idle
    <2>4. UndatedIn((disk.memory \ {r}) \cup {after}, sweep', retention')
      BY <2>3 DEF UndatedIn
    <2>5. AppendMutation(r, "confidence_update", after, disk, <<>>)
      BY <2>1
    <2> HIDE DEF after
    <2> QED
      BY <2>2, <2>3, <2>4, <2>5, PlainMutationRecords
  <1>3. CASE Verify(r)
    <2>1. PICK x \in Confidences, t \in {r.verified, r.verified + 1} \ {0} :
            AppendMutation(r, "verification",
              [r EXCEPT !.confidence = x, !.epistemic = "verified", !.verified = t],
              disk, <<>>)
      BY <1>3 DEF Verify
    <2> DEFINE after == [r EXCEPT !.confidence = x, !.epistemic = "verified", !.verified = t]
    <2>2. after.id = r.id /\ after.state = r.state
      BY <1>1 DEF Row
    <2>3. todo = <<>> /\ sweep' = {}
      BY <1>3 DEF Verify, Idle
    <2>4. UndatedIn((disk.memory \ {r}) \cup {after}, sweep', retention')
      BY <2>3 DEF UndatedIn
    <2>5. AppendMutation(r, "verification", after, disk, <<>>)
      BY <2>1
    <2> HIDE DEF after
    <2> QED
      BY <2>2, <2>3, <2>4, <2>5, PlainMutationRecords
  <1> QED
    BY <1>2, <1>3

\* tombstone writes the receipt after the mutation it names.
LEMMA TombstoneRecords ==
  ASSUME TypeOK, TypeOK', RecordsInv, NEW r \in disk.memory, TombstoneMemory(r)
  PROVE  RecordsInv'
  <1> DEFINE x == MutationFor(r, "tombstone", Tombstoned(r))
             receipt == [memory |-> r.id, mutation |-> x.revision]
             files == [disk EXCEPT !.tombstones = @ \cup {receipt}]
  <1>1. AppendMutation(r, "tombstone", Tombstoned(r), files, <<"tombstones">>)
    BY DEF TombstoneMemory
  <1>2. disk \in Disk /\ r \in Row /\ Tombstoned(r) \in Row /\ MutationBound(r)
    BY <1>1, StateChangeType DEF AppendMutation, TypeOK, Disk
  <1>3. receipt \in Tombstone
    <2>1. x \in Mutation
      BY <1>2, MutationForType
    <2> HIDE DEF x
    <2> QED
      BY <1>2, <2>1 DEF Mutation, Tombstone, Row
  <1>4. receipt.memory = r.id /\ receipt.mutation = x.revision
    OBVIOUS
  <1> HIDE DEF receipt, x
  <1>5. files \in Disk /\ files.tombstones = disk.tombstones \cup {receipt}
    BY <1>2, <1>3 DEF Disk
  <1>6. \A f \in FileNames \ {"tombstones"} : files[f] = disk[f]
    BY <1>2 DEF Disk, FileNames
  <1>7. Tombstoned(r).id = r.id /\ Tombstoned(r).state = "tombstoned"
    BY <1>2 DEF Tombstoned, Row
  <1>8. todo = <<>> /\ sweep' = {}
    BY DEF TombstoneMemory, Idle
  <1>9. UndatedIn((disk.memory \ {r}) \cup {Tombstoned(r)}, sweep', retention')
    BY <1>8 DEF UndatedIn
  <1>10. files.supersession = disk.supersession
    BY <1>6 DEF FileNames
  <1>11. \A t \in files.tombstones \ disk.tombstones :
           /\ t.memory = r.id /\ "tombstone" = "tombstone"
           /\ t.mutation = MutationFor(r, "tombstone", Tombstoned(r)).revision
    BY <1>4, <1>5 DEF x
  <1>12. <<"tombstones">> \in {<<>>, <<"supersession">>, <<"tombstones">>}
    OBVIOUS
  <1> HIDE DEF files
  <1> QED
    BY <1>1, <1>5, <1>6, <1>7, <1>8, <1>9, <1>10, <1>11, <1>12, AppendMutationRecords

\* supersede writes the edge after the mutation it names.
LEMMA SupersedeRecords ==
  ASSUME TypeOK, TypeOK', RecordsInv,
         NEW r \in disk.memory, NEW by \in disk.memory, Supersede(r, by)
  PROVE  RecordsInv'
  <1> DEFINE x == MutationFor(r, "supersede", Superseded(r))
             edge == [from |-> r.id, to |-> by.id, mutation |-> x.revision]
             files == [disk EXCEPT !.supersession = @ \cup {edge}]
  <1>1. AppendMutation(r, "supersede", Superseded(r), files, <<"supersession">>)
    BY DEF Supersede
  <1>2. /\ disk \in Disk /\ r \in Row /\ by \in Row /\ Superseded(r) \in Row
        /\ MutationBound(r)
    BY <1>1, StateChangeType DEF AppendMutation, TypeOK, Disk
  <1>3. edge \in Edge
    <2>1. x \in Mutation
      BY <1>2, MutationForType
    <2> HIDE DEF x
    <2> QED
      BY <1>2, <2>1 DEF Mutation, Edge, Row
  <1>4. edge.from = r.id /\ edge.to = by.id /\ edge.mutation = x.revision
    OBVIOUS
  <1> HIDE DEF edge, x
  <1>5. files \in Disk /\ files.supersession = disk.supersession \cup {edge}
    BY <1>2, <1>3 DEF Disk
  <1>6. \A f \in FileNames \ {"supersession"} : files[f] = disk[f]
    BY <1>2 DEF Disk, FileNames
  <1>7. Superseded(r).id = r.id /\ Superseded(r).state = "superseded"
    BY <1>2 DEF Superseded, Row
  <1>8. todo = <<>> /\ sweep' = {}
    BY DEF Supersede, Idle
  <1>9. UndatedIn((disk.memory \ {r}) \cup {Superseded(r)}, sweep', retention')
    BY <1>8 DEF UndatedIn
  <1>10. files.tombstones = disk.tombstones
    BY <1>6 DEF FileNames
  <1>11. \A e \in files.supersession \ disk.supersession :
           /\ e.to \in Ids(disk.memory) /\ e.from = r.id /\ "supersede" = "supersede"
           /\ e.mutation = MutationFor(r, "supersede", Superseded(r)).revision
    BY <1>4, <1>5 DEF x, Ids
  <1>12. <<"supersession">> \in {<<>>, <<"supersession">>, <<"tombstones">>}
    OBVIOUS
  <1> HIDE DEF files
  <1> QED
    BY <1>1, <1>5, <1>6, <1>7, <1>8, <1>9, <1>10, <1>11, <1>12, AppendMutationRecords

-----------------------------------------------------------------------------
(* Retention.                                                              *)

\* A command that leaves the files and the running command alone.
LEMMA StillRecords ==
  ASSUME RecordsInv, UNCHANGED <<disk, volatile>>, SweepFits'
  PROVE  RecordsInv'
  BY DEF volatile, RecordsInv, StaysSound, ApplyUnderway, MemoryFits, MemoryPending,
         RollingBack, Approvals, LastWordApproves, DecisionsOf, AtRest

\* A step of the sweep changes the row that is there; an active row without a date
\* is still to be visited while the policy sets a period.
LEMMA SweepRecords ==
  ASSUME TypeOK, TypeOK', RecordsInv, Sweep
  PROVE  RecordsInv'
  <1>1. PICK r \in sweep : AssignExpiry(r) \/ Expire(r) \/ Keep(r)
    BY DEF Sweep
  <1>2. todo = <<>> /\ retention' = retention
    BY <1>1 DEF AssignExpiry, Expire, Keep, AtRow
  <1>3. staged = disk /\ Sound(disk) /\ disk.memory \subseteq Row
    BY <1>2, RestRecords DEF TypeOK, Disk
  <1>4. retention \in Retentions =>
          \A s \in disk.memory : s.state = "active" /\ s.expires = NoExpiry => s \in sweep
    BY <1>1, <1>3 DEF RecordsInv, SweepFits, UndatedIn
  <1>5. CASE AssignExpiry(r)
    <2>1. /\ AppendMutation(r, "retention_set", Dated(r), disk, <<>>)
          /\ sweep' = sweep /\ r \in disk.memory /\ retention \in Retentions
      BY <1>5 DEF AssignExpiry, Underway
    <2>2. Dated(r).id = r.id /\ Dated(r).state = r.state /\ Dated(r).expires # NoExpiry
      BY <1>3, <2>1, ConstantsAssumption DEF Dated, Row
    <2>3. UndatedIn((disk.memory \ {r}) \cup {Dated(r)}, sweep', retention')
      BY <1>4, <2>1, <2>2 DEF UndatedIn
    <2> QED
      BY <1>2, <2>1, <2>2, <2>3, PlainMutationRecords
  <1>6. CASE Expire(r)
    <2>1. PICK current \in disk.memory :
            /\ current.id = r.id
            /\ AppendMutation(current, "expire", [current EXCEPT !.state = "expired"], disk, <<>>)
      BY <1>6 DEF Expire
    <2> DEFINE after == [current EXCEPT !.state = "expired"]
    <2>2. after.id = current.id /\ after.state = "expired"
      BY <1>3 DEF Row
    <2>3. AppendMutation(current, "expire", after, disk, <<>>) /\ sweep' = sweep \ {r}
      BY <1>6, <2>1 DEF Expire
    <2> HIDE DEF after
    <2>4. r \in disk.memory => r = current
      BY <1>3, <2>1 DEF Sound, OneRowPerId
    <2>5. UndatedIn((disk.memory \ {current}) \cup {after}, sweep', retention')
      BY <1>2, <1>4, <2>2, <2>3, <2>4 DEF UndatedIn
    <2> QED
      BY <1>2, <2>2, <2>3, <2>5, PlainMutationRecords
  <1>7. CASE Keep(r)
    <2>1. PICK current \in disk.memory :
            current.id = r.id /\ (current.expires # NoExpiry \/ retention \notin Retentions)
      BY <1>7 DEF Keep
    <2>2. UNCHANGED <<disk, volatile, retention>> /\ sweep' = sweep \ {r}
      BY <1>7 DEF Keep
    <2>3. r \in disk.memory => r = current
      BY <1>3, <2>1 DEF Sound, OneRowPerId
    <2>4. UndatedIn(disk.memory, sweep', retention)
      BY <1>4, <2>1, <2>2, <2>3 DEF UndatedIn
    <2>5. SweepFits'
      BY <1>3, <2>2, <2>4 DEF volatile, RecordsInv, SweepFits
    <2> QED
      BY <2>2, <2>5, StillRecords
  <1> QED
    BY <1>1, <1>5, <1>6, <1>7

\* retention-policy, and enforce-retention as it looks for the rows to visit.
LEMMA RetentionRecords ==
  ASSUME TypeOK, RecordsInv, SetRetention \/ EnforceRetention
  PROVE  RecordsInv'
  <1>1. Idle /\ UNCHANGED <<disk, volatile>>
    BY DEF SetRetention, EnforceRetention
  <1>2. staged' = disk' /\ ~ atomic'
    BY <1>1, RestRecords DEF Idle, volatile
  <1>3. SweepFits'
    <2>1. CASE SetRetention
      BY <1>1, <1>2, <2>1 DEF SetRetention, Idle, SweepFits, UndatedIn
    <2>2. CASE EnforceRetention
      BY <1>1, <1>2, <2>2 DEF EnforceRetention, Swept, SweepFits, UndatedIn
    <2> QED
      BY <2>1, <2>2
  <1> QED
    BY <1>1, <1>3, StillRecords

\* A command that dies leaves the files as they are between two replacements.
LEMMA CrashRecords ==
  ASSUME TypeOK, TypeOK', RecordsInv, Crash
  PROVE  RecordsInv'
  <1>1. Settle(disk') /\ sweep' = {} /\ disk' = disk
    BY DEF Crash
  <1>2. UndatedIn(disk'.memory, sweep', retention')
    BY <1>1 DEF UndatedIn
  <1> QED
    BY <1>1, <1>2, RestRecords, SettleRecords

-----------------------------------------------------------------------------
(* apply.                                                                  *)

\* The latest decision has the greatest revision.
LEMMA LatestDecisionIsLast ==
  ASSUME disk \in Disk, NEW c, DecisionsOf(c) # {}
  PROVE  /\ LatestDecision(c) \in DecisionsOf(c)
         /\ \A e \in DecisionsOf(c) : e.revision <= LatestDecision(c).revision
  <1> DEFINE ds == DecisionsOf(c)
             revisions == {d.revision : d \in ds}
  <1>1. revisions \in SUBSET (0 .. MaxDecisions) /\ revisions # {}
    BY DEF Decision, Disk, DecisionsOf
  <1>2. PICK n \in revisions : \A k \in revisions : k <= n
    <2> HIDE DEF revisions
    <2> QED
      BY <1>1, GreatestElement, ConstantsAssumption
  <1>3. \E d \in ds : \A e \in ds : e.revision <= d.revision
    BY <1>2
  <1> QED
    BY <1>3 DEF LatestDecision

\* One more receipt, for a decision that has none.
LEMMA AppliedOnceMore ==
  ASSUME NEW apps \in Seq(Application), NEW a \in Application, AppliedOnce(apps),
         \A i \in DOMAIN apps :
           ~ (apps[i].candidate = a.candidate /\ apps[i].decision = a.decision)
  PROVE  /\ AppliedOnce(Append(apps, a))
         /\ \A i \in DOMAIN Append(apps, a) :
              \/ i \in DOMAIN apps /\ Append(apps, a)[i] = apps[i]
              \/ Append(apps, a)[i] = a
  <1> DEFINE more == Append(apps, a)
  <1>1. /\ DOMAIN apps = 1 .. Len(apps) /\ Len(apps) \in Nat
        /\ DOMAIN more = 1 .. Len(apps) + 1
        /\ \A i \in 1 .. Len(apps) : more[i] = apps[i]
        /\ more[Len(apps) + 1] = a
    OBVIOUS
  <1> HIDE DEF more
  <1>2. \A i \in DOMAIN more : i \in DOMAIN apps \/ i = Len(apps) + 1
    BY <1>1
  <1>3. AppliedOnce(more)
    BY <1>1, <1>2 DEF AppliedOnce
  <1> QED
    BY <1>1, <1>2, <1>3 DEF more

\* The rows of memory after an apply: row is added, the retired ones are superseded.
LEMMA AppliedMemory ==
  ASSUME NEW rows, rows \subseteq Row, NEW row \in Row, NEW targets, row.id \notin targets,
         OneRowPerId(rows), AllValid(rows), Valid(row), row.state = "active",
         ~ \E r \in rows : r.id = row.id /\ r # row,
         NEW later,
         later = ((rows \cup {row}) \ {r \in rows : r.id \in targets})
                   \cup {Superseded(r) : r \in {r \in rows : r.id \in targets}}
  PROVE  /\ OneRowPerId(later) /\ AllValid(later) /\ NoneRevived(rows, later)
         /\ Ids(rows) \subseteq Ids(later) /\ row \in later
         /\ \A s \in later : s.id \in Ids(rows) \/ s = row
  <1>1. \A r \in rows : Superseded(r).id = r.id /\ Superseded(r).epistemic = r.epistemic
                        /\ Superseded(r).state = "superseded"
    BY DEF Superseded, Row
  <1>2. \A s \in later : \/ s \in rows /\ s.id \notin targets
                         \/ s = row
                         \/ \E r \in rows : r.id \in targets /\ s = Superseded(r)
    OBVIOUS
  <1>3. OneRowPerId(later)
    BY <1>1, <1>2 DEF OneRowPerId
  <1>4. AllValid(later)
    BY <1>1, <1>2 DEF AllValid, Valid
  <1>5. NoneRevived(rows, later)
    BY <1>1, <1>2 DEF NoneRevived, OneRowPerId
  <1>6. Ids(rows) \subseteq Ids(later)
    <2> SUFFICES ASSUME NEW r \in rows PROVE \E s \in later : s.id = r.id
      BY DEF Ids
    <2>1. CASE r.id \in targets
      BY <1>1, <2>1
    <2>2. CASE r.id \notin targets
      BY <2>2
    <2> QED
      BY <2>1, <2>2
  <1>7. row \in later /\ \A s \in later : s.id \in Ids(rows) \/ s = row
    <2>1. row \notin {r \in rows : r.id \in targets}
      OBVIOUS
    <2> QED
      BY <1>1, <1>2, <2>1 DEF Ids
  <1> QED
    BY <1>3, <1>4, <1>5, <1>6, <1>7

\* apply: the files stay sound after each replacement, and while they do the
\* transaction can put back the ones it replaced.
LEMMA ApplyRecords ==
  ASSUME TypeOK, TypeOK', RecordsInv, NEW c \in disk.candidates, Apply(c)
  PROVE  RecordsInv'
  <1> DEFINE d == LatestDecision(c)
             targets == Targets(c, d)
             id == Identity(c, targets)
             row == Proposed(c, id)
             retired == {r \in disk.memory : r.id \in targets}
             application == [candidate |-> c, decision |-> d.revision, memory |-> id,
                             written |-> row, key |-> CandidateKey(c)]
             memory == ((disk.memory \cup {row}) \ retired) \cup {Superseded(r) : r \in retired}
             mutations == {SupersedeMutation(r) : r \in retired}
             edges == {[from |-> r.id, to |-> id, mutation |-> NextMutation(r.id)] : r \in retired}
             new == [disk EXCEPT !.conflicts = @ \cup ConflictRows(c),
                                 !.memory = memory,
                                 !.mutations = @ \cup mutations,
                                 !.supersession = @ \cup edges,
                                 !.applications = Append(@, application)]
  <1>1. Stage(new, ApplyOrder, TRUE) /\ sweep' = sweep
    BY DEF Apply, ApplyOrder
  <1>2. disk \in Disk /\ c \in Candidate /\ Sound(disk) /\ Idle
    BY RestRecords DEF TypeOK, Disk, Apply
  <1>3. /\ d \in disk.decisions /\ d \in Decision /\ d.candidate = c /\ d.verdict = "approve"
        /\ \A e \in DecisionsOf(c) : e.revision <= d.revision
    BY <1>2, LatestDecisionIsLast DEF Disk, DecisionsOf, Apply, Approved
  <1>4. targets \in SUBSET MemoryId
    BY <1>2, <1>3 DEF Targets, Candidate, Decision
  <1>5. /\ id \in MemoryId /\ row \in Row
        /\ row.id = id /\ id[1].proposal = c.proposal /\ row.state = "active"
    <2>1. retention # Torn
      BY DEF Apply
    <2> HIDE DEF targets
    <2>2. id \in MemoryId /\ row.id = id /\ id[1].proposal = c.proposal
      BY <1>2, <1>4, <2>1, AppliedProposal, IdentityType
    <2> HIDE DEF id
    <2> QED
      BY <1>2, <2>1, <2>2, ProposedType DEF Proposed
  <1>6. application \in Application
    <2>1. CandidateKey(c) \in SemanticKeys
      BY <1>2, CandidateKeyType
    <2>2. d.revision \in 1 .. MaxDecisions
      BY <1>3 DEF Decision
    <2> HIDE DEF d, id, row
    <2> QED
      BY <1>2, <1>5, <2>1, <2>2 DEF Application
  <1>7. /\ ~ AlreadyApplied(c, d) /\ Valid(row) /\ ~ Collides(row) /\ id \notin targets
    BY DEF Apply
  <1>8. /\ OneRowPerId(memory) /\ AllValid(memory) /\ NoneRevived(disk.memory, memory)
        /\ Ids(disk.memory) \subseteq Ids(memory) /\ row \in memory
        /\ \A s \in memory : s.id \in Ids(disk.memory) \/ s = row
    <2>1. OneRowPerId(disk.memory) /\ AllValid(disk.memory) /\ disk.memory \subseteq Row
      BY <1>2 DEF Sound, Disk
    <2>2. ~ \E r \in disk.memory : r.id = row.id /\ r # row
      BY <1>7 DEF Collides
    <2> HIDE DEF row, id, targets
    <2> QED
      BY <1>5, <1>7, <2>1, <2>2, AppliedMemory
  <1>9. \A x \in mutations : x.memory \in Ids(disk.memory)
    BY DEF SupersedeMutation, Ids
  <1>10. \A e \in edges : /\ e.to = id
                          /\ \E x \in mutations :
                               x.memory = e.from /\ x.revision = e.mutation /\ x.kind = "supersede"
    <2> SUFFICES ASSUME NEW r \in retired,
                        NEW e, e = [from |-> r.id, to |-> id, mutation |-> NextMutation(r.id)]
                 PROVE  /\ e.to = id
                        /\ \E x \in mutations :
                             x.memory = e.from /\ x.revision = e.mutation /\ x.kind = "supersede"
      OBVIOUS
    <2>1. /\ SupersedeMutation(r).memory = r.id
          /\ SupersedeMutation(r).revision = NextMutation(r.id)
          /\ SupersedeMutation(r).kind = "supersede"
      BY DEF SupersedeMutation
    <2>2. SupersedeMutation(r) \in mutations
      OBVIOUS
    <2> HIDE DEF id, retired, mutations
    <2> QED
      BY <2>1, <2>2
  <1>11. /\ AppliedOnce(Append(disk.applications, application))
         /\ \A i \in DOMAIN Append(disk.applications, application) :
              \/ /\ i \in DOMAIN disk.applications
                 /\ Append(disk.applications, application)[i] = disk.applications[i]
              \/ Append(disk.applications, application)[i] = application
    <2>1. /\ disk.applications \in Seq(Application) /\ AppliedOnce(disk.applications)
      BY <1>2 DEF Disk, Sound
    <2>2. application.candidate = c /\ application.decision = d.revision
      OBVIOUS
    <2> HIDE DEF application, d
    <2>3. \A i \in DOMAIN disk.applications :
            ~ (disk.applications[i].candidate = application.candidate
               /\ disk.applications[i].decision = application.decision)
      BY <1>7, <2>2 DEF AlreadyApplied
    <2> QED
      BY <1>6, <2>1, <2>3, AppliedOnceMore
  <1>12. /\ application.memory = id /\ application.candidate = c
         /\ application.decision = d.revision
    OBVIOUS
  <1> HIDE DEF memory, mutations, edges, application, d, row, id
  <1>13. /\ new.conflicts = disk.conflicts \cup ConflictRows(c)
         /\ new.memory = memory
         /\ new.mutations = disk.mutations \cup mutations
         /\ new.supersession = disk.supersession \cup edges
         /\ new.applications = Append(disk.applications, application)
    BY <1>2 DEF Disk
  <1> HIDE DEF new
  <1>14. ASSUME NEW n \in 0 .. 5 PROVE Sound(View(disk, new, ApplyOrder, n))
    <2> DEFINE b == View(disk, new, ApplyOrder, n)
    <2>1. /\ b.conflicts = IF n >= 1 THEN new.conflicts ELSE disk.conflicts
          /\ b.memory = IF n >= 2 THEN new.memory ELSE disk.memory
          /\ b.mutations = IF n >= 3 THEN new.mutations ELSE disk.mutations
          /\ b.supersession = IF n >= 4 THEN new.supersession ELSE disk.supersession
          /\ b.applications = IF n >= 5 THEN new.applications ELSE disk.applications
          /\ b.candidates = disk.candidates /\ b.decisions = disk.decisions
          /\ b.suggestions = disk.suggestions /\ b.tombstones = disk.tombstones
      BY ApplyOrderIs DEF View, FileNames
    <2> HIDE DEF b
    <2>2. /\ Ids(disk.memory) \subseteq Ids(b.memory)
          /\ OneRowPerId(b.memory) /\ AllValid(b.memory)
          /\ n >= 2 => id \in Ids(b.memory)
      BY <1>2, <1>5, <1>8, <1>13, <2>1 DEF Sound, Ids
    <2>3. \A x \in b.conflicts \ disk.conflicts :
            x.candidate \in b.candidates /\ x.memory \in Ids(b.memory)
      BY <1>13, <2>1, <2>2, ConflictRowsRefer
    <2>4. \A x \in b.mutations \ disk.mutations : x.memory \in Ids(b.memory)
      BY <1>9, <1>13, <2>1, <2>2
    <2>5. \A e \in b.supersession \ disk.supersession :
            /\ e.to \in Ids(b.memory)
            /\ \E x \in b.mutations :
                 x.memory = e.from /\ x.revision = e.mutation /\ x.kind = "supersede"
      <3> SUFFICES ASSUME NEW e \in b.supersession \ disk.supersession
                   PROVE  /\ e.to \in Ids(b.memory)
                          /\ \E x \in b.mutations : /\ x.memory = e.from
                                                    /\ x.revision = e.mutation
                                                    /\ x.kind = "supersede"
        OBVIOUS
      <3>1. n >= 4 /\ e \in edges
        BY <1>13, <2>1
      <3>2. n >= 3 /\ n >= 2
        BY <3>1
      <3> QED
        BY <1>10, <1>13, <2>1, <2>2, <3>1, <3>2
    <2>6. ApplicationRefers(application, b) \/ n < 5
      BY <1>3, <1>12, <2>1, <2>2 DEF ApplicationRefers
    <2>7. /\ AppliedOnce(b.applications)
          /\ \A i \in DOMAIN b.applications :
               \/ i \in DOMAIN disk.applications /\ b.applications[i] = disk.applications[i]
               \/ ApplicationRefers(b.applications[i], b)
      <3>1. CASE n >= 5
        <4>1. b.applications = Append(disk.applications, application)
          BY <1>13, <2>1, <3>1
        <4>2. ApplicationRefers(application, b)
          BY <2>6, <3>1
        <4> QED
          BY <1>11, <4>1, <4>2
      <3>2. CASE ~ (n >= 5)
        BY <1>2, <2>1, <3>2 DEF Sound
      <3> QED
        BY <3>1, <3>2
    <2>8. /\ disk.conflicts \subseteq b.conflicts /\ disk.mutations \subseteq b.mutations
      BY <1>13, <2>1
    <2>9. Sound(b)
      BY <1>2, <2>1, <2>2, <2>3, <2>4, <2>5, <2>7, <2>8, SoundMore
    <2> QED
      BY <2>9 DEF b
  <1>15. /\ disk' = disk /\ staged' = new /\ todo' = ApplyOrder
         /\ backup' = disk /\ atomic' = TRUE /\ sweep' = {}
    BY <1>1, <1>2 DEF Stage, Idle
  <1>16. StaysSound'
    BY <1>14, <1>15, ApplyOrderIs DEF StaysSound
  <1>17. ApplyUnderway'
    <2>1. View(disk, new, ApplyOrder, 0) = disk
      BY <1>2, ViewZero
    <2>2. Ids(disk.memory) \subseteq Ids(new.memory)
      BY <1>8, <1>13
    <2>3. Len(ApplyOrder) - Len(todo') = 0 /\ Len(todo') = 5
      BY <1>15, ApplyOrderIs
    <2>4. \A i \in 1 .. 5 : todo'[i] = ApplyOrder[0 + i]
      BY <1>15
    <2> QED
      BY <1>14, <1>15, <2>1, <2>2, <2>3, <2>4, ApplyOrderIs DEF ApplyUnderway
  <1>18. MemoryFits'
    <2>1. MemoryPending'
      BY <1>15, ApplyOrderIs DEF MemoryPending
    <2> QED
      BY <1>8, <1>13, <1>15, <2>1 DEF MemoryFits
  <1>19. Approvals'
    <2> SUFFICES ASSUME NEW s \in memory
                 PROVE  s.id \in Ids(disk.memory) \/ LastWordApproves(s.id)'
      BY <1>13, <1>15 DEF Approvals
    <2>1. CASE s = row
      <3>1. LastWordApproves(s.id)
        BY <1>3, <1>5, <2>1 DEF LastWordApproves
      <3> QED
        BY <1>15, <3>1 DEF LastWordApproves, DecisionsOf
    <2> QED
      BY <1>8, <2>1
  <1>20. SweepFits' /\ AtRest'
    BY <1>15, ApplyOrderIs DEF SweepFits, UndatedIn, AtRest
  <1> QED
    BY <1>15, <1>16, <1>17, <1>18, <1>19, <1>20 DEF RecordsInv

-----------------------------------------------------------------------------
(* The invariant holds, and what follows from it.                          *)

\* Every step keeps the invariant.
LEMMA RecordsInductive ==
  TypeOK /\ TypeOK' /\ AuthorityInv /\ RecordsInv /\ [Next]_vars => RecordsInv'
  <1> SUFFICES ASSUME TypeOK, TypeOK', AuthorityInv, RecordsInv, [Next]_vars
               PROVE  RecordsInv'
    OBVIOUS
  <1>1. CASE Write
    BY <1>1, WriteRecords
  <1>2. CASE Crash
    BY <1>2, CrashRecords
  <1>3. CASE Rollback
    BY <1>3, RollbackRecords
  <1>4. CASE Propose
    BY <1>4, ProposeRecords
  <1>5. CASE SetRetention \/ EnforceRetention
    BY <1>5, RetentionRecords
  <1>6. ASSUME NEW c \in disk.candidates,
               ImportSuggestion(c) \/ RecordConflicts(c) \/ Review(c) \/ Apply(c)
        PROVE  RecordsInv'
    BY <1>6, ImportSuggestionRecords, RecordConflictsRecords, ReviewRecords, ApplyRecords
  <1>7. ASSUME NEW r \in disk.memory, Confidence(r) \/ Verify(r) \/ TombstoneMemory(r)
        PROVE  RecordsInv'
    BY <1>7, UpdateRecords, TombstoneRecords
  <1>8. ASSUME NEW old \in disk.memory, NEW new \in disk.memory, Supersede(old, new)
        PROVE  RecordsInv'
    BY <1>8, SupersedeRecords
  <1>9. CASE Sweep
    BY <1>9, SweepRecords
  <1>10. CASE UNCHANGED vars
    <2>1. SweepFits'
      BY <1>10 DEF vars, RecordsInv, SweepFits
    <2> QED
      BY <1>10, <2>1, StillRecords DEF vars, volatile
  <1> QED
    BY <1>1, <1>2, <1>3, <1>4, <1>5, <1>6, <1>7, <1>8, <1>9, <1>10 DEF Next

\* An empty workspace has the invariant.
LEMMA InitRecords == Init => RecordsInv
  <1> SUFFICES ASSUME Init PROVE RecordsInv
    OBVIOUS
  <1>1. TypeOK /\ disk = EmptyDisk /\ staged = EmptyDisk
        /\ todo = <<>> /\ ~ atomic /\ sweep = {}
    BY InitType DEF Init
  <1>2. Sound(disk)
    BY <1>1 DEF EmptyDisk, Sound, ConflictsRefer, DecisionsRefer, MutationsRefer, EdgesRefer,
                TombstonesRefer, ApplicationsRefer, SuggestionsRefer, AppliedOnce,
                OneRowPerId, AllValid
  <1>3. StaysSound
    <2>1. View(disk, staged, todo, 0) = disk
      BY <1>1, ViewZero DEF TypeOK
    <2>2. Len(todo) = 0
      BY <1>1
    <2> QED
      BY <1>2, <2>1, <2>2 DEF StaysSound
  <1>4. disk.memory = {} /\ staged.memory = {}
    BY <1>1 DEF EmptyDisk
  <1> QED
    BY <1>1, <1>3, <1>4
       DEF RecordsInv, MemoryFits, NoneRevived, Approvals, SweepFits, UndatedIn, AtRest, Ids

\* The three invariants hold in every reachable state.
LEMMA RecordsInvariant == Spec => [](TypeOK /\ AuthorityInv /\ RecordsInv)
  <1>1. Init => TypeOK /\ AuthorityInv /\ RecordsInv
    <2>1. Init => AuthorityInv
      BY DEF Init, EmptyDisk, AuthorityInv, Authorised, Extends, SameReviews
    <2> QED
      BY <2>1, InitType, InitRecords
  <1>2. TypeOK /\ AuthorityInv /\ RecordsInv /\ [Next]_vars
          => TypeOK' /\ AuthorityInv' /\ RecordsInv'
    BY NextType, AuthorityInductive, RecordsInductive
  <1> QED
    BY <1>1, <1>2, PTL DEF Spec

\* No row of canonical memory is secret, and a row without sources is the user's
\* own assertion, after any sequence of commands, crashes and rollbacks: every
\* command that writes a row validates the row it writes.
THEOREM MemoryStaysValid == Spec => []ProvenanceKept
  <1>1. TypeOK /\ RecordsInv => ProvenanceKept
    BY RestRecords DEF Sound, AllValid, Valid, ProvenanceKept
  <1> QED
    BY <1>1, RecordsInvariant, PTL

\* A review decision has at most one receipt, whatever is run again, dies or is
\* rolled back between the replacements of apply.
THEOREM DecisionsAppliedOnce == Spec => []OneApplicationPerDecision
  <1>1. TypeOK /\ RecordsInv => OneApplicationPerDecision
    BY RestRecords DEF Sound, AppliedOnce, OneApplicationPerDecision
  <1> QED
    BY <1>1, RecordsInvariant, PTL

\* Every reference between two files of the workspace resolves, between any two
\* replacements of any command and of the rollback of apply.
THEOREM ReferencesResolve == Spec => []ReceiptsNeverDangle
  <1>1. ASSUME TypeOK, RecordsInv PROVE ReceiptsNeverDangle
    <2>1. Sound(disk)
      BY <1>1, RestRecords
    <2>2. \A a \in Applications : ApplicationRefers(a, disk)
      BY <2>1 DEF Sound, ApplicationsRefer, Applications
    <2> QED
      BY <2>1, <2>2 DEF Sound, ConflictsRefer, DecisionsRefer, MutationsRefer, EdgesRefer,
                        TombstonesRefer, ApplicationRefers, SuggestionsRefer,
                        MutationsOf, DecisionsOf, ReceiptsNeverDangle
  <1> QED
    BY <1>1, RecordsInvariant, PTL

\* Only a replacement changes the files; canonical memory is then as it was or
\* as the command has staged it.
LEMMA MemoryStep ==
  ASSUME TypeOK, [Next]_vars
  PROVE  disk'.memory \in {disk.memory, staged.memory}
  <1>1. CASE Write
    <2>1. Head(todo) \in FileNames /\ disk \in Disk
      BY <1>1 DEF TypeOK, Write
    <2> QED
      BY <1>1, <2>1 DEF Write, Disk, FileNames
  <1>2. CASE ~ Write
    <2>1. disk' = disk
      BY <1>2 DEF Next, vars, volatile, Stage, Crash, Rollback, Propose, SetRetention,
                  EnforceRetention, ImportSuggestion, RecordConflicts, Review, Apply,
                  AppendMutation, Confidence, Verify, TombstoneMemory, Supersede,
                  Sweep, AssignExpiry, Expire, Keep
    <2> QED
      BY <2>1
  <1> QED
    BY <1>1, <1>2

\* No command makes a memory active that a supersession, an expiry or a tombstone
\* has put out of use; only the rollback of apply puts back rows it had replaced
\* itself.
THEOREM NothingResurrected == Spec => NoResurrection
  <1>1. ASSUME TypeOK, RecordsInv, [Next]_vars
        PROVE  ~ RollingBack =>
                 \A r \in disk.memory, s \in disk'.memory :
                   r.id = s.id /\ s.state = "active" => r.state = "active"
    <2>1. disk'.memory \in {disk.memory, staged.memory}
      BY <1>1, MemoryStep
    <2>2. NoneRevived(disk.memory, disk.memory)
      BY <1>1, RestRecords DEF Sound, OneRowPerId, NoneRevived
    <2> QED
      BY <1>1, <2>1, <2>2 DEF RecordsInv, MemoryFits, NoneRevived
  <1>2. TypeOK /\ RecordsInv /\ [Next]_vars
          => [~ RollingBack =>
                 \A r \in disk.memory, s \in disk'.memory :
                   r.id = s.id /\ s.state = "active" => r.state = "active"]_vars
    BY <1>1
  <1> QED
    BY <1>2, RecordsInvariant, PTL DEF Spec, NoResurrection

\* A new memory reaches the disk only while the last word on a candidate that
\* proposes it is an approval.
THEOREM LastWordCounts == Spec => RevocationRespected
  <1>1. TypeOK /\ RecordsInv /\ [Next]_vars
          => [\A r \in disk'.memory :
                r.id \in Ids(disk.memory) \/
                \E d \in disk.decisions :
                  /\ d.verdict = "approve" /\ d.candidate.proposal = r.id[1].proposal
                  /\ \A e \in DecisionsOf(d.candidate) : e.revision <= d.revision]_vars
    BY MemoryStep DEF RecordsInv, Approvals, LastWordApproves, Ids
  <1> QED
    BY <1>1, RecordsInvariant, PTL DEF Spec, RevocationRespected

\* A retention sweep that runs to its end leaves no active row undated while the
\* policy sets a period: what it has still to visit includes every such row.
THEOREM SweepLeavesNoneUndated == Spec => SweepDatesEveryRow
  <1>1. ASSUME TypeOK, RecordsInv, [Next]_vars,
               sweep # {}, sweep' = {}, faults' = faults, retention \in Retentions,
               NEW r \in disk'.memory, r.state = "active"
        PROVE  r.expires # NoExpiry
    <2>1. Sweep
      <3>1. ~ Idle
        BY <1>1 DEF Idle
      <3>2. faults \in Nat
        BY <1>1, ConstantsAssumption DEF TypeOK
      <3>3. ~ Write /\ ~ Crash /\ ~ Rollback /\ sweep' # sweep
        BY <1>1, <3>2 DEF Write, Crash, Rollback
      <3>4. ~ Propose /\ ~ SetRetention /\ ~ EnforceRetention
        BY <3>1 DEF Propose, SetRetention, EnforceRetention
      <3>5. \A c : ~ (ImportSuggestion(c) \/ RecordConflicts(c) \/ Review(c) \/ Apply(c))
        BY <3>1 DEF ImportSuggestion, RecordConflicts, Review, Apply
      <3>6. \A m : ~ (Confidence(m) \/ Verify(m) \/ TombstoneMemory(m))
        BY <3>1 DEF Confidence, Verify, TombstoneMemory
      <3>7. \A old, new : ~ Supersede(old, new)
        BY <3>1 DEF Supersede
      <3> QED
        BY <1>1, <3>3, <3>4, <3>5, <3>6, <3>7 DEF Next, vars
    <2>2. PICK s \in sweep : AssignExpiry(s) \/ Expire(s) \/ Keep(s)
      BY <2>1 DEF Sweep
    <2>3. todo = <<>> /\ disk' = disk
      BY <2>2 DEF AssignExpiry, Expire, Keep, AtRow, AppendMutation, Stage
    <2>4. r \in staged.memory /\ r \in disk.memory /\ Sound(disk)
      BY <1>1, <2>3, RestRecords
    <2>5. r.expires = NoExpiry => r \in sweep
      BY <1>1, <2>4 DEF RecordsInv, SweepFits, UndatedIn
    <2>6. CASE AssignExpiry(s)
      BY <1>1, <2>6 DEF AssignExpiry
    <2>7. CASE Expire(s) \/ Keep(s)
      <3>1. PICK current \in disk.memory : current.id = s.id /\ current.expires # NoExpiry
        BY <1>1, <2>7 DEF Expire, Keep
      <3>2. sweep' = sweep \ {s}
        BY <2>7 DEF Expire, Keep
      <3>3. r = s => r = current
        BY <2>4, <3>1 DEF Sound, OneRowPerId
      <3> QED
        BY <1>1, <2>5, <3>1, <3>2, <3>3
    <2> QED
      BY <2>2, <2>6, <2>7
  <1>2. TypeOK /\ RecordsInv /\ [Next]_vars
          => [sweep # {} /\ sweep' = {} /\ faults' = faults /\ retention \in Retentions =>
                \A r \in disk'.memory : r.state = "active" => r.expires # NoExpiry]_vars
    BY <1>1
  <1> QED
    BY <1>2, RecordsInvariant, PTL DEF Spec, SweepDatesEveryRow

-----------------------------------------------------------------------------
(* The audit chain.  Until something fails, the files are on their way from *)
(* one audited workspace to the next: what a command stages is audited, and  *)
(* what it has not still to replace is as staged.                            *)

\* The rows of s are numbered from 1 to n.
NumberedTo(s, n) ==
  /\ {x.revision : x \in s} = 1 .. n
  /\ \A x, y \in s : x.revision = y.revision => x = y

\* The records are numbered without gaps from one, to some number.
Numbered(s, most) == \E n \in 0 .. most : NumberedTo(s, n)

\* The decisions about a candidate.
DecisionsIn(files, c) == {d \in files.decisions : d.candidate = c}

\* The mutations of a memory.
MutationsIn(files, m) == {x \in files.mutations : x.memory = m}

\* The mutations lead from a row that was applied to the row that is there.
AuditedRow(r, ms, apps) ==
  /\ Numbered(ms, MaxMutations)
  /\ \A x, y \in ms : y.revision = x.revision + 1 => y.before = x.after
  /\ \A x \in ms : (\A y \in ms : y.revision <= x.revision) => x.after = r
  /\ \E i \in DOMAIN apps :
       /\ apps[i].memory = r.id
       /\ ms = {} => apps[i].written = r
       /\ \A x \in ms : x.revision = 1 => apps[i].written = x.before

\* Decisions are numbered without gaps, and every row is what its application and mutations make of it.
Audited(files) ==
  /\ \A d \in files.decisions : Numbered(DecisionsIn(files, d.candidate), MaxDecisions)
  /\ \A r \in files.memory : AuditedRow(r, MutationsIn(files, r.id), files.applications)

\* A file that is no longer to be written is written.
Replaced ==
  \A f \in FileNames : (\A i \in DOMAIN todo : todo[i] # f) => disk[f] = staged[f]

\* Without faults, what is staged is audited, and written as far as the command is.
AuditInv == faults = 0 => Audited(staged) /\ Replaced

\* The row numbered next makes the rows numbered one further.
LEMMA NumberedNext ==
  ASSUME NEW s, NEW n \in Nat, NumberedTo(s, n), NEW x, x.revision = n + 1
  PROVE  NumberedTo(s \cup {x}, n + 1)
  <1>1. \A y \in s : y.revision \in 1 .. n
    BY DEF NumberedTo
  <1>2. \A k \in 1 .. n : \E y \in s : y.revision = k
    BY DEF NumberedTo
  <1>3. {y.revision : y \in s \cup {x}} = 1 .. n + 1
    <2>1. ASSUME NEW y \in s \cup {x} PROVE y.revision \in 1 .. n + 1
      BY <1>1
    <2>2. ASSUME NEW k \in 1 .. n + 1 PROVE \E y \in s \cup {x} : y.revision = k
      <3>1. k \in 1 .. n \/ k = n + 1
        OBVIOUS
      <3> QED
        BY <1>2, <3>1
    <2> QED
      BY <2>1, <2>2
  <1>4. \A y \in s : y.revision # x.revision
    BY <1>1
  <1> QED
    BY <1>3, <1>4 DEF NumberedTo

\* Rows that are numbered are as many as the last number.
LEMMA NumberedCount ==
  ASSUME NEW s, NEW n \in Nat, NumberedTo(s, n)
  PROVE  Cardinality(s) = n /\ {x.revision : x \in s} = 1 .. Cardinality(s)
  <1> DEFINE g == [k \in 1 .. n |-> CHOOSE x \in s : x.revision = k]
  <1>1. \A k \in 1 .. n : g[k] \in s /\ g[k].revision = k
    <2>1. \A k \in 1 .. n : \E x \in s : x.revision = k
      BY DEF NumberedTo
    <2> QED
      BY <2>1
  <1>2. \A x \in s : x.revision \in 1 .. n
    BY DEF NumberedTo
  <1>3. g \in [1 .. n -> s]
    BY <1>1
  <1> HIDE DEF g
  <1>4. g \in Injection(1 .. n, s)
    <2>1. \A a, b \in 1 .. n : g[a] = g[b] => a = b
      BY <1>1
    <2> QED
      BY <1>3, <2>1 DEF Injection, IsInjective
  <1>5. g \in Surjection(1 .. n, s)
    <2>1. \A x \in s : \E k \in 1 .. n : g[k] = x
      BY <1>1, <1>2 DEF NumberedTo
    <2> QED
      BY <1>3, <2>1 DEF Surjection
  <1>6. ExistsBijection(1 .. n, s)
    BY <1>4, <1>5 DEF ExistsBijection, Bijection
  <1>7. IsFiniteSet(1 .. n) /\ Cardinality(1 .. n) = n
    BY FS_Interval
  <1>8. Cardinality(s) = n
    BY <1>6, <1>7, FS_Bijection
  <1> QED
    BY <1>8 DEF NumberedTo

\* Rows numbered to n: there are none, or one has number n and none a greater one.
LEMMA NumberedLast ==
  ASSUME NEW s, NEW n \in Nat, NumberedTo(s, n)
  PROVE  /\ s = {} => n = 0
         /\ \A x \in s : x.revision \in 1 .. n
         /\ \A x \in s : (\A y \in s : y.revision <= x.revision) <=> x.revision = n
         /\ s # {} => \E x \in s : x.revision = n
  <1>1. \A x \in s : x.revision \in 1 .. n
    BY DEF NumberedTo
  <1>2. \A k \in 1 .. n : \E x \in s : x.revision = k
    BY DEF NumberedTo
  <1>3. s = {} => n = 0
    <2>1. n # 0 => 1 \in 1 .. n
      OBVIOUS
    <2> QED
      BY <1>2, <2>1
  <1>4. s # {} => \E x \in s : x.revision = n
    <2>1. s # {} => n \in 1 .. n
      BY <1>1
    <2> QED
      BY <1>2, <2>1
  <1>5. ASSUME NEW x \in s
        PROVE  (\A y \in s : y.revision <= x.revision) <=> x.revision = n
    <2>1. PICK y \in s : y.revision = n
      BY <1>4
    <2>2. x.revision \in 1 .. n
      BY <1>1
    <2> QED
      BY <1>1, <2>1, <2>2
  <1> QED
    BY <1>1, <1>3, <1>4, <1>5

\* The number of the next mutation is the one after the last.
LEMMA NextMutationNumber ==
  ASSUME NEW m, NEW n \in Nat, NumberedTo(MutationsOf(m), n)
  PROVE  NextMutation(m) = n + 1
  <1> DEFINE ms == MutationsOf(m)
  <1>1. CASE ms = {}
    BY <1>1, NumberedLast DEF NextMutation
  <1>2. CASE ms # {}
    <2>1. \E x \in ms : \A y \in ms : y.revision <= x.revision
      BY <1>2, NumberedLast
    <2>2. LastOf(ms) \in ms /\ \A y \in ms : y.revision <= LastOf(ms).revision
      <3> HIDE DEF ms
      <3> QED
        BY <2>1 DEF LastOf
    <2>3. LastOf(ms).revision = n
      BY <2>2, NumberedLast
    <2> QED
      BY <1>2, <2>3 DEF NextMutation
  <1> QED
    BY <1>1, <1>2

\* The number of the next decision is the one after the last.
LEMMA NextDecisionNumber ==
  ASSUME disk \in Disk, NEW c, NEW n \in Nat, NumberedTo(DecisionsOf(c), n)
  PROVE  NextDecision(c) = n + 1
  <1>1. CASE DecisionsOf(c) = {}
    BY <1>1, NumberedLast DEF NextDecision
  <1>2. CASE DecisionsOf(c) # {}
    <2>1. LatestDecision(c).revision = n
      BY <1>2, LatestDecisionIsLast, NumberedLast
    <2> QED
      BY <1>2, <2>1 DEF NextDecision
  <1> QED
    BY <1>1, <1>2

\* One more mutation, from the row that is there to the row that will be.
LEMMA AuditedMore ==
  ASSUME NEW r, NEW ms, NEW apps, AuditedRow(r, ms, apps),
         NEW n \in Nat, NumberedTo(ms, n), n + 1 <= MaxMutations,
         NEW x, x.revision = n + 1, x.before = r, x.after.id = r.id,
         NEW more, \A i \in DOMAIN apps : i \in DOMAIN more /\ more[i] = apps[i]
  PROVE  AuditedRow(x.after, ms \cup {x}, more)
  <1>1. NumberedTo(ms \cup {x}, n + 1)
    BY NumberedNext
  <1>2. Numbered(ms \cup {x}, MaxMutations)
    BY <1>1, ConstantsAssumption DEF Numbered
  <1>3. \A y \in ms : y.revision \in 1 .. n
    BY NumberedLast
  <1>4. \A y \in ms : y.revision = n => y.after = r
    BY NumberedLast DEF AuditedRow
  <1>5. ASSUME NEW y \in ms \cup {x}, NEW z \in ms \cup {x}, z.revision = y.revision + 1
        PROVE  z.before = y.after
    <2>1. CASE y \in ms /\ z \in ms
      BY <1>5, <2>1 DEF AuditedRow
    <2>2. CASE y \in ms /\ z = x
      BY <1>3, <1>4, <1>5, <2>2
    <2>3. CASE y = x
      BY <1>3, <1>5, <2>3
    <2> QED
      BY <2>1, <2>2, <2>3
  <1>6. ASSUME NEW y \in ms \cup {x}, \A z \in ms \cup {x} : z.revision <= y.revision
        PROVE  y.after = x.after
    BY <1>3, <1>6
  <1>7. PICK i \in DOMAIN apps : /\ apps[i].memory = r.id
                                 /\ ms = {} => apps[i].written = r
                                 /\ \A y \in ms : y.revision = 1 => apps[i].written = y.before
    BY DEF AuditedRow
  <1>8. \A y \in ms \cup {x} : y.revision = 1 => more[i].written = y.before
    <2>1. x.revision = 1 => ms = {}
      BY <1>3
    <2> QED
      BY <1>7, <2>1
  <1> QED
    BY <1>2, <1>5, <1>6, <1>7, <1>8 DEF AuditedRow

\* More applications change nothing.
LEMMA AuditedStill ==
  ASSUME NEW r, NEW ms, NEW apps, AuditedRow(r, ms, apps),
         NEW more, \A i \in DOMAIN apps : i \in DOMAIN more /\ more[i] = apps[i]
  PROVE  AuditedRow(r, ms, more)
  BY DEF AuditedRow

\* A workspace at rest that nothing has failed in.
LEMMA RestAudit ==
  ASSUME TypeOK, RecordsInv, AuditInv, todo = <<>>, faults = 0
  PROVE  staged = disk /\ Audited(disk)
  BY RestRecords DEF AuditInv

\* A command stages an audited workspace and names the files it changes.
LEMMA StageAudit ==
  ASSUME NEW new, NEW order, NEW b, Stage(new, order, b), faults' = faults,
         faults = 0 => Audited(new),
         \A f \in FileNames : (\A i \in DOMAIN order : order[i] # f) => new[f] = disk[f]
  PROVE  AuditInv'
  <1>1. staged' = new /\ todo' = order /\ disk' = disk
    BY DEF Stage
  <1> QED
    BY <1>1 DEF AuditInv, Replaced, Audited, MutationsIn, DecisionsIn

\* What the audit looks at.
LEMMA SameAudit ==
  ASSUME NEW a, NEW b, Audited(a), b.decisions = a.decisions, b.memory = a.memory,
         b.mutations = a.mutations, b.applications = a.applications
  PROVE  Audited(b)
  BY DEF Audited, MutationsIn, DecisionsIn

\* A replacement brings the files nearer to what is staged; the last one makes
\* them what is staged.
LEMMA WriteAudit ==
  ASSUME TypeOK, TypeOK', AuditInv, Write
  PROVE  AuditInv'
  <1> SUFFICES ASSUME faults = 0 PROVE Audited(staged)' /\ Replaced'
    BY DEF AuditInv, Write
  <1>1. /\ todo # <<>> /\ todo \in Seq(FileNames) /\ disk \in Disk /\ staged \in Disk
        /\ disk' \in Disk /\ disk' = [disk EXCEPT ![Head(todo)] = staged[Head(todo)]]
        /\ Head(todo) \in FileNames
    BY DEF TypeOK, Write
  <1>2. Audited(staged) /\ Replaced
    BY DEF AuditInv
  <1>3. ASSUME NEW f \in FileNames, \A i \in DOMAIN Tail(todo) : Tail(todo)[i] # f
        PROVE  disk'[f] = staged[f]
    <2>1. CASE f = Head(todo)
      BY <1>1, <2>1 DEF Disk, FileNames
    <2>2. CASE f # Head(todo)
      <3>1. disk'[f] = disk[f]
        BY <1>1, <2>2 DEF Disk, FileNames
      <3>2. ASSUME NEW i \in DOMAIN todo PROVE todo[i] # f
        <4>1. CASE i = 1
          BY <1>1, <2>2, <4>1
        <4>2. CASE i # 1
          <5>1. i - 1 \in DOMAIN Tail(todo) /\ Tail(todo)[i - 1] = todo[i]
            BY <1>1, <4>2
          <5> QED
            BY <1>3, <5>1
        <4> QED
          BY <4>1, <4>2
      <3> QED
        BY <1>2, <3>1, <3>2 DEF Replaced
    <2> QED
      BY <2>1, <2>2
  <1>4. CASE Tail(todo) = <<>>
    <2>1. staged' = disk' /\ todo' = <<>>
      BY <1>4 DEF Write, Settle
    <2>2. \A f \in FileNames : disk'[f] = staged[f]
      <3>1. DOMAIN Tail(todo) = {}
        BY <1>4
      <3> QED
        BY <1>3, <3>1
    <2>3. Audited(disk')
      <3>1. disk'.decisions = staged.decisions /\ disk'.memory = staged.memory
            /\ disk'.mutations = staged.mutations /\ disk'.applications = staged.applications
        BY <2>2 DEF FileNames
      <3> QED
        BY <1>2, <3>1, SameAudit
    <2> QED
      BY <2>1, <2>3 DEF Replaced
  <1>5. CASE Tail(todo) # <<>>
    <2>1. staged' = staged /\ todo' = Tail(todo)
      BY <1>5 DEF Write
    <2> QED
      BY <1>2, <1>3, <2>1 DEF Replaced
  <1> QED
    BY <1>4, <1>5

\* A command that leaves what the audit looks at alone.
LEMMA QuietAudit ==
  ASSUME TypeOK, RecordsInv, AuditInv, todo = <<>>, faults' = faults,
         NEW new, NEW order, NEW b, Stage(new, order, b),
         new.decisions = disk.decisions, new.memory = disk.memory,
         new.mutations = disk.mutations, new.applications = disk.applications,
         \A f \in FileNames : (\A i \in DOMAIN order : order[i] # f) => new[f] = disk[f]
  PROVE  AuditInv'
  <1>1. faults = 0 => Audited(new)
    BY RestAudit, SameAudit
  <1> QED
    BY <1>1, StageAudit

\* propose, llm-import and conflicts.
LEMMA CandidatesAudit ==
  ASSUME TypeOK, RecordsInv, AuditInv,
         Propose \/ \E c \in disk.candidates : ImportSuggestion(c) \/ RecordConflicts(c)
  PROVE  AuditInv'
  <1>1. /\ todo = <<>> /\ faults' = faults
    BY DEF Propose, ImportSuggestion, RecordConflicts, Idle
  <1>3. disk \in Disk
    BY DEF TypeOK
  <1>4. CASE Propose
    <2>1. PICK c : Stage(WithCandidate(disk, c), <<"candidates", "conflicts">>, FALSE)
      BY <1>4 DEF Propose
    <2> DEFINE new == WithCandidate(disk, c)
               order == <<"candidates", "conflicts">>
    <2>2. \A f \in FileNames \ {"candidates", "conflicts"} : new[f] = disk[f]
      BY <1>3 DEF WithCandidate, Disk, FileNames
    <2>3. \A f \in FileNames : (\A i \in DOMAIN order : order[i] # f) =>
            f \in FileNames \ {"candidates", "conflicts"}
      <3>1. order[1] = "candidates" /\ order[2] = "conflicts" /\ {1, 2} \subseteq DOMAIN order
        OBVIOUS
      <3> QED
        BY <3>1
    <2> HIDE DEF new, order
    <2>4. new.decisions = disk.decisions /\ new.memory = disk.memory
          /\ new.mutations = disk.mutations /\ new.applications = disk.applications
      BY <2>2 DEF FileNames
    <2>5. Stage(new, order, FALSE)
      BY <2>1 DEF new, order
    <2>6. \A f \in FileNames : (\A i \in DOMAIN order : order[i] # f) => new[f] = disk[f]
      BY <2>2, <2>3
    <2> QED
      BY <1>1, <2>4, <2>5, <2>6, QuietAudit
  <1>5. ASSUME NEW b \in disk.candidates, ImportSuggestion(b)
        PROVE  AuditInv'
    <2> DEFINE noted(v) == [disk EXCEPT !.suggestions =
                              @ \cup {[candidate |-> b, recommendation |-> v]}]
    <2>1. PICK v \in Recommendations :
            \/ Stage(noted(v), <<"suggestions">>, FALSE)
            \/ \E c : Stage(WithCandidate(noted(v), c),
                            <<"suggestions", "candidates", "conflicts">>, FALSE)
      BY <1>5 DEF ImportSuggestion
    <2>3. \A f \in FileNames \ {"suggestions"} : noted(v)[f] = disk[f]
      BY <1>3 DEF Disk, FileNames
    <2>4. CASE Stage(noted(v), <<"suggestions">>, FALSE)
      <3> DEFINE new == noted(v)
                 order == <<"suggestions">>
      <3>1. \A f \in FileNames : (\A i \in DOMAIN order : order[i] # f) => new[f] = disk[f]
        <4>1. order[1] = "suggestions" /\ 1 \in DOMAIN order
          OBVIOUS
        <4> HIDE DEF new, order
        <4> QED
          BY <2>3, <4>1 DEF new
      <3>2. Stage(new, order, FALSE)
        BY <2>4
      <3> HIDE DEF new, order
      <3>3. new.decisions = disk.decisions /\ new.memory = disk.memory
            /\ new.mutations = disk.mutations /\ new.applications = disk.applications
        BY <2>3 DEF FileNames, new
      <3> QED
        BY <1>1, <3>1, <3>2, <3>3, QuietAudit
    <2>5. ASSUME NEW c, Stage(WithCandidate(noted(v), c),
                              <<"suggestions", "candidates", "conflicts">>, FALSE)
          PROVE  AuditInv'
      <3> DEFINE new == WithCandidate(noted(v), c)
                 order == <<"suggestions", "candidates", "conflicts">>
      <3>1. \A f \in FileNames \ {"suggestions", "candidates", "conflicts"} :
              new[f] = disk[f]
        <4>1. DOMAIN noted(v) = FileNames
          BY <1>3 DEF Disk, FileNames
        <4> HIDE DEF noted
        <4>2. \A f \in FileNames \ {"candidates", "conflicts"} : new[f] = noted(v)[f]
          BY <4>1 DEF WithCandidate, FileNames
        <4> QED
          BY <2>3, <4>2
      <3>2. \A f \in FileNames : (\A i \in DOMAIN order : order[i] # f) =>
              f \in FileNames \ {"suggestions", "candidates", "conflicts"}
        <4>1. order[1] = "suggestions" /\ order[2] = "candidates" /\ order[3] = "conflicts"
              /\ {1, 2, 3} \subseteq DOMAIN order
          OBVIOUS
        <4> HIDE DEF order
        <4> QED
          BY <4>1
      <3>3. Stage(new, order, FALSE)
        BY <2>5
      <3> HIDE DEF new, order
      <3>4. new.decisions = disk.decisions /\ new.memory = disk.memory
            /\ new.mutations = disk.mutations /\ new.applications = disk.applications
        BY <3>1 DEF FileNames
      <3>5. \A f \in FileNames : (\A i \in DOMAIN order : order[i] # f) => new[f] = disk[f]
        BY <3>1, <3>2
      <3> QED
        BY <1>1, <3>3, <3>4, <3>5, QuietAudit
    <2> QED
      BY <2>1, <2>4, <2>5
  <1>6. ASSUME NEW c \in disk.candidates, RecordConflicts(c)
        PROVE  AuditInv'
    <2> DEFINE new == [disk EXCEPT !.conflicts = @ \cup ConflictRows(c)]
               order == <<"conflicts">>
    <2>1. Stage(new, order, FALSE)
      BY <1>6 DEF RecordConflicts
    <2>2. \A f \in FileNames \ {"conflicts"} : new[f] = disk[f]
      BY <1>3 DEF Disk, FileNames
    <2>3. order[1] = "conflicts" /\ 1 \in DOMAIN order
      OBVIOUS
    <2> HIDE DEF new, order
    <2>4. new.decisions = disk.decisions /\ new.memory = disk.memory
          /\ new.mutations = disk.mutations /\ new.applications = disk.applications
      BY <2>2 DEF FileNames
    <2>5. \A f \in FileNames : (\A i \in DOMAIN order : order[i] # f) => new[f] = disk[f]
      BY <2>2, <2>3
    <2> QED
      BY <1>1, <2>1, <2>4, <2>5, QuietAudit
  <1> QED
    BY <1>4, <1>5, <1>6

\* review numbers the decision after the ones the candidate has.
LEMMA ReviewAudit ==
  ASSUME TypeOK, RecordsInv, AuditInv, NEW c \in disk.candidates, Review(c)
  PROVE  AuditInv'
  <1> DEFINE conflicts == Ids(Conflicting(c))
             d(v, how, named) ==
               [candidate |-> c, revision |-> NextDecision(c), verdict |-> v,
                resolved |-> IF how = "none" THEN {} ELSE conflicts,
                supersede |-> IF how = "supersede_existing"
                                THEN named \cup conflicts ELSE named]
             after(v, how, named) ==
               [disk EXCEPT !.conflicts = @ \cup ConflictRows(c),
                            !.decisions = @ \cup {d(v, how, named)}]
             order == <<"conflicts", "decisions">>
  <1>1. PICK v \in Verdicts, how \in Resolutions, named \in SUBSET Ids(disk.memory) :
          Stage(after(v, how, named), order, FALSE)
    BY DEF Review
  <1> DEFINE decision == d(v, how, named)
             new == after(v, how, named)
  <1>2. /\ Stage(new, order, FALSE) /\ todo = <<>> /\ faults' = faults
        /\ NextDecision(c) <= MaxDecisions /\ disk \in Disk
    BY <1>1 DEF Review, Idle, TypeOK
  <1>3. decision.candidate = c /\ decision.revision = NextDecision(c)
    OBVIOUS
  <1> HIDE DEF decision, d
  <1>4. /\ new.decisions = disk.decisions \cup {decision}
        /\ \A f \in FileNames \ {"conflicts", "decisions"} : new[f] = disk[f]
    BY <1>2 DEF Disk, FileNames, decision
  <1>5. order[1] = "conflicts" /\ order[2] = "decisions" /\ {1, 2} \subseteq DOMAIN order
    OBVIOUS
  <1> HIDE DEF order, new, after
  <1>6. \A f \in FileNames : (\A i \in DOMAIN order : order[i] # f) => new[f] = disk[f]
    <2>1. \A f : (\A i \in DOMAIN order : order[i] # f) => f \notin {"conflicts", "decisions"}
      BY <1>5
    <2> QED
      BY <1>4, <2>1
  <1>7. ASSUME faults = 0 PROVE Audited(new)
    <2>1. Audited(disk)
      BY <1>2, <1>7, RestAudit
    <2>2. new.memory = disk.memory /\ new.mutations = disk.mutations
          /\ new.applications = disk.applications
      BY <1>4 DEF FileNames
    <2>3. PICK n \in 0 .. MaxDecisions : NumberedTo(DecisionsOf(c), n)
      <3>1. CASE DecisionsOf(c) = {}
        <4>1. NumberedTo(DecisionsOf(c), 0)
          BY <3>1 DEF NumberedTo
        <4> QED
          BY <4>1, ConstantsAssumption
      <3>2. CASE DecisionsOf(c) # {}
        BY <2>1, <3>2 DEF Audited, Numbered, DecisionsIn, DecisionsOf
      <3> QED
        BY <3>1, <3>2
    <2>4. NextDecision(c) = n + 1
      BY <1>2, <2>3, NextDecisionNumber
    <2>5. Numbered(DecisionsOf(c) \cup {decision}, MaxDecisions)
      <3>1. NumberedTo(DecisionsOf(c) \cup {decision}, n + 1)
        BY <1>3, <2>3, <2>4, NumberedNext
      <3>2. n + 1 \in 0 .. MaxDecisions
        BY <1>2, <2>4, ConstantsAssumption
      <3> QED
        BY <3>1, <3>2 DEF Numbered
    <2>6. DecisionsIn(new, c) = DecisionsOf(c) \cup {decision}
      BY <1>3, <1>4 DEF DecisionsIn, DecisionsOf
    <2>7. ASSUME NEW e \in new.decisions
          PROVE  Numbered(DecisionsIn(new, e.candidate), MaxDecisions)
      <3>1. CASE e.candidate = c
        BY <2>5, <2>6, <3>1
      <3>2. CASE e.candidate # c
        <4>1. e \in disk.decisions /\ DecisionsIn(new, e.candidate) = DecisionsIn(disk, e.candidate)
          BY <1>3, <1>4, <3>2 DEF DecisionsIn
        <4> QED
          BY <2>1, <4>1 DEF Audited
      <3> QED
        BY <3>1, <3>2
    <2> QED
      BY <2>1, <2>2, <2>7 DEF Audited, MutationsIn
  <1> QED
    BY <1>2, <1>6, <1>7, StageAudit

\* A file that is not among those of a and b is not among those of a, nor of b.
LEMMA NotAmongBoth ==
  ASSUME NEW a \in Seq(FileNames), NEW b \in Seq(FileNames)
  PROVE  \A f : (\A i \in DOMAIN (a \o b) : (a \o b)[i] # f) =>
                 (\A i \in DOMAIN a : a[i] # f) /\ (\A i \in DOMAIN b : b[i] # f)
  <1> SUFFICES ASSUME NEW f, \A i \in DOMAIN (a \o b) : (a \o b)[i] # f
               PROVE  (\A i \in DOMAIN a : a[i] # f) /\ (\A i \in DOMAIN b : b[i] # f)
    OBVIOUS
  <1> DEFINE both == a \o b
  <1>1. /\ both \in Seq(FileNames) /\ Len(both) = Len(a) + Len(b)
        /\ \A i \in 1 .. Len(a) + Len(b) :
             both[i] = IF i <= Len(a) THEN a[i] ELSE b[i - Len(a)]
    BY ConcatProperties, Zenon
  <1>2. /\ DOMAIN a = 1 .. Len(a) /\ DOMAIN b = 1 .. Len(b)
        /\ Len(a) \in Nat /\ Len(b) \in Nat
    OBVIOUS
  <1>3. DOMAIN both = 1 .. Len(a) + Len(b)
    <2>1. DOMAIN both = 1 .. Len(both)
      BY <1>1
    <2> QED
      BY <1>1, <2>1
  <1>4. \A i \in DOMAIN both : both[i] # f
    OBVIOUS
  <1> HIDE DEF both
  <1>5. ASSUME NEW i \in DOMAIN a PROVE a[i] # f
    <2>1. i \in DOMAIN both /\ both[i] = a[i]
      BY <1>1, <1>2, <1>3
    <2> QED
      BY <1>4, <2>1
  <1>6. ASSUME NEW i \in DOMAIN b PROVE b[i] # f
    <2>1. Len(a) + i \in DOMAIN both /\ both[Len(a) + i] = b[i]
      <3>1. Len(a) + i \in 1 .. Len(a) + Len(b) /\ ~ (Len(a) + i <= Len(a))
            /\ (Len(a) + i) - Len(a) = i
        BY <1>2
      <3> QED
        BY <1>1, <1>3, <3>1
    <2> QED
      BY <1>4, <2>1
  <1> QED
    BY <1>5, <1>6

\* One more mutation of one row leaves the other rows as they were.
LEMMA MutatedAudit ==
  ASSUME disk \in Disk, Sound(disk), Audited(disk),
         NEW r \in disk.memory, NEW x, x.memory = r.id, x.revision = NextMutation(r.id),
         x.revision <= MaxMutations, x.before = r, x.after.id = r.id,
         NEW new, new.decisions = disk.decisions, new.applications = disk.applications,
         new.memory = (disk.memory \ {r}) \cup {x.after},
         new.mutations = disk.mutations \cup {x}
  PROVE  Audited(new)
  <1>1. AuditedRow(r, MutationsOf(r.id), disk.applications)
    BY DEF Audited, MutationsIn, MutationsOf
  <1>2. PICK n \in 0 .. MaxMutations : NumberedTo(MutationsOf(r.id), n)
    BY <1>1 DEF AuditedRow, Numbered
  <1>3. x.revision = n + 1 /\ n \in Nat
    BY <1>2, NextMutationNumber, ConstantsAssumption
  <1>4. AuditedRow(x.after, MutationsOf(r.id) \cup {x}, new.applications)
    <2> DEFINE ms == MutationsOf(r.id)
    <2>1. AuditedRow(r, ms, disk.applications) /\ NumberedTo(ms, n)
      BY <1>1, <1>2
    <2>2. n \in Nat /\ n + 1 <= MaxMutations
      BY <1>3
    <2>3. \A i \in DOMAIN disk.applications :
            i \in DOMAIN new.applications /\ new.applications[i] = disk.applications[i]
      OBVIOUS
    <2>4. x.revision = n + 1 /\ x.before = r /\ x.after.id = r.id
      BY <1>3
    <2> HIDE DEF ms
    <2>5. AuditedRow(x.after, ms \cup {x}, new.applications)
      BY ONLY <2>1, <2>2, <2>3, <2>4, AuditedMore
    <2> QED
      BY <2>5 DEF ms
  <1>5. MutationsIn(new, r.id) = MutationsOf(r.id) \cup {x}
    BY DEF MutationsIn, MutationsOf
  <1>6. ASSUME NEW s \in new.memory
        PROVE  AuditedRow(s, MutationsIn(new, s.id), new.applications)
    <2>1. CASE s = x.after
      BY <1>4, <1>5, <2>1
    <2>2. CASE s # x.after
      <3>1. s \in disk.memory /\ s # r
        BY <2>2
      <3>2. s.id # r.id
        BY <3>1 DEF Sound, OneRowPerId
      <3>3. MutationsIn(new, s.id) = MutationsIn(disk, s.id)
        BY <3>2 DEF MutationsIn
      <3> QED
        BY <3>1, <3>3 DEF Audited
    <2> QED
      BY <2>1, <2>2
  <1> QED
    BY <1>6 DEF Audited, DecisionsIn

\* append_mutation: the row goes on from the row that was there, or nothing changes.
LEMMA AppendMutationAudit ==
  ASSUME TypeOK, RecordsInv, AuditInv, todo = <<>>, faults' = faults,
         NEW r \in disk.memory, NEW after, NEW kind, after.id = r.id,
         NEW receipts \in Disk, NEW receiptFile \in Seq(FileNames),
         AppendMutation(r, kind, after, receipts, receiptFile),
         \A f \in FileNames : (\A i \in DOMAIN receiptFile : receiptFile[i] # f)
           => receipts[f] = disk[f],
         \A f \in {"decisions", "memory", "mutations", "applications"} : receipts[f] = disk[f]
  PROVE  AuditInv'
  <1> DEFINE x == MutationFor(r, kind, after)
             same == {y \in MutationsOf(r.id) : y.kind = kind /\ y.after = r}
             first == <<"memory", "mutations">>
             order == first \o receiptFile
             new == [receipts EXCEPT !.memory = (@ \ {r}) \cup {after},
                                     !.mutations = @ \cup {x}]
  <1>1. Stage(new, order, FALSE) /\ NextMutation(r.id) <= MaxMutations
    BY DEF AppendMutation, MutationBound
  <1>2. Sound(disk) /\ disk \in Disk
    BY RestRecords DEF TypeOK
  <1> HIDE DEF x
  <1>3. /\ new.memory = (disk.memory \ {r}) \cup {after}
        /\ new.mutations = disk.mutations \cup {x}
        /\ new.decisions = disk.decisions /\ new.applications = disk.applications
        /\ \A f \in FileNames \ {"memory", "mutations"} : new[f] = receipts[f]
    BY DEF Disk, FileNames
  <1> HIDE DEF new
  <1>4. \A f \in FileNames : (\A i \in DOMAIN order : order[i] # f) => new[f] = disk[f]
    <2> SUFFICES ASSUME NEW f \in FileNames, \A i \in DOMAIN order : order[i] # f
                 PROVE  new[f] = disk[f]
      OBVIOUS
    <2>1. first \in Seq(FileNames) /\ first[1] = "memory" /\ first[2] = "mutations"
          /\ {1, 2} \subseteq DOMAIN first
      BY DEF FileNames
    <2> HIDE DEF first
    <2>2. \A g : (\A i \in DOMAIN order : order[i] # g) =>
                  (\A i \in DOMAIN first : first[i] # g)
                  /\ (\A i \in DOMAIN receiptFile : receiptFile[i] # g)
      BY <2>1, NotAmongBoth
    <2> HIDE DEF order
    <2>3. (\A i \in DOMAIN first : first[i] # f)
          /\ (\A i \in DOMAIN receiptFile : receiptFile[i] # f)
      BY <2>2
    <2>4. f \notin {"memory", "mutations"}
      BY <2>1, <2>3
    <2>5. receipts[f] = disk[f]
      BY <2>3
    <2> QED
      BY <1>3, <2>4, <2>5
  <1>5. ASSUME faults = 0 PROVE Audited(new)
    <2>1. Audited(disk)
      BY <1>5, RestAudit
    <2>2. CASE after = r /\ same # {}
      <3>1. same \in SUBSET Mutation
        BY <1>2 DEF MutationsOf, Disk
      <3>2. x \in same
        <4>1. x = LastOf(same)
          BY <2>2 DEF x, MutationFor
        <4> HIDE DEF same
        <4> QED
          BY <2>2, <3>1, <4>1, LastMutationExists
      <3>3. new.memory = disk.memory /\ new.mutations = disk.mutations
        BY <1>3, <2>2, <3>2 DEF MutationsOf
      <3> QED
        BY <1>3, <2>1, <3>3, SameAudit
    <2>3. CASE ~ (after = r /\ same # {})
      <3>1. x = [memory |-> r.id, revision |-> NextMutation(r.id), kind |-> kind,
                 before |-> r, after |-> after]
        BY <2>3 DEF x, MutationFor
      <3>2. x.memory = r.id /\ x.revision = NextMutation(r.id) /\ x.before = r /\ x.after = after
        BY <3>1
      <3> QED
        BY <1>1, <1>2, <1>3, <2>1, <3>2, MutatedAudit
    <2> QED
      BY <2>2, <2>3
  <1>6. faults' = faults
    OBVIOUS
  <1> HIDE DEF new, order
  <1> QED
    BY ONLY <1>1, <1>4, <1>5, <1>6, StageAudit

\* A mutation with no receipt besides its own row.
LEMMA PlainMutationAudit ==
  ASSUME TypeOK, RecordsInv, AuditInv, todo = <<>>, faults' = faults,
         NEW r \in disk.memory, NEW after, NEW kind, after.id = r.id,
         AppendMutation(r, kind, after, disk, <<>>)
  PROVE  AuditInv'
  <1>1. disk \in Disk /\ <<>> \in Seq(FileNames)
    BY DEF TypeOK
  <1> QED
    BY <1>1, AppendMutationAudit

\* confidence and verify.
LEMMA UpdateAudit ==
  ASSUME TypeOK, RecordsInv, AuditInv, NEW r \in disk.memory, Confidence(r) \/ Verify(r)
  PROVE  AuditInv'
  <1>1. r \in Row
    BY DEF TypeOK, Disk
  <1>2. CASE Confidence(r)
    <2>1. PICK x \in Confidences, e \in EpistemicStates :
            AppendMutation(r, "confidence_update",
                           [r EXCEPT !.confidence = x, !.epistemic = e], disk, <<>>)
      BY <1>2 DEF Confidence
    <2> DEFINE after == [r EXCEPT !.confidence = x, !.epistemic = e]
    <2>2. after.id = r.id
      BY <1>1 DEF Row
    <2>3. todo = <<>> /\ faults' = faults
      BY <1>2 DEF Confidence, Idle
    <2> HIDE DEF after
    <2> QED
      BY <2>1, <2>2, <2>3, PlainMutationAudit DEF after
  <1>3. CASE Verify(r)
    <2>1. PICK x \in Confidences, t \in {r.verified, r.verified + 1} \ {0} :
            AppendMutation(r, "verification",
              [r EXCEPT !.confidence = x, !.epistemic = "verified", !.verified = t],
              disk, <<>>)
      BY <1>3 DEF Verify
    <2> DEFINE after == [r EXCEPT !.confidence = x, !.epistemic = "verified", !.verified = t]
    <2>2. after.id = r.id
      BY <1>1 DEF Row
    <2>3. todo = <<>> /\ faults' = faults
      BY <1>3 DEF Verify, Idle
    <2> HIDE DEF after
    <2> QED
      BY <2>1, <2>2, <2>3, PlainMutationAudit DEF after
  <1> QED
    BY <1>2, <1>3

\* The retention sweep.
LEMMA SweepAudit ==
  ASSUME TypeOK, RecordsInv, AuditInv, Sweep
  PROVE  AuditInv'
  <1>1. PICK r \in sweep : AssignExpiry(r) \/ Expire(r) \/ Keep(r)
    BY DEF Sweep
  <1>2. disk.memory \subseteq Row
    BY DEF TypeOK, Disk
  <1>3. todo = <<>> /\ faults' = faults
    BY <1>1 DEF AssignExpiry, Expire, Keep, AtRow
  <1>4. CASE AssignExpiry(r)
    <2>1. AppendMutation(r, "retention_set", Dated(r), disk, <<>>) /\ r \in disk.memory
      BY <1>4 DEF AssignExpiry, Underway
    <2>2. Dated(r).id = r.id
      BY <1>2, <2>1 DEF Dated, Row
    <2> QED
      BY <1>3, <2>1, <2>2, PlainMutationAudit
  <1>5. CASE Expire(r)
    <2>1. PICK current \in disk.memory :
            AppendMutation(current, "expire", [current EXCEPT !.state = "expired"], disk, <<>>)
      BY <1>5 DEF Expire
    <2> DEFINE after == [current EXCEPT !.state = "expired"]
    <2>2. after.id = current.id
      BY <1>2 DEF Row
    <2>3. AppendMutation(current, "expire", after, disk, <<>>)
      BY <2>1
    <2> HIDE DEF after
    <2> QED
      BY <1>3, <2>2, <2>3, PlainMutationAudit
  <1>6. CASE Keep(r)
    BY <1>6 DEF Keep, volatile, AuditInv, Audited, Replaced, MutationsIn, DecisionsIn
  <1> QED
    BY <1>1, <1>4, <1>5, <1>6

\* tombstone.
LEMMA TombstoneAudit ==
  ASSUME TypeOK, RecordsInv, AuditInv, NEW r \in disk.memory, TombstoneMemory(r)
  PROVE  AuditInv'
  <1> DEFINE x == MutationFor(r, "tombstone", Tombstoned(r))
             receipt == [memory |-> r.id, mutation |-> x.revision]
             files == [disk EXCEPT !.tombstones = @ \cup {receipt}]
  <1>1. AppendMutation(r, "tombstone", Tombstoned(r), files, <<"tombstones">>)
    BY DEF TombstoneMemory
  <1>2. disk \in Disk /\ r \in Row /\ Tombstoned(r) \in Row /\ MutationBound(r)
    BY <1>1, StateChangeType DEF AppendMutation, TypeOK, Disk
  <1>3. receipt \in Tombstone
    <2>1. x \in Mutation
      BY <1>2, MutationForType
    <2> HIDE DEF x
    <2> QED
      BY <1>2, <2>1 DEF Mutation, Tombstone, Row
  <1> HIDE DEF receipt, x
  <1>4. files \in Disk /\ \A f \in FileNames \ {"tombstones"} : files[f] = disk[f]
    BY <1>2, <1>3 DEF Disk, FileNames
  <1>5. Tombstoned(r).id = r.id
    BY <1>2 DEF Tombstoned, Row
  <1>6. todo = <<>> /\ faults' = faults
    BY DEF TombstoneMemory, Idle
  <1> HIDE DEF files
  <1> DEFINE last == <<"tombstones">>
  <1>7. last \in Seq(FileNames) /\ 1 \in DOMAIN last /\ last[1] = "tombstones"
    BY DEF FileNames
  <1>8. AppendMutation(r, "tombstone", Tombstoned(r), files, last)
    BY <1>1
  <1> HIDE DEF last
  <1>9. \A f \in FileNames : (\A i \in DOMAIN last : last[i] # f) => files[f] = disk[f]
    BY <1>4, <1>7
  <1>10. \A f \in {"decisions", "memory", "mutations", "applications"} : files[f] = disk[f]
    BY <1>4 DEF FileNames
  <1> QED
    BY <1>4, <1>5, <1>6, <1>7, <1>8, <1>9, <1>10, AppendMutationAudit

\* supersede.
LEMMA SupersedeAudit ==
  ASSUME TypeOK, RecordsInv, AuditInv,
         NEW r \in disk.memory, NEW by \in disk.memory, Supersede(r, by)
  PROVE  AuditInv'
  <1> DEFINE x == MutationFor(r, "supersede", Superseded(r))
             edge == [from |-> r.id, to |-> by.id, mutation |-> x.revision]
             files == [disk EXCEPT !.supersession = @ \cup {edge}]
  <1>1. AppendMutation(r, "supersede", Superseded(r), files, <<"supersession">>)
    BY DEF Supersede
  <1>2. /\ disk \in Disk /\ r \in Row /\ by \in Row /\ Superseded(r) \in Row
        /\ MutationBound(r)
    BY <1>1, StateChangeType DEF AppendMutation, TypeOK, Disk
  <1>3. edge \in Edge
    <2>1. x \in Mutation
      BY <1>2, MutationForType
    <2> HIDE DEF x
    <2> QED
      BY <1>2, <2>1 DEF Mutation, Edge, Row
  <1> HIDE DEF edge, x
  <1>4. files \in Disk /\ \A f \in FileNames \ {"supersession"} : files[f] = disk[f]
    BY <1>2, <1>3 DEF Disk, FileNames
  <1>5. Superseded(r).id = r.id
    BY <1>2 DEF Superseded, Row
  <1>6. todo = <<>> /\ faults' = faults
    BY DEF Supersede, Idle
  <1> HIDE DEF files
  <1> DEFINE last == <<"supersession">>
  <1>7. last \in Seq(FileNames) /\ 1 \in DOMAIN last /\ last[1] = "supersession"
    BY DEF FileNames
  <1>8. AppendMutation(r, "supersede", Superseded(r), files, last)
    BY <1>1
  <1> HIDE DEF last
  <1>9. \A f \in FileNames : (\A i \in DOMAIN last : last[i] # f) => files[f] = disk[f]
    BY <1>4, <1>7
  <1>10. \A f \in {"decisions", "memory", "mutations", "applications"} : files[f] = disk[f]
    BY <1>4 DEF FileNames
  <1> QED
    BY <1>4, <1>5, <1>6, <1>7, <1>8, <1>9, <1>10, AppendMutationAudit

\* What apply makes of the files: row is applied, the memories in targets are
\* superseded.
AppliedTo(new, row, targets, retired, mutations, application) ==
  /\ row.id \notin targets /\ ~ Collides(row)
  /\ \A r : r \in retired <=> r \in disk.memory /\ r.id \in targets
  /\ \A r \in retired : MutationBound(r)
  /\ \A x : x \in mutations <=> \E r \in retired : x = SupersedeMutation(r)
  /\ application.memory = row.id /\ application.written = row
  /\ new.decisions = disk.decisions
  /\ \A s : s \in new.memory <=> \/ s \in (disk.memory \cup {row}) \ retired
                                 \/ \E r \in retired : s = Superseded(r)
  /\ new.mutations = disk.mutations \cup mutations
  /\ new.applications = Append(disk.applications, application)

\* The rows of memory after an apply: one that was there, the one applied, or one
\* superseded, and each is where its mutations lead to.
LEMMA AppliedAudit ==
  ASSUME disk \in Disk, Sound(disk), Audited(disk), NEW row, NEW targets, NEW retired,
         NEW mutations, NEW application, NEW new,
         AppliedTo(new, row, targets, retired, mutations, application)
  PROVE  Audited(new)
  <1> USE DEF AppliedTo
  <1> DEFINE apps == disk.applications
             more == new.applications
  <1>1. /\ \A i \in DOMAIN apps : i \in DOMAIN more /\ more[i] = apps[i]
        /\ \E i \in DOMAIN more : more[i] = application
    <2>1. apps \in Seq(Application)
      BY DEF Disk
    <2>2. /\ DOMAIN apps = 1 .. Len(apps) /\ Len(apps) \in Nat
          /\ DOMAIN Append(apps, application) = 1 .. Len(apps) + 1
          /\ \A i \in 1 .. Len(apps) : Append(apps, application)[i] = apps[i]
          /\ Append(apps, application)[Len(apps) + 1] = application
      <3> HIDE DEF apps
      <3> QED
        BY <2>1
    <2>3. Len(apps) + 1 \in 1 .. Len(apps) + 1 /\ \A i \in 1 .. Len(apps) : i \in 1 .. Len(apps) + 1
      BY <2>2
    <2> QED
      BY <2>2, <2>3
  <1>2. /\ \A x \in mutations : x.memory \in targets
        /\ \A r \in retired : SupersedeMutation(r).memory = r.id
    BY DEF SupersedeMutation
  <1>3. ASSUME NEW s \in disk.memory, s \notin retired
        PROVE  AuditedRow(s, MutationsIn(new, s.id), more)
    <2>1. MutationsIn(new, s.id) = MutationsIn(disk, s.id)
      BY <1>2, <1>3 DEF MutationsIn
    <2>2. AuditedRow(s, MutationsIn(disk, s.id), apps)
      BY DEF Audited
    <2> HIDE DEF apps, more
    <2>3. AuditedRow(s, MutationsIn(disk, s.id), more)
      BY <1>1, <2>2, AuditedStill
    <2> QED
      BY <2>1, <2>3
  <1>4. ASSUME row \notin disk.memory
        PROVE  AuditedRow(row, MutationsIn(new, row.id), more)
    <2>1. \A r \in disk.memory : r.id # row.id
      BY <1>4 DEF Collides
    <2>2. \A x \in disk.mutations : x.memory # row.id
      BY <2>1 DEF Sound, MutationsRefer, Ids
    <2>3. MutationsIn(new, row.id) = {}
      BY <1>2, <2>2 DEF MutationsIn
    <2>4. Numbered({}, MaxMutations)
      <3>1. NumberedTo({}, 0)
        BY DEF NumberedTo
      <3> QED
        BY <3>1, ConstantsAssumption DEF Numbered
    <2> HIDE DEF more
    <2> QED
      BY <1>1, <2>3, <2>4 DEF AuditedRow
  <1>5. ASSUME NEW r \in retired
        PROVE  AuditedRow(Superseded(r), MutationsIn(new, r.id), more)
    <2> DEFINE ms == MutationsOf(r.id)
               x == SupersedeMutation(r)
    <2>1. r \in disk.memory /\ AuditedRow(r, ms, apps)
      BY DEF Audited, MutationsIn, MutationsOf
    <2>2. PICK n \in 0 .. MaxMutations : NumberedTo(ms, n)
      BY <2>1 DEF AuditedRow, Numbered
    <2>3. n \in Nat /\ n + 1 <= MaxMutations /\ NextMutation(r.id) = n + 1
      BY <2>2, NextMutationNumber, ConstantsAssumption DEF MutationBound
    <2>4. /\ x.memory = r.id /\ x.revision = n + 1 /\ x.before = r
          /\ x.after = Superseded(r) /\ Superseded(r).id = r.id
      BY <2>1, <2>3 DEF SupersedeMutation, Superseded, Disk, Row
    <2>5. MutationsIn(new, r.id) = ms \cup {x}
      <3>1. \A q \in retired : q.id = r.id => q = r
        BY <2>1 DEF Sound, OneRowPerId
      <3>2. \A y \in mutations : y.memory = r.id => y = x
        BY <1>2, <3>1
      <3>3. x \in mutations
        OBVIOUS
      <3> HIDE DEF x
      <3> QED
        BY <2>4, <3>2, <3>3 DEF MutationsIn, MutationsOf
    <2> HIDE DEF ms, x, apps, more
    <2>6. AuditedRow(x.after, ms \cup {x}, more)
      <3>1. AuditedRow(r, ms, apps) /\ NumberedTo(ms, n)
        BY <2>1, <2>2
      <3>2. n \in Nat /\ n + 1 <= MaxMutations
        BY <2>3
      <3>3. x.revision = n + 1 /\ x.before = r /\ x.after.id = r.id
        BY <2>4
      <3>4. \A i \in DOMAIN apps : i \in DOMAIN more /\ more[i] = apps[i]
        BY <1>1
      <3> QED
        BY ONLY <3>1, <3>2, <3>3, <3>4, AuditedMore
    <2> QED
      BY <2>4, <2>5, <2>6
  <1>6. ASSUME NEW s \in new.memory
        PROVE  AuditedRow(s, MutationsIn(new, s.id), more)
    <2>1. CASE s \in disk.memory /\ s \notin retired
      BY <1>3, <2>1
    <2>2. CASE s = row
      <3>1. row \notin retired
        OBVIOUS
      <3> QED
        BY <1>3, <1>4, <2>2, <3>1
    <2>3. ASSUME NEW r \in retired, s = Superseded(r)
          PROVE  AuditedRow(s, MutationsIn(new, s.id), more)
      <3>1. s.id = r.id
        BY <2>3 DEF Superseded, Disk, Row
      <3> QED
        BY <1>5, <2>3, <3>1
    <2> QED
      BY <2>1, <2>2, <2>3
  <1> QED
    BY <1>6 DEF Audited, DecisionsIn

\* apply.
LEMMA ApplyAudit ==
  ASSUME TypeOK, RecordsInv, AuditInv, NEW c \in disk.candidates, Apply(c)
  PROVE  AuditInv'
  <1> DEFINE d == LatestDecision(c)
             targets == Targets(c, d)
             id == Identity(c, targets)
             row == Proposed(c, id)
             retired == {r \in disk.memory : r.id \in targets}
             application == [candidate |-> c, decision |-> d.revision, memory |-> id,
                             written |-> row, key |-> CandidateKey(c)]
             memory == ((disk.memory \cup {row}) \ retired) \cup {Superseded(r) : r \in retired}
             mutations == {SupersedeMutation(r) : r \in retired}
             edges == {[from |-> r.id, to |-> id, mutation |-> NextMutation(r.id)] : r \in retired}
             new == [disk EXCEPT !.conflicts = @ \cup ConflictRows(c),
                                 !.memory = memory,
                                 !.mutations = @ \cup mutations,
                                 !.supersession = @ \cup edges,
                                 !.applications = Append(@, application)]
  <1>1. /\ Stage(new, ApplyOrder, TRUE) /\ id \notin targets /\ ~ Collides(row)
        /\ \A r \in retired : MutationBound(r)
    BY DEF Apply, ApplyOrder
  <1>2. disk \in Disk /\ Sound(disk) /\ todo = <<>> /\ faults' = faults
    BY RestRecords DEF TypeOK, Apply, Idle
  <1>3. row.id = id
    <2> HIDE DEF id
    <2> QED
      BY DEF Proposed
  <1>4. application.memory = id /\ application.written = row
    OBVIOUS
  <1> HIDE DEF memory, mutations, edges, application
  <1>5. /\ new.memory = memory /\ new.decisions = disk.decisions
        /\ new.mutations = disk.mutations \cup mutations
        /\ new.applications = Append(disk.applications, application)
        /\ \A f \in FileNames \
             {"conflicts", "memory", "mutations", "supersession", "applications"} :
             new[f] = disk[f]
    BY <1>2 DEF Disk, FileNames
  <1> HIDE DEF new
  <1>6. \A f \in FileNames : (\A i \in DOMAIN ApplyOrder : ApplyOrder[i] # f) => new[f] = disk[f]
    <2> DEFINE order == <<"conflicts", "memory", "mutations", "supersession", "applications">>
    <2>1. order[1] = "conflicts" /\ order[2] = "memory" /\ order[3] = "mutations"
          /\ order[4] = "supersession" /\ order[5] = "applications"
          /\ {1, 2, 3, 4, 5} \subseteq DOMAIN order
      OBVIOUS
    <2>2. ApplyOrder = order
      BY ApplyOrderIs
    <2> HIDE DEF order
    <2>3. \A f : (\A i \in DOMAIN order : order[i] # f) => f \notin
            {"conflicts", "memory", "mutations", "supersession", "applications"}
      BY <2>1
    <2> QED
      BY <1>5, <2>2, <2>3
  <1>7. ASSUME faults = 0 PROVE Audited(new)
    <2>1. Audited(disk)
      BY <1>2, <1>7, RestAudit
    <2> HIDE DEF row, id, targets, retired
    <2>2. /\ \A r : r \in retired <=> r \in disk.memory /\ r.id \in targets
          /\ \A x : x \in mutations <=> \E r \in retired : x = SupersedeMutation(r)
          /\ \A s : s \in memory <=> \/ s \in (disk.memory \cup {row}) \ retired
                                   \/ \E r \in retired : s = Superseded(r)
      BY DEF retired, mutations, memory
    <2>3. /\ row.id \notin targets /\ ~ Collides(row)
          /\ \A r \in retired : MutationBound(r)
          /\ application.memory = row.id /\ application.written = row
      BY <1>1, <1>3, <1>4
    <2>4. /\ new.decisions = disk.decisions
          /\ \A s : s \in new.memory <=> \/ s \in (disk.memory \cup {row}) \ retired
                                       \/ \E r \in retired : s = Superseded(r)
          /\ new.mutations = disk.mutations \cup mutations
          /\ new.applications = Append(disk.applications, application)
      BY <1>5, <2>2
    <2> QED
      <3>1. AppliedTo(new, row, targets, retired, mutations, application)
        BY <2>2, <2>3, <2>4 DEF AppliedTo
      <3> QED
        BY <1>2, <2>1, <3>1, AppliedAudit
  <1> QED
    BY <1>1, <1>2, <1>6, <1>7, StageAudit

\* Every step keeps the audit.
LEMMA AuditInductive ==
  TypeOK /\ TypeOK' /\ RecordsInv /\ AuditInv /\ [Next]_vars => AuditInv'
  <1> SUFFICES ASSUME TypeOK, TypeOK', RecordsInv, AuditInv, [Next]_vars
               PROVE  AuditInv'
    OBVIOUS
  <1>1. CASE Write
    BY <1>1, WriteAudit
  <1>2. CASE Crash \/ Rollback
    <2>1. faults \in Nat /\ faults' = faults + 1
      BY <1>2, ConstantsAssumption DEF Crash, Rollback, TypeOK
    <2> QED
      BY <2>1 DEF AuditInv
  <1>3. CASE Propose
    BY <1>3, CandidatesAudit
  <1>4. CASE SetRetention \/ EnforceRetention \/ UNCHANGED vars
    <2>1. UNCHANGED <<disk, staged, todo, faults>>
      BY <1>4 DEF SetRetention, EnforceRetention, volatile, vars
    <2> QED
      BY <2>1 DEF AuditInv, Audited, Replaced, MutationsIn, DecisionsIn
  <1>5. ASSUME NEW c \in disk.candidates,
               ImportSuggestion(c) \/ RecordConflicts(c) \/ Review(c) \/ Apply(c)
        PROVE  AuditInv'
    BY <1>5, CandidatesAudit, ReviewAudit, ApplyAudit
  <1>6. ASSUME NEW r \in disk.memory, Confidence(r) \/ Verify(r) \/ TombstoneMemory(r)
        PROVE  AuditInv'
    BY <1>6, UpdateAudit, TombstoneAudit
  <1>7. ASSUME NEW old \in disk.memory, NEW new \in disk.memory, Supersede(old, new)
        PROVE  AuditInv'
    BY <1>7, SupersedeAudit
  <1>8. CASE Sweep
    BY <1>8, SweepAudit
  <1> QED
    BY <1>1, <1>2, <1>3, <1>4, <1>5, <1>6, <1>7, <1>8 DEF Next

\* The first mutation of a numbered chain starts from the memory's initial row.
LEMMA FirstMutation ==
  ASSUME NEW r, NEW n \in Nat, NumberedTo(MutationsOf(r.id), n), MutationsOf(r.id) # {}
  PROVE  \E x \in MutationsOf(r.id) : x.revision = 1 /\ InitialRow(r) = x.before
  <1> DEFINE ms == MutationsOf(r.id)
             First(x) == \A y \in ms : x.revision <= y.revision
  <1>1. \A x \in ms : x.revision \in 1 .. n
    BY NumberedLast
  <1>2. PICK x \in ms : x.revision = 1
    <2>1. 1 \in 1 .. n
      BY <1>1
    <2> QED
      BY <2>1 DEF NumberedTo
  <1>3. (CHOOSE y \in ms : First(y)) \in ms /\ First(CHOOSE y \in ms : First(y))
    <2>1. \E y \in ms : First(y)
      BY <1>1, <1>2
    <2> HIDE DEF First, ms
    <2> QED
      BY <2>1
  <1>4. (CHOOSE y \in ms : First(y)).revision = 1
    BY <1>1, <1>2, <1>3
  <1>5. InitialRow(r) = (CHOOSE y \in ms : First(y)).before
    BY DEF InitialRow
  <1> HIDE DEF First, ms
  <1> QED
    BY <1>3, <1>4, <1>5 DEF ms

\* An audited workspace passes validate_curation.
LEMMA AuditedIsIntact ==
  ASSUME disk \in Disk, Audited(disk)
  PROVE  AuditIntact
  <1>1. ASSUME NEW c \in disk.candidates
        PROVE  {d.revision : d \in DecisionsOf(c)} = 1 .. Cardinality(DecisionsOf(c))
    <2>1. \E n \in Nat : NumberedTo(DecisionsOf(c), n)
      <3>1. CASE DecisionsOf(c) = {}
        <4>1. NumberedTo(DecisionsOf(c), 0)
          BY <3>1 DEF NumberedTo
        <4> QED
          BY <4>1
      <3>2. CASE DecisionsOf(c) # {}
        BY <3>2 DEF Audited, Numbered, DecisionsIn, DecisionsOf
      <3> QED
        BY <3>1, <3>2
    <2> QED
      BY <2>1, NumberedCount
  <1>2. ASSUME NEW r \in disk.memory
        PROVE  LET ms == MutationsOf(r.id) IN
               /\ {x.revision : x \in ms} = 1 .. Cardinality(ms)
               /\ \A x, y \in ms : y.revision = x.revision + 1 => y.before = x.after
               /\ ms = {} \/ LastOf(ms).after = r
               /\ \E a \in Applications : a.memory = r.id /\ a.written = InitialRow(r)
    <2> DEFINE ms == MutationsOf(r.id)
    <2>1. AuditedRow(r, ms, disk.applications)
      BY DEF Audited, MutationsIn, MutationsOf
    <2>2. PICK n \in Nat : NumberedTo(ms, n)
      BY <2>1 DEF AuditedRow, Numbered
    <2>3. {x.revision : x \in ms} = 1 .. Cardinality(ms)
      BY <2>2, NumberedCount
    <2>4. ms = {} \/ LastOf(ms).after = r
      <3>1. ms # {} => \E x \in ms : \A y \in ms : y.revision <= x.revision
        BY <2>2, NumberedLast
      <3> HIDE DEF ms
      <3>2. ms # {} => LastOf(ms) \in ms /\ \A y \in ms : y.revision <= LastOf(ms).revision
        BY <3>1 DEF LastOf
      <3> QED
        BY <2>1, <3>2 DEF AuditedRow
    <2>5. PICK i \in DOMAIN disk.applications :
            /\ disk.applications[i].memory = r.id
            /\ ms = {} => disk.applications[i].written = r
            /\ \A x \in ms : x.revision = 1 => disk.applications[i].written = x.before
      BY <2>1 DEF AuditedRow
    <2>6. disk.applications[i].written = InitialRow(r)
      <3>1. CASE ms = {}
        BY <2>5, <3>1 DEF InitialRow
      <3>2. CASE ms # {}
        BY <2>2, <2>5, <3>2, FirstMutation
      <3> QED
        BY <3>1, <3>2
    <2>7. \E a \in Applications : a.memory = r.id /\ a.written = InitialRow(r)
      BY <2>5, <2>6 DEF Applications
    <2>8. \A x, y \in ms : y.revision = x.revision + 1 => y.before = x.after
      BY <2>1 DEF AuditedRow
    <2> QED
      BY <2>3, <2>4, <2>7, <2>8
  <1> QED
    BY <1>1, <1>2 DEF AuditIntact

\* Until a process dies or a transaction fails, every workspace at rest passes
\* validate_curation: decisions and mutations are numbered without gaps, each
\* mutation starts where the one before it ended, the chain starts from a row an
\* application wrote and ends at the row that is there.
THEOREM AuditStaysIntact == Spec => [](faults = 0 => AuditIntact)
  <1> DEFINE Inv == TypeOK /\ RecordsInv
             Intact == faults = 0 => AuditIntact
  <1>1. Init => AuditInv
    <2> SUFFICES ASSUME Init PROVE AuditInv
      OBVIOUS
    <2>1. disk = EmptyDisk /\ staged = EmptyDisk
      BY DEF Init
    <2> QED
      BY <2>1 DEF AuditInv, Audited, Replaced, EmptyDisk
  <1>2. Inv /\ Inv' /\ AuditInv /\ [Next]_vars => AuditInv'
    BY AuditInductive
  <1>3. Inv /\ AuditInv => Intact
    <2> SUFFICES ASSUME TypeOK, RecordsInv, AuditInv, faults = 0, todo = <<>>
                 PROVE  AuditIntact
      BY DEF AuditIntact
    <2> QED
      BY RestAudit, AuditedIsIntact DEF TypeOK
  <1>4. Spec => []Inv
    BY RecordsInvariant, PTL
  <1> HIDE DEF Inv, Intact
  <1>5. Spec => []Intact
    BY <1>1, <1>2, <1>3, <1>4, PTL DEF Spec
  <1> QED
    BY <1>5 DEF Intact

-----------------------------------------------------------------------------
(* Conflicts.  A row reaches canonical memory before the application that    *)
(* wrote it is recorded, and a failed apply puts back rows it had superseded: *)
(* the invariant is about the memory there is, the memory staged and the      *)
(* memory that would be put back, with the applications there are.            *)

\* The applications of memory m that have a key.
Keyed(apps, m) == {i \in DOMAIN apps : apps[i].memory = m /\ apps[i].key # NoKey}

\* The greatest of some numbers.
GreatestOf(s) == CHOOSE i \in s : \A j \in s : j <= i

\* MemoryKey, of the applications in apps.
KeyIn(apps, m) ==
  IF Keyed(apps, m) = {} THEN DerivedKey[m[1].proposal.content]
                         ELSE apps[GreatestOf(Keyed(apps, m))].key

\* Some application made the memory.
AppliedIn(apps, m) == \E i \in DOMAIN apps : apps[i].memory = m

\* An application of m rests on a decision that resolved the conflict with other.
AllowedIn(apps, decisions, m, other) ==
  \E i \in DOMAIN apps, d \in decisions :
    /\ apps[i].memory = m
    /\ d.candidate = apps[i].candidate /\ d.revision = apps[i].decision
    /\ other \in d.resolved

\* The memories m and other answer the same key differently, by applications.
Contradict(apps, m, other) ==
  /\ m[1].proposal.type = other[1].proposal.type
  /\ m[1].proposal.content # other[1].proposal.content
  /\ KeyIn(apps, m) = KeyIn(apps, other) /\ KeyIn(apps, m) # NoKey
  /\ AppliedIn(apps, m) /\ AppliedIn(apps, other)

\* The active memories.
ActiveIds(rows) == {r.id : r \in {s \in rows : s.state = "active"}}

\* Active memories that contradict each other were allowed to, by the later one's decision.
Settled(rows, apps, decisions) ==
  \A m, other \in ActiveIds(rows) :
    Contradict(apps, m, other)
      => AllowedIn(apps, decisions, m, other) \/ AllowedIn(apps, decisions, other, m)

\* So are those on disk and those staged, during a command and after a rollback.
ConflictsInv ==
  /\ Settled(disk.memory, disk.applications, disk.decisions)
  /\ Settled(staged.memory, disk.applications, disk.decisions)
  /\ Settled(staged.memory, staged.applications, disk.decisions)
  /\ atomic => Settled(backup.memory, disk.applications, disk.decisions)
  /\ ~ atomic => staged.applications = disk.applications

\* The key of a memory after one more application.
LEMMA KeyAppended ==
  ASSUME NEW apps \in Seq(Application), NEW a
  PROVE  \A m :
           /\ m # a.memory \/ a.key = NoKey => KeyIn(Append(apps, a), m) = KeyIn(apps, m)
           /\ m = a.memory /\ a.key # NoKey => KeyIn(Append(apps, a), m) = a.key
  <1> SUFFICES ASSUME NEW m, NEW more, more = Append(apps, a)
               PROVE  /\ m # a.memory \/ a.key = NoKey => KeyIn(more, m) = KeyIn(apps, m)
                      /\ m = a.memory /\ a.key # NoKey => KeyIn(more, m) = a.key
    OBVIOUS
  <1> DEFINE n == Len(apps)
  <1>1. /\ n \in Nat /\ DOMAIN apps = 1 .. n /\ DOMAIN more = 1 .. n + 1
        /\ \A i \in 1 .. n : more[i] = apps[i]
        /\ more[n + 1] = a
    OBVIOUS
  <1> HIDE DEF n
  <1>2. \A i \in 1 .. n : i \in 1 .. n + 1 /\ i # n + 1 /\ i <= n + 1
    BY <1>1
  <1>3. \A i \in 1 .. n + 1 : i \in 1 .. n \/ i = n + 1
    BY <1>1
  <1>4. n + 1 \in 1 .. n + 1 /\ n + 1 \notin 1 .. n
    BY <1>1
  <1>5. ASSUME m # a.memory \/ a.key = NoKey
        PROVE  KeyIn(more, m) = KeyIn(apps, m)
    <2>1. Keyed(more, m) = Keyed(apps, m)
      BY <1>1, <1>2, <1>3, <1>5 DEF Keyed
    <2>2. CASE Keyed(apps, m) # {}
      <3> DEFINE s == Keyed(apps, m)
      <3>1. s \in SUBSET (0 .. n)
        BY <1>1 DEF Keyed
      <3>2. GreatestOf(s) \in s
        <4> HIDE DEF s
        <4>1. \E i \in s : \A j \in s : j <= i
          BY <1>1, <2>2, <3>1, GreatestElement DEF s
        <4> QED
          BY <4>1 DEF GreatestOf
      <3>3. GreatestOf(s) \in 1 .. n
        BY <1>1, <3>2 DEF Keyed
      <3> HIDE DEF s
      <3>4. more[GreatestOf(s)] = apps[GreatestOf(s)]
        BY <1>1, <3>3
      <3> QED
        BY <2>1, <2>2, <3>4 DEF KeyIn, s
    <2> QED
      BY <2>1, <2>2 DEF KeyIn
  <1>6. ASSUME m = a.memory, a.key # NoKey
        PROVE  KeyIn(more, m) = a.key
    <2> DEFINE s == Keyed(more, m)
    <2>1. n + 1 \in s /\ \A j \in s : j \in 1 .. n + 1
      BY <1>1, <1>4, <1>6 DEF Keyed
    <2>2. \A j \in s : j <= n + 1
      BY <1>1, <2>1
    <2>3. GreatestOf(s) \in s /\ n + 1 <= GreatestOf(s)
      <3> HIDE DEF s
      <3> QED
        BY <2>1, <2>2 DEF GreatestOf
    <2>4. GreatestOf(s) = n + 1
      BY <1>1, <2>1, <2>3
    <2>5. KeyIn(more, m) = more[GreatestOf(s)].key
      BY <2>1 DEF KeyIn
    <2> QED
      BY <1>1, <2>4, <2>5
  <1> QED
    BY <1>5, <1>6

\* No memory is active in later that was not active in rows, and the memories
\* applied were there.
LEMMA SettledLater ==
  ASSUME NEW rows, NEW later, NEW apps, NEW decisions, Settled(rows, apps, decisions),
         NoneRevived(rows, later),
         \A i \in DOMAIN apps : apps[i].memory \in Ids(rows)
  PROVE  Settled(later, apps, decisions)
  <1> SUFFICES ASSUME NEW m \in ActiveIds(later), NEW other \in ActiveIds(later),
                      Contradict(apps, m, other)
               PROVE  AllowedIn(apps, decisions, m, other) \/ AllowedIn(apps, decisions, other, m)
    BY DEF Settled
  <1>1. ASSUME NEW k \in ActiveIds(later), AppliedIn(apps, k)
        PROVE  k \in ActiveIds(rows)
    <2>1. PICK s \in later : s.id = k /\ s.state = "active"
      BY DEF ActiveIds
    <2>2. PICK r \in rows : r.id = k
      BY <1>1 DEF AppliedIn, Ids
    <2>3. r.state = "active"
      BY <2>1, <2>2 DEF NoneRevived
    <2> QED
      BY <2>2, <2>3 DEF ActiveIds
  <1>2. AppliedIn(apps, m) /\ AppliedIn(apps, other)
    BY DEF Contradict
  <1> QED
    BY <1>1, <1>2 DEF Settled

\* More decisions allow no less.
LEMMA SettledMore ==
  ASSUME NEW rows, NEW apps, NEW decisions, NEW more, decisions \subseteq more,
         Settled(rows, apps, decisions)
  PROVE  Settled(rows, apps, more)
  BY DEF Settled, AllowedIn

\* A workspace where nothing but the backup differs from the disk.
LEMMA SettleConflicts ==
  ASSUME Settled(disk.memory, disk.applications, disk.decisions)', Settle(disk')
  PROVE  ConflictsInv'
  BY DEF Settle, ConflictsInv

\* A command other than apply activates no memory and records no application.
LEMMA StageConflicts ==
  ASSUME TypeOK, RecordsInv, RecordsInv', ConflictsInv,
         NEW new, NEW order, Stage(new, order, FALSE), new.applications = disk.applications
  PROVE  ConflictsInv'
  <1>1. /\ disk' = disk /\ staged' = new /\ backup' = disk /\ atomic' = FALSE
        /\ staged'.applications = disk.applications
    BY DEF Stage
  <1>2. Settled(staged'.memory, disk.applications, disk.decisions)
    <2>1. CASE RollingBack'
      BY <1>1, <2>1 DEF RollingBack, ConflictsInv
    <2>2. CASE ~ RollingBack'
      <3>1. NoneRevived(disk.memory, staged'.memory)
        BY <1>1, <2>2 DEF RecordsInv, MemoryFits
      <3>2. \A i \in DOMAIN disk.applications : disk.applications[i].memory \in Ids(disk.memory)
        BY RestRecords DEF Sound, ApplicationsRefer, ApplicationRefers
      <3> QED
        BY <3>1, <3>2, SettledLater DEF ConflictsInv
    <2> QED
      BY <2>1, <2>2
  <1> QED
    BY <1>1, <1>2 DEF ConflictsInv

\* The replacement of memory, of the applications, or of another file.
LEMMA WriteConflicts ==
  ASSUME TypeOK, AuthorityInv, RecordsInv, ConflictsInv, Write
  PROVE  ConflictsInv'
  <1> DEFINE f == Head(todo)
             Holds(rows, apps) == Settled(rows, apps, disk'.decisions)
  <1>1. /\ f \in FileNames /\ todo # <<>> /\ todo \in Seq(FileNames)
        /\ disk \in Disk /\ disk' = [disk EXCEPT ![f] = staged[f]]
    BY DEF TypeOK, Write
  <1> HIDE DEF f
  <1>2. /\ disk'.memory = IF f = "memory" THEN staged.memory ELSE disk.memory
        /\ disk'.applications =
             IF f = "applications" THEN staged.applications ELSE disk.applications
        /\ disk'.decisions = IF f = "decisions" THEN staged.decisions ELSE disk.decisions
    BY <1>1 DEF Disk, FileNames
  <1>3. disk.decisions \subseteq disk'.decisions
    BY <1>2 DEF AuthorityInv, Extends
  <1>4. /\ Holds(disk.memory, disk.applications) /\ Holds(staged.memory, disk.applications)
        /\ Holds(staged.memory, staged.applications)
        /\ atomic => Holds(backup.memory, disk.applications)
    BY <1>3, SettledMore DEF ConflictsInv
  <1>5. CASE atomic /\ f = "applications"
    <2>1. Len(todo) = 1 /\ disk.memory = staged.memory
      <3>1. PICK done \in 0 .. 4 : /\ done = 5 - Len(todo)
                                   /\ \A i \in 1 .. Len(todo) : todo[i] = ApplyOrder[done + i]
                                   /\ disk = View(backup, staged, ApplyOrder, done)
        BY <1>5, ApplyOrderIs DEF RecordsInv, ApplyUnderway
      <3>2. Len(todo) \in Nat /\ Len(todo) = 5 - done
        BY <1>1, <3>1
      <3>3. todo[1] = "applications" /\ 1 \in 1 .. Len(todo)
        BY <1>1, <1>5 DEF f
      <3>4. ApplyOrder[done + 1] = "applications" /\ done + 1 \in 1 .. 5
        <4>1. todo[1] = ApplyOrder[done + 1]
          BY <3>1, <3>3
        <4>2. done + 1 \in 1 .. 5
          OBVIOUS
        <4> QED
          BY <3>3, <4>1, <4>2
      <3>5. done = 4
        <4>1. \A i \in 1 .. 5 : ApplyOrder[i] = "applications" => i = 5
          BY ApplyOrderIs
        <4> QED
          BY <3>4, <4>1
      <3>6. disk.memory = staged.memory
        <4>1. 2 \in 1 .. 4 /\ ApplyOrder[2] = "memory"
          BY ApplyOrderIs
        <4> QED
          BY <3>1, <3>5, <4>1, ViewField DEF FileNames
      <3> QED
        BY <3>2, <3>5, <3>6
    <2>2. Tail(todo) = <<>>
      <3>1. Len(Tail(todo)) = 0 /\ Tail(todo) \in Seq(FileNames)
        BY <1>1, <2>1
      <3> QED
        BY <3>1, EmptySeq
    <2>3. Settle(disk')
      BY <2>2 DEF Write
    <2>4. Holds(disk'.memory, disk'.applications)
      BY <1>2, <1>4, <1>5, <2>1
    <2> QED
      BY <2>3, <2>4, SettleConflicts
  <1>6. CASE ~ (atomic /\ f = "applications")
    <2>1. disk'.applications = disk.applications
      BY <1>2, <1>6 DEF ConflictsInv
    <2>2. Holds(disk'.memory, disk.applications)
      BY <1>2, <1>4
    <2>3. CASE Tail(todo) = <<>>
      <3>1. Settle(disk')
        BY <2>3 DEF Write
      <3> QED
        BY <2>1, <2>2, <3>1, SettleConflicts
    <2>4. CASE Tail(todo) # <<>>
      <3>1. UNCHANGED <<staged, backup, atomic>>
        BY <2>4 DEF Write
      <3> QED
        BY <1>4, <2>1, <2>2, <3>1 DEF ConflictsInv
    <2> QED
      BY <2>3, <2>4
  <1> QED
    BY <1>5, <1>6

\* A crash leaves what is there; a rollback puts back memory that was there
\* before the application, which is not recorded yet.
LEMMA FaultConflicts ==
  ASSUME TypeOK, RecordsInv, ConflictsInv, Crash \/ Rollback
  PROVE  ConflictsInv'
  <1>1. disk' = disk
    BY DEF Crash, Rollback
  <1>2. CASE Settle(disk)
    BY <1>1, <1>2, SettleConflicts DEF ConflictsInv
  <1>3. CASE Rollback /\ ~ Settle(disk)
    <2>1. atomic /\ staged' = backup /\ backup' = backup /\ atomic' = FALSE
      BY <1>3 DEF Rollback
    <2>2. PICK done \in 0 .. 4 : disk = View(backup, staged, ApplyOrder, done)
      BY <2>1, ApplyOrderIs DEF RecordsInv, ApplyUnderway
    <2>3. disk.applications = backup.applications
      <3>1. \A i \in 1 .. done : ApplyOrder[i] # "applications"
        BY ApplyOrderIs
      <3> QED
        BY <2>2, <3>1, ViewField DEF FileNames
    <2> QED
      BY <1>1, <2>1, <2>3 DEF ConflictsInv
  <1> QED
    BY <1>2, <1>3 DEF Crash, Rollback

\* The commands about candidates other than apply.
LEMMA CandidatesConflicts ==
  ASSUME TypeOK, RecordsInv, RecordsInv', ConflictsInv,
         \/ Propose
         \/ \E c \in disk.candidates : ImportSuggestion(c) \/ RecordConflicts(c) \/ Review(c)
  PROVE  ConflictsInv'
  <1>1. disk \in Disk
    BY DEF TypeOK
  <1>2. CASE Propose
    <2>1. PICK c : Stage(WithCandidate(disk, c), <<"candidates", "conflicts">>, FALSE)
      BY <1>2 DEF Propose
    <2>2. WithCandidate(disk, c).applications = disk.applications
      BY <1>1 DEF WithCandidate, Disk
    <2> QED
      BY <2>1, <2>2, StageConflicts
  <1>3. ASSUME NEW b \in disk.candidates, ImportSuggestion(b)
        PROVE  ConflictsInv'
    <2> DEFINE noted(v) == [disk EXCEPT !.suggestions =
                              @ \cup {[candidate |-> b, recommendation |-> v]}]
    <2>1. PICK v \in Recommendations :
            \/ Stage(noted(v), <<"suggestions">>, FALSE)
            \/ \E c : Stage(WithCandidate(noted(v), c),
                            <<"suggestions", "candidates", "conflicts">>, FALSE)
      BY <1>3 DEF ImportSuggestion
    <2>2. noted(v).applications = disk.applications
          /\ \A c : WithCandidate(noted(v), c).applications = disk.applications
      BY <1>1 DEF WithCandidate, Disk
    <2> HIDE DEF noted
    <2> QED
      BY <2>1, <2>2, StageConflicts
  <1>4. ASSUME NEW c \in disk.candidates, RecordConflicts(c)
        PROVE  ConflictsInv'
    <2> DEFINE new == [disk EXCEPT !.conflicts = @ \cup ConflictRows(c)]
    <2>1. Stage(new, <<"conflicts">>, FALSE) /\ new.applications = disk.applications
      BY <1>1, <1>4 DEF RecordConflicts, Disk
    <2> HIDE DEF new
    <2> QED
      BY <2>1, StageConflicts
  <1>5. ASSUME NEW c \in disk.candidates, Review(c)
        PROVE  ConflictsInv'
    <2> DEFINE after(d) == [disk EXCEPT !.conflicts = @ \cup ConflictRows(c),
                                        !.decisions = @ \cup {d}]
    <2>1. PICK d : Stage(after(d), <<"conflicts", "decisions">>, FALSE)
      BY <1>5 DEF Review
    <2>2. after(d).applications = disk.applications
      BY <1>1 DEF Disk
    <2> HIDE DEF after
    <2> QED
      BY <2>1, <2>2, StageConflicts
  <1> QED
    BY <1>2, <1>3, <1>4, <1>5

\* append_mutation.
LEMMA AppendMutationConflicts ==
  ASSUME TypeOK, RecordsInv, RecordsInv', ConflictsInv,
         NEW r, NEW kind, NEW after, NEW receipts \in Disk, NEW receiptFile,
         AppendMutation(r, kind, after, receipts, receiptFile),
         receipts.applications = disk.applications
  PROVE  ConflictsInv'
  <1> DEFINE new == [receipts EXCEPT !.memory = (@ \ {r}) \cup {after},
                                     !.mutations = @ \cup {MutationFor(r, kind, after)}]
             order == <<"memory", "mutations">> \o receiptFile
  <1>1. Stage(new, order, FALSE) /\ new.applications = disk.applications
    BY DEF AppendMutation, Disk
  <1> HIDE DEF new, order
  <1> QED
    BY <1>1, StageConflicts

\* The commands that mutate a row, and the retention sweep.
LEMMA MutationsConflicts ==
  ASSUME TypeOK, TypeOK', RecordsInv, RecordsInv', ConflictsInv,
         \/ \E r : Confidence(r) \/ Verify(r) \/ TombstoneMemory(r)
         \/ \E old, new : Supersede(old, new)
         \/ Sweep
  PROVE  ConflictsInv'
  <1>1. disk \in Disk
    BY DEF TypeOK
  <1>2. ASSUME NEW r, NEW kind, NEW after, AppendMutation(r, kind, after, disk, <<>>)
        PROVE  ConflictsInv'
    BY <1>1, <1>2, AppendMutationConflicts
  <1>3. ASSUME NEW r, Confidence(r) \/ Verify(r)
        PROVE  ConflictsInv'
    BY <1>2, <1>3 DEF Confidence, Verify
  <1>4. CASE Sweep
    <2>1. PICK r \in sweep : AssignExpiry(r) \/ Expire(r) \/ Keep(r)
      BY <1>4 DEF Sweep
    <2>2. CASE AssignExpiry(r) \/ Expire(r)
      BY <1>2, <2>2 DEF AssignExpiry, Expire
    <2>3. CASE Keep(r)
      BY <2>3 DEF Keep, volatile, ConflictsInv
    <2> QED
      BY <2>1, <2>2, <2>3
  <1> DEFINE entombed(t) == [disk EXCEPT !.tombstones = @ \cup {t}]
             linked(e) == [disk EXCEPT !.supersession = @ \cup {e}]
  <1>5. ASSUME NEW r, TombstoneMemory(r)
        PROVE  ConflictsInv'
    <2>1. PICK t : AppendMutation(r, "tombstone", Tombstoned(r), entombed(t), <<"tombstones">>)
      BY <1>5 DEF TombstoneMemory
    <2> DEFINE new == [entombed(t) EXCEPT !.memory = (@ \ {r}) \cup {Tombstoned(r)},
                         !.mutations = @ \cup {MutationFor(r, "tombstone", Tombstoned(r))}]
               order == <<"memory", "mutations">> \o <<"tombstones">>
    <2>2. Stage(new, order, FALSE)
      BY <2>1 DEF AppendMutation
    <2>3. new.applications = disk.applications
      BY <1>1 DEF Disk
    <2> HIDE DEF new, order
    <2> QED
      BY <2>2, <2>3, StageConflicts
  <1>6. ASSUME NEW old, NEW by, Supersede(old, by)
        PROVE  ConflictsInv'
    <2>1. PICK e : AppendMutation(old, "supersede", Superseded(old), linked(e), <<"supersession">>)
      BY <1>6 DEF Supersede
    <2> DEFINE new == [linked(e) EXCEPT !.memory = (@ \ {old}) \cup {Superseded(old)},
                         !.mutations = @ \cup {MutationFor(old, "supersede", Superseded(old))}]
               order == <<"memory", "mutations">> \o <<"supersession">>
    <2>2. Stage(new, order, FALSE)
      BY <2>1 DEF AppendMutation
    <2>3. new.applications = disk.applications
      BY <1>1 DEF Disk
    <2> HIDE DEF new, order
    <2> QED
      BY <2>2, <2>3, StageConflicts
  <1> QED
    BY <1>3, <1>4, <1>5, <1>6

\* The key of a memory is read from the applications.
LEMMA MemoryKeyIs ==
  ASSUME NEW m
  PROVE  MemoryKey(m) = KeyIn(disk.applications, m)
  BY DEF MemoryKey, KeyIn, Keyed, GreatestOf

\* apply: every active memory that the applied one contradicts from now on is
\* among the conflicts its decision resolved.
LEMMA ApplyConflicts ==
  ASSUME TypeOK, RecordsInv, ConflictsInv, NEW c \in disk.candidates, Apply(c)
  PROVE  ConflictsInv'
  <1> DEFINE d == LatestDecision(c)
             targets == Targets(c, d)
             id == Identity(c, targets)
             row == Proposed(c, id)
             retired == {r \in disk.memory : r.id \in targets}
             application == [candidate |-> c, decision |-> d.revision, memory |-> id,
                             written |-> row, key |-> CandidateKey(c)]
             memory == ((disk.memory \cup {row}) \ retired) \cup {Superseded(r) : r \in retired}
             mutations == {SupersedeMutation(r) : r \in retired}
             edges == {[from |-> r.id, to |-> id, mutation |-> NextMutation(r.id)] : r \in retired}
             new == [disk EXCEPT !.conflicts = @ \cup ConflictRows(c),
                                 !.memory = memory,
                                 !.mutations = @ \cup mutations,
                                 !.supersession = @ \cup edges,
                                 !.applications = Append(@, application)]
  <1>1. Stage(new, ApplyOrder, TRUE)
    BY DEF Apply, ApplyOrder
  <1>2. disk \in Disk /\ c \in Candidate /\ Sound(disk)
    BY RestRecords DEF TypeOK, Disk, Apply, Idle
  <1>3. d \in disk.decisions /\ d \in Decision /\ d.candidate = c
    BY <1>2, LatestDecisionIsLast DEF Disk, DecisionsOf, Apply, Approved
  <1>4. targets \in SUBSET MemoryId
    BY <1>2, <1>3 DEF Targets, Candidate, Decision
  <1>5. /\ id \in MemoryId /\ row \in Row
        /\ row.id = id /\ id[1].proposal = c.proposal /\ row.state = "active"
    <2>1. retention # Torn
      BY DEF Apply
    <2> HIDE DEF targets
    <2>2. id \in MemoryId /\ row.id = id /\ id[1].proposal = c.proposal
      BY <1>2, <1>4, <2>1, AppliedProposal, IdentityType
    <2> HIDE DEF id
    <2> QED
      BY <1>2, <2>1, <2>2, ProposedType DEF Proposed
  <1>6. Valid(row) /\ ~ Collides(row) /\ id \notin targets /\ ConflictsCovered(c, d)
    BY DEF Apply
  <1>7. /\ NoneRevived(disk.memory, memory)
        /\ \A s \in memory : s.id \in Ids(disk.memory) \/ s = row
    <2>1. OneRowPerId(disk.memory) /\ AllValid(disk.memory) /\ disk.memory \subseteq Row
      BY <1>2 DEF Sound, Disk
    <2>2. ~ \E r \in disk.memory : r.id = row.id /\ r # row
      BY <1>6 DEF Collides
    <2> HIDE DEF row, id, targets
    <2> QED
      BY <1>5, <1>6, <2>1, <2>2, AppliedMemory
  <1>8. /\ application.memory = id /\ application.candidate = c
        /\ application.decision = d.revision /\ application.key = CandidateKey(c)
    OBVIOUS
  <1> HIDE DEF memory, mutations, edges, application, d, row, id
  <1>9. /\ new.memory = memory /\ new.applications = Append(disk.applications, application)
        /\ new.decisions = disk.decisions
    BY <1>2 DEF Disk
  <1> HIDE DEF new
  <1> DEFINE apps == disk.applications
             more == new.applications
             decisions == disk.decisions
  <1>10. Settled(memory, apps, decisions)
    <2>1. \A i \in DOMAIN apps : apps[i].memory \in Ids(disk.memory)
      BY <1>2 DEF Sound, ApplicationsRefer, ApplicationRefers
    <2> QED
      BY <1>7, <2>1, SettledLater DEF ConflictsInv
  <1>11. /\ apps \in Seq(Application) /\ more = Append(apps, application)
         /\ \A i \in DOMAIN apps : i \in DOMAIN more /\ more[i] = apps[i]
         /\ \A i \in DOMAIN more : (i \in DOMAIN apps /\ more[i] = apps[i]) \/ more[i] = application
         /\ \E i \in DOMAIN more : more[i] = application
    <2>1. apps \in Seq(Application) /\ more = Append(apps, application)
      BY <1>2, <1>9 DEF Disk
    <2>2. /\ DOMAIN apps = 1 .. Len(apps) /\ Len(apps) \in Nat
          /\ DOMAIN more = 1 .. Len(apps) + 1
          /\ \A i \in 1 .. Len(apps) : more[i] = apps[i]
          /\ more[Len(apps) + 1] = application
      <3> HIDE DEF apps, more
      <3> QED
        BY <2>1
    <2>3. \A i \in 1 .. Len(apps) + 1 : i \in 1 .. Len(apps) \/ i = Len(apps) + 1
      BY <2>2
    <2>4. Len(apps) + 1 \in 1 .. Len(apps) + 1
          /\ \A i \in 1 .. Len(apps) : i \in 1 .. Len(apps) + 1
      BY <2>2
    <2> HIDE DEF apps, more
    <2> QED
      BY <2>1, <2>2, <2>3, <2>4
  <1>12. \A k : MemoryKey(k) = KeyIn(apps, k)
    BY MemoryKeyIs
  <1> HIDE DEF apps, more, decisions
  <1>13. \A k, other : AllowedIn(apps, decisions, k, other) => AllowedIn(more, decisions, k, other)
    BY <1>11 DEF AllowedIn
  <1>14. /\ \A k : k # id => KeyIn(more, k) = KeyIn(apps, k)
         /\ CandidateKey(c) = NoKey => KeyIn(more, id) = KeyIn(apps, id)
         /\ CandidateKey(c) # NoKey => KeyIn(more, id) = CandidateKey(c)
    <2>1. \A k :
            /\ k # application.memory \/ application.key = NoKey
                 => KeyIn(Append(apps, application), k) = KeyIn(apps, k)
            /\ k = application.memory /\ application.key # NoKey
                 => KeyIn(Append(apps, application), k) = application.key
      BY <1>11, KeyAppended
    <2> QED
      BY <1>8, <1>11, <2>1
  <1>15. \A k : k # id => KeyIn(more, k) = KeyIn(apps, k) /\ (AppliedIn(more, k) => AppliedIn(apps, k))
    <2>1. ASSUME NEW k, k # id, AppliedIn(more, k)
          PROVE  AppliedIn(apps, k)
      <3>1. PICK i \in DOMAIN more : more[i].memory = k
        BY <2>1 DEF AppliedIn
      <3>2. more[i] # application
        BY <1>8, <2>1, <3>1
      <3>3. i \in DOMAIN apps /\ apps[i] = more[i]
        BY <1>11, <3>2
      <3> QED
        BY <3>1, <3>3 DEF AppliedIn
    <2> QED
      BY <1>14, <2>1
  <1>16. ASSUME NEW k \in ActiveIds(memory), id \in ActiveIds(memory), k # id,
                Contradict(more, id, k)
         PROVE  AllowedIn(more, decisions, id, k) \/ AllowedIn(more, decisions, k, id)
    <2>1. CASE CandidateKey(c) # NoKey
      <3>1. KeyIn(more, id) = CandidateKey(c)
        BY <1>14, <2>1
      <3>2. MemoryKey(k) = CandidateKey(c)
        BY <1>12, <1>15, <1>16, <3>1 DEF Contradict
      <3>3. PICK s \in memory : s.id = k /\ s.state = "active"
        BY <1>16 DEF ActiveIds
      <3>4. PICK r \in disk.memory : r.id = k /\ r.state = "active"
        <4>1. PICK r \in disk.memory : r.id = k
          BY <1>5, <1>7, <1>16, <3>3 DEF Ids
        <4> QED
          BY <1>7, <3>3, <4>1 DEF NoneRevived
      <3>5. r \in Conflicting(c)
        <4>1. /\ r.id[1].proposal.type = c.proposal.type
              /\ r.id[1].proposal.content # c.proposal.content
          BY <1>5, <1>16, <3>4 DEF Contradict
        <4> QED
          BY <2>1, <3>2, <3>4, <4>1 DEF Conflicting, SafeDuplicate
      <3>6. k \in d.resolved
        BY <1>6, <3>4, <3>5 DEF ConflictsCovered, Ids
      <3>7. AllowedIn(more, decisions, id, k)
        BY <1>3, <1>8, <1>11, <3>6 DEF AllowedIn, decisions
      <3> QED
        BY <3>7
    <2>2. CASE CandidateKey(c) = NoKey
      <3>1. KeyIn(more, id) = KeyIn(apps, id)
        BY <1>14, <2>2
      <3>2. CASE AppliedIn(apps, id)
        <4>1. Contradict(apps, id, k)
          BY <1>15, <1>16, <3>1, <3>2 DEF Contradict
        <4> QED
          BY <1>10, <1>13, <1>16, <4>1 DEF Settled
      <3>3. CASE ~ AppliedIn(apps, id)
        <4>1. Keyed(apps, id) = {}
          BY <3>3 DEF AppliedIn, Keyed
        <4>2. KeyIn(apps, id) = DerivedKey[c.proposal.content]
          BY <1>5, <4>1 DEF KeyIn
        <4>3. DerivedKey[c.proposal.content] = NoKey
          BY <2>2 DEF CandidateKey
        <4> QED
          BY <1>16, <3>1, <4>2, <4>3 DEF Contradict
      <3> QED
        BY <3>2, <3>3
    <2> QED
      BY <2>1, <2>2
  <1>17. Settled(memory, more, decisions)
    <2> SUFFICES ASSUME NEW m \in ActiveIds(memory), NEW other \in ActiveIds(memory),
                        Contradict(more, m, other)
                 PROVE  AllowedIn(more, decisions, m, other) \/ AllowedIn(more, decisions, other, m)
      BY DEF Settled
    <2>1. m # other /\ Contradict(more, other, m)
      BY DEF Contradict
    <2>2. CASE m # id /\ other # id
      <3>1. Contradict(apps, m, other)
        BY <1>15, <2>2 DEF Contradict
      <3> QED
        BY <1>10, <1>13, <3>1 DEF Settled
    <2>3. CASE m = id
      BY <1>16, <2>1, <2>3
    <2>4. CASE other = id
      BY <1>16, <2>1, <2>4
    <2> QED
      BY <2>2, <2>3, <2>4
  <1>18. /\ disk' = disk /\ staged' = new /\ backup' = disk /\ atomic' = TRUE
    BY <1>1 DEF Stage
  <1> QED
    BY <1>9, <1>10, <1>17, <1>18 DEF ConflictsInv, apps, more, decisions

\* Every step keeps it.
LEMMA ConflictsInductive ==
  /\ TypeOK /\ TypeOK' /\ AuthorityInv /\ RecordsInv /\ RecordsInv' /\ ConflictsInv
  /\ [Next]_vars
  => ConflictsInv'
  <1> SUFFICES ASSUME TypeOK, TypeOK', AuthorityInv, RecordsInv, RecordsInv', ConflictsInv,
                      [Next]_vars
               PROVE  ConflictsInv'
    OBVIOUS
  <1>1. CASE Write
    BY <1>1, WriteConflicts
  <1>2. CASE Crash \/ Rollback
    BY <1>2, FaultConflicts
  <1>3. CASE Propose
    BY <1>3, CandidatesConflicts
  <1>4. CASE SetRetention \/ EnforceRetention \/ UNCHANGED vars
    <2>1. UNCHANGED <<disk, staged, backup, atomic>>
      BY <1>4 DEF SetRetention, EnforceRetention, volatile, vars
    <2> QED
      BY <2>1 DEF ConflictsInv
  <1>5. ASSUME NEW c \in disk.candidates,
               ImportSuggestion(c) \/ RecordConflicts(c) \/ Review(c) \/ Apply(c)
        PROVE  ConflictsInv'
    BY <1>5, CandidatesConflicts, ApplyConflicts
  <1>6. CASE \/ \E r \in disk.memory : Confidence(r) \/ Verify(r) \/ TombstoneMemory(r)
             \/ \E old, new \in disk.memory : Supersede(old, new)
             \/ Sweep
    BY <1>6, MutationsConflicts
  <1> QED
    BY <1>1, <1>2, <1>3, <1>4, <1>5, <1>6 DEF Next

\* Two active memories that answer the same semantic key differently are there
\* together only because a decision that led to one of them resolved its conflict
\* with the other: apply looks for conflicts again, whatever was applied, revised,
\* superseded, lost in a crash or put back since the review.
THEOREM NoContradictionUnseen == Spec => []ConflictsResolved
  <1>1. Init => ConflictsInv
    BY DEF Init, EmptyDisk, ConflictsInv, Settled, ActiveIds
  <1>2. TypeOK /\ AuthorityInv /\ RecordsInv /\ TypeOK' /\ RecordsInv' /\ ConflictsInv
          /\ [Next]_vars => ConflictsInv'
    BY ConflictsInductive
  <1>3. ConflictsInv => ConflictsResolved
    <2> SUFFICES ASSUME Settled(disk.memory, disk.applications, disk.decisions),
                        NEW r \in disk.memory, NEW s \in disk.memory,
                        r.state = "active", s.state = "active",
                        r.id[1].proposal.type = s.id[1].proposal.type,
                        r.id[1].proposal.content # s.id[1].proposal.content,
                        MemoryKey(r.id) = MemoryKey(s.id), MemoryKey(r.id) # NoKey,
                        \E a \in Applications : a.memory = r.id,
                        \E a \in Applications : a.memory = s.id
                 PROVE  \E a \in Applications :
                          \/ a.memory = r.id /\ s.id \in ResolvedBy(a)
                          \/ a.memory = s.id /\ r.id \in ResolvedBy(a)
      BY DEF ConflictsInv, ConflictsResolved
    <2> DEFINE apps == disk.applications
    <2>1. r.id \in ActiveIds(disk.memory) /\ s.id \in ActiveIds(disk.memory)
      BY DEF ActiveIds
    <2>2. AppliedIn(apps, r.id) /\ AppliedIn(apps, s.id)
      BY DEF AppliedIn, Applications
    <2>3. Contradict(apps, r.id, s.id)
      BY <2>2, MemoryKeyIs DEF Contradict
    <2>4. ASSUME NEW m, NEW other, AllowedIn(apps, disk.decisions, m, other)
          PROVE  \E a \in Applications : a.memory = m /\ other \in ResolvedBy(a)
      <3>1. PICK i \in DOMAIN apps, d \in disk.decisions :
              /\ apps[i].memory = m
              /\ d.candidate = apps[i].candidate /\ d.revision = apps[i].decision
              /\ other \in d.resolved
        BY <2>4 DEF AllowedIn
      <3>2. apps[i] \in Applications /\ other \in ResolvedBy(apps[i])
        BY <3>1 DEF Applications, ResolvedBy, DecisionsOf
      <3> QED
        BY <3>1, <3>2
    <2> QED
      BY <2>1, <2>3, <2>4 DEF Settled
  <1> QED
    BY <1>1, <1>2, <1>3, RecordsInvariant, PTL DEF Spec

=============================================================================
