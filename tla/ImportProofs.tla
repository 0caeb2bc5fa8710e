---------------------------- MODULE ImportProofs ----------------------------
(***************************************************************************)
(* Proofs about Import, for every value of its constants.                  *)
(***************************************************************************)
EXTENDS Import, SequenceTheorems, FiniteSetTheorems, TLAPS

\* Facts of arithmetic that the provers need told.
LEMMA Multiplication == \A a, b \in Nat : a * b \in Nat
OBVIOUS

LEMMA Division ==
  ASSUME NEW a \in Nat, NEW b \in Nat \ {0}
  PROVE  a \div b \in Nat
OBVIOUS

\* A set of the form {F(x) : x \in S} is finite with S: stated of functions.
LEMMA ImageIsFinite ==
  ASSUME NEW S, IsFiniteSet(S), NEW f, f = [x \in S |-> f[x]]
  PROVE  IsFiniteSet({f[x] : x \in S})
<1> DEFINE T == {f[x] : x \in S}
<1>1. f \in Surjection(S, T)
  BY DEF Surjection
<1>2. QED
  BY <1>1, FS_Surjection

\* The hash of a source is a hash.
LEMMA IdentityType ==
  ASSUME NEW s \in Source
  PROVE  Identity(s) \in Hash
<1>1. s.layout \in Layouts /\ s.members \subseteq Member
  BY DEF Source
<1>2. \A m \in s.members : [m EXCEPT !.path = None] \in
        [path : Paths \cup {None}, kind : Kinds, body : Body, ignored : BOOLEAN]
  BY <1>1 DEF Member
<1>3. s.members \subseteq [path : Paths \cup {None}, kind : Kinds, body : Body, ignored : BOOLEAN]
  BY <1>1 DEF Member
<1>4. QED
  BY <1>1, <1>2, <1>3 DEF Identity, Hash

\* The chunks of a file are items: their lines are lines of the file.
LEMMA ChunksType ==
  ASSUME NEW m \in Member, NEW size \in Nat \ {0}
  PROVE  Chunks(m, size) \in Seq(Items)
<1> DEFINE n == Len(m.body)
           last(i) == IF i * size < n THEN i * size ELSE n
<1>1. m.body \in Seq(Lines) /\ n \in Nat /\ m.path \in Paths
  BY DEF Member, Body
<1>2. (n + size - 1) \div size \in Nat
  <2>1. n + size - 1 \in Nat
    BY <1>1
  <2>2. QED
    BY <2>1, Division
<1>3. ASSUME NEW i \in 1 .. ((n + size - 1) \div size)
      PROVE  Item(m.path, (i - 1) * size + 1, last(i), "text",
                  SubSeq(m.body, (i - 1) * size + 1, last(i))) \in Items
  <2>1. i \in Nat /\ i - 1 \in Nat
    BY <1>2
  <2>2. (i - 1) * size \in Nat /\ i * size \in Nat
    BY <2>1, Multiplication
  <2>3. (i - 1) * size + 1 \in Nat \ {0} /\ last(i) \in Nat /\ last(i) <= n
    BY <1>1, <2>2
  <2> HIDE DEF last
  <2>4. SubSeq(m.body, (i - 1) * size + 1, last(i)) \in Seq(Lines)
    <3>1. \A j \in (i - 1) * size + 1 .. last(i) : m.body[j] \in Lines
      BY <1>1, <2>3
    <3>2. QED
      BY <2>3, <3>1, SubSeqProperties
  <2>5. QED
    BY <1>1, <2>3, <2>4 DEF Item, Items, Body
<1>4. Chunks(m, size) \in [1 .. ((n + size - 1) \div size) -> Items]
  <2> HIDE DEF Items
  <2>1. QED
    BY <1>3 DEF Chunks
<1>5. QED
  BY <1>2, <1>4, SeqDef

\* The messages of a file are items.
LEMMA MessagesType ==
  ASSUME NEW m \in Member, NEW path \in Paths \cup {None}
  PROVE  Messages(m, path) \in Seq(Items)
<1>1. m.body \in Seq(Lines)
  BY DEF Member, Body
<1>2. \A i \in DOMAIN m.body : Item(path, 0, 0, "text", <<m.body[i]>>) \in Items
  BY <1>1 DEF Item, Items, Body
<1>3. DOMAIN m.body = 1 .. Len(m.body) /\ Len(m.body) \in Nat
  BY <1>1
<1>4. Messages(m, path) \in [1 .. Len(m.body) -> Items]
  <2> HIDE DEF Items
  <2>1. QED
    BY <1>2, <1>3 DEF Messages
<1>5. QED
  BY <1>3, <1>4, SeqDef

\* Splitting a member gives a sequence of items.
LEMMA ItemsType ==
  ASSUME NEW m \in Member, NEW a, NEW layout, NEW size \in Nat \ {0}
  PROVE  ItemsOf(a, m, layout, size) \in Seq(Items)
<1>1. m.path \in Paths \cup {None} /\ m.body \in Body
  BY DEF Member
<1>2. \A kind \in {"text", "binary"} : <<Item(m.path, 0, 0, kind, m.body)>> \in Seq(Items)
  BY <1>1 DEF Item, Items
<1>3. Messages(m, m.path) \in Seq(Items) /\ Messages(m, None) \in Seq(Items)
  BY <1>1, MessagesType
<1>4. Chunks(m, size) \in Seq(Items)
  BY ChunksType
<1> HIDE DEF Items
<1>5. QED
  BY <1>2, <1>3, <1>4
  DEF ItemsOf, CoreItems, EvidenceItems, WholeFile, Reference, Conversation, Takeout, Transcript, Mail

-----------------------------------------------------------------------------
(* Type correctness.  The staged rows are counted, so the items of a       *)
(* running import must be finite.                                          *)

\* What an import has collected is finite.
FiniteItems == op # Idle => IsFiniteSet(op.items)

TInv == TypeOK /\ FiniteItems

\* An operation with a stage of work is running.
LEMMA Running_ ==
  ASSUME op = Idle \/ op \in Operation, op.at # "idle"
  PROVE  op \in Operation /\ op # Idle
BY DEF Idle

\* The source is a set of members.
LEMMA SourceIsSource ==
  ASSUME TypeOK
  PROVE  source \in Source /\ source.members \subseteq Member
BY ConstantsAssumption DEF TypeOK, Source

\* The identity of an import.
LEMMA IdOfType ==
  ASSUME NEW o \in Operation
  PROVE  SnapshotOf(o) \in Snapshot /\ IdOf(o) \in Id
<1>1. o.hash \in Hash /\ o.adapter \in Adapters /\ o.head \in {None} \cup SUBSET Member
      /\ o.clean \in BOOLEAN
  BY DEF Operation
<1> HIDE DEF Hash, Member
<1>2. SnapshotOf(o) \in Snapshot
  BY <1>1 DEF SnapshotOf, Snapshot
<1>3. QED
  BY <1>1, <1>2 DEF IdOf, ReceiptId, Id

\* The row of an item, and its content.
LEMMA ObservationType ==
  ASSUME NEW o \in Operation, NEW item \in Items
  PROVE  /\ Observation(o, item) \in Row
         /\ ContentOf(Observation(o, item)) \in [kind : {"text", "binary"}, body : Body]
<1>1. o.name \in Names
  BY DEF Operation
<1>2. IdOf(o) \in Id
  BY IdOfType
<1>3. Observation(o, item) \in Row /\ Observation(o, item).item = item
  BY <1>1, <1>2 DEF Observation, Row
<1>4. QED
  BY <1>3 DEF ContentOf, Items

\* The files an import stages.
LEMMA RowsType ==
  ASSUME NEW o \in Operation, IsFiniteSet(o.items), NEW t \in Times, disk \in Files
  PROVE  RowsOf(o, t) \in Files
<1> DEFINE observations == {Observation(o, item) : item \in o.items}
           contents == {ContentOf(x) : x \in observations}
<1>1. o.items \subseteq Items /\ o.listed \in Nat
  BY DEF Operation
<1>2. observations \subseteq Row /\ contents \subseteq [kind : {"text", "binary"}, body : Body]
  BY <1>1, ObservationType
<1>3. IsFiniteSet(observations)
  <2> DEFINE f == [item \in o.items |-> Observation(o, item)]
  <2>1. observations = {f[item] : item \in o.items}
    OBVIOUS
  <2>2. IsFiniteSet({f[item] : item \in o.items})
    BY ImageIsFinite
  <2>3. QED
    BY <2>1, <2>2
<1>4. IsFiniteSet(contents)
  <2> HIDE DEF observations
  <2> DEFINE f == [x \in observations |-> ContentOf(x)]
  <2>1. contents = {f[x] : x \in observations}
    OBVIOUS
  <2>2. IsFiniteSet({f[x] : x \in observations})
    BY <1>3, ImageIsFinite
  <2>3. QED
    BY <2>1, <2>2
<1>5. Cardinality(observations) \in Nat /\ Cardinality(contents) \in Nat
  BY <1>3, <1>4, FS_CardinalityType
<1>6. IdOf(o) \in Id /\ SnapshotOf(o) \in Snapshot
  BY IdOfType
<1> HIDE DEF observations, contents
<1>7. NewReceipt(o, observations, t) \in Receipt
  <2>1. CountOf(o, observations) \in Nat
    BY <1>1, <1>5 DEF CountOf
  <2>2. StatusOf(o) \in {"exact", "partial", "generic"}
    BY DEF StatusOf
  <2>3. QED
    BY <1>5, <1>6, <2>1, <2>2 DEF NewReceipt, Receipt, contents
<1>8. Existing(IdOf(o)) \subseteq Receipt
  BY DEF Existing, Files
<1>9. RowsOf(o, t) =
       [snapshots |-> IF Evidence(o.adapter) THEN {SnapshotOf(o)} ELSE {},
        contents |-> IF Evidence(o.adapter) THEN contents ELSE {},
        observations |-> observations,
        receipts |-> IF Existing(IdOf(o)) = {} THEN {NewReceipt(o, observations, t)}
                                               ELSE Existing(IdOf(o))]
  BY DEF RowsOf, observations, contents
<1>10. QED
  BY <1>2, <1>6, <1>7, <1>8, <1>9 DEF Files

\* What an import selects are members.
LEMMA SelectedType ==
  ASSUME NEW a, NEW s, s.members \subseteq Member, NEW tracked
  PROVE  Selected(a, s, tracked) \subseteq Member
<1> DEFINE seen == Seen(a, s, tracked)
           chats == Conversations(seen)
<1>1. seen \subseteq Member /\ chats \subseteq Member /\ UnderDrive(seen) \subseteq Member
  BY DEF Seen, Conversations, UnderDrive
<1>2. chats # {} => {CHOOSE m \in chats : TRUE} \subseteq Member
  BY <1>1
<1>3. QED
  BY <1>1, <1>2 DEF Selected

\* An import writes files it has.
LEMMA OrderType ==
  ASSUME NEW a
  PROVE  Order(a) \in Seq({"snapshots", "contents", "observations", "receipts"})
<1>1. CASE Evidence(a)
  <2>1. Order(a) = <<"snapshots", "contents", "observations", "receipts">>
    BY <1>1 DEF Order
  <2>2. QED
    BY <2>1
<1>2. CASE ~ Evidence(a)
  <2>1. Order(a) = <<"observations", "receipts">>
    BY <1>2 DEF Order
  <2>2. QED
    BY <2>1
<1>3. QED
  BY <1>1, <1>2

\* The type invariant, with the finiteness it needs, is inductive.
LEMMA TypeInit == Init => TInv
<1> SUFFICES ASSUME Init PROVE TInv
  OBVIOUS
<1>1. head \in {None} \cup SUBSET Member
  BY ConstantsAssumption DEF Init, Tracked, Source
<1>2. disk \in Files
  BY DEF Init, NoRows, Files
<1>3. QED
  BY <1>1, <1>2, ConstantsAssumption DEF Init, TInv, TypeOK, FiniteItems

LEMMA TypeNext == TInv /\ [Next]_vars => TInv'
<1> SUFFICES ASSUME TInv, [Next]_vars PROVE TInv'
  OBVIOUS
<1> USE DEF TInv
<1>0. TypeOK /\ FiniteItems
  OBVIOUS
<1>1. ASSUME NEW a \in Adapters, NEW k \in ChunkSizes, NEW l \in Limits, Begin(a, k, l)
      PROVE  TInv'
  <2> DEFINE stage == IF a = "evidence:repo" THEN "git-head" ELSE "list"
  <2>1. source \in Source
    BY <1>0, SourceIsSource
  <2>2. op' = Running(stage, a, k, l, source)
    BY <1>1 DEF Begin
  <2>3. Identity(source) \in Hash /\ source.name \in Names /\ source.layout \in Layouts
    BY <2>1, IdentityType DEF Source
  <2>4. NoRows \in Files
    BY DEF NoRows, Files
  <2>5. <<>> \in Seq({"snapshots", "contents", "observations", "receipts"})
    OBVIOUS
  <2>6. stage \in Stages \ {"idle"}
    BY DEF Stages
  <2> HIDE DEF stage
  <2>7. op' \in Operation
    <3> HIDE DEF Hash, Files, Stages
    <3>1. QED
      BY <2>2, <2>3, <2>4, <2>5, <2>6 DEF Running, Operation
  <2>8. op'.items = {} /\ IsFiniteSet({})
    BY <2>2, FS_EmptySet DEF Running
  <2>9. QED
    BY <1>0, <1>1, <2>7, <2>8 DEF Begin, outside, written, TypeOK, FiniteItems
<1>2. CASE ReadHead
  <2>1. op \in Operation /\ op # Idle
    BY <1>0, <1>2, Running_ DEF ReadHead, TypeOK
  <2>2. op' = [op EXCEPT !.head = head, !.at = IF head = None THEN "list" ELSE "git-status"]
    BY <1>2 DEF ReadHead
  <2>3. op' \in Operation /\ op'.items = op.items
    BY <1>0, <2>1, <2>2 DEF Operation, Stages, TypeOK
  <2>4. QED
    BY <1>0, <1>2, <2>1, <2>3 DEF ReadHead, outside, written, TypeOK, FiniteItems
<1>3. CASE ReadStatus
  <2>1. op \in Operation /\ op # Idle
    BY <1>0, <1>3, Running_ DEF ReadStatus, TypeOK
  <2>2. op' = [op EXCEPT !.clean = Clean(source, head), !.at = "list"]
    BY <1>3 DEF ReadStatus
  <2>3. Clean(source, head) \in BOOLEAN
    BY DEF Clean
  <2>4. op' \in Operation /\ op'.items = op.items
    BY <2>1, <2>2, <2>3 DEF Operation, Stages
  <2>5. QED
    BY <1>0, <1>3, <2>1, <2>4 DEF ReadStatus, outside, written, TypeOK, FiniteItems
<1>4. CASE List
  <2> DEFINE found == Selected(op.adapter, source, TrackedPaths)
  <2>1. op \in Operation /\ op # Idle
    BY <1>0, <1>4, Running_ DEF List, TypeOK
  <2>2. op' = [op EXCEPT !.unread = found, !.at = Progress(found),
                         !.warned = NoDriveRoot(op.adapter, source)]
    BY <1>4 DEF List
  <2>3. found \subseteq Member
    BY <1>0, SourceIsSource, SelectedType
  <2>4. NoDriveRoot(op.adapter, source) \in BOOLEAN /\ Progress(found) \in {"check", "read"}
    BY DEF NoDriveRoot, Progress
  <2> HIDE DEF found
  <2>5. op' \in Operation /\ op'.items = op.items
    BY <2>1, <2>2, <2>3, <2>4 DEF Operation, Stages
  <2>6. QED
    BY <1>0, <1>4, <2>1, <2>5 DEF List, outside, written, TypeOK, FiniteItems
<1>5. CASE ReadFile
  <2>1. op \in Operation /\ op # Idle
    BY <1>0, <1>5, Running_ DEF ReadFile, TypeOK
  <2>2. PICK listed \in op.unread : \E m \in Now(listed) :
          LET items == IF Parsed(op.adapter, m, op.layout, op.most)
                         THEN ItemsOf(op.adapter, m, op.layout, op.size) ELSE <<>>
              unread == op.unread \ {listed}
          IN  op' = [op EXCEPT !.items = @ \cup {items[i] : i \in DOMAIN items},
                               !.listed = @ + Len(items),
                               !.warned = @ \/ WarnsOf(op.adapter, m, op.layout, op.most),
                               !.unread = unread, !.at = Progress(unread)]
    BY <1>5 DEF ReadFile
  <2>3. PICK m \in Now(listed) :
          LET items == IF Parsed(op.adapter, m, op.layout, op.most)
                         THEN ItemsOf(op.adapter, m, op.layout, op.size) ELSE <<>>
              unread == op.unread \ {listed}
          IN  op' = [op EXCEPT !.items = @ \cup {items[i] : i \in DOMAIN items},
                               !.listed = @ + Len(items),
                               !.warned = @ \/ WarnsOf(op.adapter, m, op.layout, op.most),
                               !.unread = unread, !.at = Progress(unread)]
    BY <2>2
  <2> DEFINE items == IF Parsed(op.adapter, m, op.layout, op.most)
                        THEN ItemsOf(op.adapter, m, op.layout, op.size) ELSE <<>>
             unread == op.unread \ {listed}
             warns == WarnsOf(op.adapter, m, op.layout, op.most)
             new == {items[i] : i \in DOMAIN items}
  <2>4. m \in Member
    BY <1>0, <2>1, SourceIsSource DEF Now, Operation
  <2>5. op.size \in Nat \ {0}
    BY <2>1, ConstantsAssumption DEF Operation
  <2>6. items \in Seq(Items)
    <3> HIDE DEF Items
    <3>1. QED
      BY <2>4, <2>5, ItemsType
  <2>7. warns \in BOOLEAN /\ Progress(unread) \in {"check", "read"}
    BY DEF WarnsOf, Oversized, Progress
  <2>8. op' = [op EXCEPT !.items = @ \cup new, !.listed = @ + Len(items),
                         !.warned = @ \/ warns, !.unread = unread, !.at = Progress(unread)]
    BY <2>3
  <2> HIDE DEF items, warns
  <2>9. new \subseteq Items /\ Len(items) \in Nat /\ DOMAIN items = 1 .. Len(items)
    BY <2>6
  <2>10. IsFiniteSet(new)
    <3>1. IsFiniteSet(DOMAIN items)
      BY <2>9, FS_Interval
    <3>2. items = [i \in DOMAIN items |-> items[i]]
      BY <2>6
    <3>3. QED
      BY <3>1, <3>2, ImageIsFinite
  <2> HIDE DEF new, Items
  <2>11. op' \in Operation /\ op'.items = op.items \cup new
    <3> DEFINE all == op.items \cup new
               count == op.listed + Len(items)
               warned == op.warned \/ warns
    <3>1. op' = [op EXCEPT !.items = all, !.listed = count, !.warned = warned,
                           !.unread = unread, !.at = Progress(unread)]
      BY <2>8
    <3>2. all \subseteq Items /\ count \in Nat /\ unread \subseteq Member
      BY <2>1, <2>9 DEF Operation
    <3>3. warned \in BOOLEAN
      BY <2>1, <2>7 DEF Operation
    <3>4. Progress(unread) \in Stages \ {"idle"}
      BY <2>7 DEF Stages
    <3> HIDE DEF all, count, warned, unread
    <3>5. op' \in Operation /\ op'.items = all
      BY <2>1, <3>1, <3>2, <3>3, <3>4 DEF Operation
    <3>6. QED
      BY <3>5 DEF all
  <2>12. IsFiniteSet(op'.items)
    BY <1>0, <2>1, <2>10, <2>11, FS_Union DEF FiniteItems
  <2>13. QED
    BY <1>0, <1>5, <2>11, <2>12 DEF ReadFile, outside, written, TypeOK, FiniteItems
<1>14. CASE SkipFile
  <2>1. op \in Operation /\ op # Idle
    BY <1>0, <1>14, Running_ DEF SkipFile, TypeOK
  <2>2. PICK listed \in op.unread :
          LET unread == op.unread \ {listed}
          IN  op' = [op EXCEPT !.unread = unread, !.at = Progress(unread)]
    BY <1>14 DEF SkipFile
  <2> DEFINE unread == op.unread \ {listed}
  <2>3. unread \subseteq Member /\ Progress(unread) \in {"check", "read"}
    BY <2>1 DEF Operation, Progress
  <2> HIDE DEF unread
  <2>4. op' \in Operation /\ op'.items = op.items
    BY <2>1, <2>2, <2>3 DEF Operation, Stages, unread
  <2>5. QED
    BY <1>0, <1>14, <2>1, <2>4 DEF SkipFile, outside, written, TypeOK, FiniteItems
<1>6. CASE CheckSource
  <2>1. op \in Operation /\ op # Idle
    BY <1>0, <1>6, Running_ DEF CheckSource, TypeOK
  <2>2. PICK t \in Times : op' = [op EXCEPT !.rows = RowsOf(op, t),
                                            !.todo = Order(op.adapter), !.at = "append"]
    BY <1>6 DEF CheckSource
  <2>3. RowsOf(op, t) \in Files
    BY <1>0, <2>1, RowsType DEF FiniteItems, TypeOK
  <2>4. Order(op.adapter) \in Seq({"snapshots", "contents", "observations", "receipts"})
    BY OrderType
  <2>5. op' \in Operation /\ op'.items = op.items
    <3> HIDE DEF Files
    <3>1. QED
      BY <2>1, <2>2, <2>3, <2>4 DEF Operation, Stages
  <2>6. QED
    BY <1>0, <1>6, <2>1, <2>5 DEF CheckSource, outside, written, TypeOK, FiniteItems
<1>7. CASE AppendRows
  <2> DEFINE file == Head(op.todo)
             last == Tail(op.todo) = <<>>
             done == last /\ ~ Evidence(op.adapter)
             names == {"snapshots", "contents", "observations", "receipts"}
  <2>1. op \in Operation /\ op # Idle
    BY <1>0, <1>7, Running_ DEF AppendRows, TypeOK
  <2>2. op.rows \in Files /\ op.todo \in Seq(names) /\ op.listed \in Nat
    BY <2>1 DEF Operation
  <2>3. disk' = [disk EXCEPT ![file] = @ \cup op.rows[file]]
    BY <1>7 DEF AppendRows
  <2>4. disk' \in Files
    <3>1. file \notin names => disk' = disk
      BY <1>0, <2>3 DEF TypeOK, Files
    <3>2. CASE file \in names
      BY <1>0, <2>2, <2>3, <3>2 DEF TypeOK, Files
    <3>3. QED
      BY <1>0, <3>1, <3>2 DEF TypeOK
  <2>5. op' = Idle \/ op' = [op EXCEPT !.at = IF last THEN "index" ELSE "append", !.todo = Tail(@)]
    BY <1>7 DEF AppendRows
  <2>6. op.todo # <<>> /\ Tail(op.todo) \in Seq(names)
    BY <1>7, <2>2 DEF AppendRows
  <2>7. op' = Idle \/ (op' \in Operation /\ op' # Idle /\ op'.items = op.items)
    <3> DEFINE stage == IF last THEN "index" ELSE "append"
               rest == Tail(op.todo)
    <3>1. op' # Idle => op' = [op EXCEPT !.at = stage, !.todo = rest]
      BY <2>5
    <3>2. stage \in Stages \ {"idle"} /\ rest \in Seq(names)
      BY <2>6 DEF Stages
    <3> HIDE DEF stage, rest, names
    <3>3. op' # Idle => op' \in Operation /\ op'.items = op.items
      BY <2>1, <3>1, <3>2 DEF Operation, names
    <3>4. QED
      BY <3>3
  <2>8. IdOf(op) \in Id
    BY <2>1, IdOfType
  <2>9. unfinished' \subseteq Id
    <3>1. unfinished' = unfinished \ {IdOf(op)} \/ unfinished' = unfinished \cup {IdOf(op)}
      BY <1>7 DEF AppendRows
    <3>2. QED
      BY <1>0, <2>8, <3>1 DEF TypeOK
  <2>10. Parse \in [id : Id, rows : SUBSET Row, listed : Nat]
    BY <2>2, <2>8 DEF Parse, Files
  <2>11. parses' \subseteq [id : Id, rows : SUBSET Row, listed : Nat]
    <3>1. parses' = parses \cup {Parse}
      BY <1>7 DEF AppendRows
    <3>2. QED
      BY <1>0, <2>10, <3>1 DEF TypeOK
  <2>12. UNCHANGED <<outside, index, edits, faults>>
    BY <1>7 DEF AppendRows
  <2>13. QED
    BY <1>0, <2>1, <2>4, <2>7, <2>9, <2>11, <2>12 DEF TypeOK, FiniteItems, outside
<1>8. CASE Reject
  BY <1>0, <1>8 DEF Reject, outside, written, TypeOK, FiniteItems
<1>9. CASE RebuildIndex
  <2>1. disk.observations \subseteq Row
    BY <1>0 DEF TypeOK, Files
  <2>2. index' \subseteq Row
    BY <1>9, <2>1 DEF RebuildIndex, IndexOf
  <2>3. unfinished' \subseteq Id
    BY <1>0, <1>9 DEF RebuildIndex, TypeOK
  <2>4. QED
    BY <1>0, <1>9, <2>2, <2>3 DEF RebuildIndex, outside, TypeOK, FiniteItems
<1>10. CASE Edit
  <2>1. source' \in Sources
    BY <1>10 DEF Edit
  <2>2. edits' \in 0 .. MaxEdits
    BY <1>0, <1>10, ConstantsAssumption DEF Edit, TypeOK
  <2>3. CASE Reading
    <3>1. op \in Operation /\ op # Idle
      BY <1>0, <2>3 DEF TypeOK, Reading, Idle
    <3>2. op' = [op EXCEPT !.edits = op.edits + 1]
      BY <1>10, <2>3 DEF Edit
    <3>3. op.edits + 1 \in Nat
      BY <3>1 DEF Operation
    <3>4. op' \in Operation /\ op'.items = op.items
      BY <3>1, <3>2, <3>3 DEF Operation
    <3>5. QED
      BY <1>0, <1>10, <2>1, <2>2, <3>1, <3>4 DEF Edit, written, TypeOK, FiniteItems
  <2>4. CASE ~ Reading
    BY <1>0, <1>10, <2>1, <2>2, <2>4 DEF Edit, written, TypeOK, FiniteItems
  <2>5. QED
    BY <2>3, <2>4
<1>11. CASE Commit
  <2>1. head' \in SUBSET Member
    BY <1>0, <1>11, SourceIsSource DEF Commit, Tracked
  <2>2. edits' \in 0 .. MaxEdits
    BY <1>0, <1>11, ConstantsAssumption DEF Commit, TypeOK
  <2>3. CASE Reading
    <3>1. op \in Operation /\ op # Idle
      BY <1>0, <2>3 DEF TypeOK, Reading, Idle
    <3>2. op' = [op EXCEPT !.committed = TRUE]
      BY <1>11, <2>3 DEF Commit
    <3>3. op' \in Operation /\ op'.items = op.items
      BY <3>1, <3>2 DEF Operation
    <3>4. QED
      BY <1>0, <1>11, <2>1, <2>2, <3>1, <3>3 DEF Commit, written, TypeOK, FiniteItems
  <2>4. CASE ~ Reading
    BY <1>0, <1>11, <2>1, <2>2, <2>4 DEF Commit, written, TypeOK, FiniteItems
  <2>5. QED
    BY <2>3, <2>4
<1>12. CASE Crash
  <2>1. index' \in {NoIndex, TornIndex} \cup SUBSET Row
    BY <1>0, <1>12 DEF Crash, TypeOK
  <2>2. faults' \in 0 .. MaxFaults
    BY <1>0, <1>12, ConstantsAssumption DEF Crash, TypeOK
  <2>3. QED
    BY <1>0, <1>12, <2>1, <2>2 DEF Crash, outside, TypeOK, FiniteItems
<1>13. CASE UNCHANGED vars
  BY <1>0, <1>13 DEF vars, TypeOK, FiniteItems
<1>15. QED
  BY <1>1, <1>2, <1>3, <1>4, <1>5, <1>6, <1>7, <1>8, <1>9, <1>10, <1>11, <1>12, <1>13, <1>14
  DEF Next

\* What the importers hold and write is of its kind, whatever is imported,
\* edited, committed or interrupted.
THEOREM ImportTypeCorrect == Spec => []TypeOK
<1>1. TInv => TypeOK
  BY DEF TInv
<1>2. QED
  BY <1>1, TypeInit, TypeNext, PTL DEF Spec

-----------------------------------------------------------------------------
(* What an import staged, and what of it is on the disk.                   *)

FileNames == {"snapshots", "contents", "observations", "receipts"}

\* The files still to be written, the next one first.
Remaining(adapter) ==
  IF Evidence(adapter)
    THEN {<<"snapshots", "contents", "observations", "receipts">>,
          <<"contents", "observations", "receipts">>,
          <<"observations", "receipts">>, <<"receipts">>}
    ELSE {<<"observations", "receipts">>, <<"receipts">>}

\* The files still to be written.
Waiting(todo) == {todo[i] : i \in DOMAIN todo}

\* A file that is not waiting holds its staged rows; the receipt is new, and
\* then no receipt has its id, or it is there already.
Staged ==
  op.at = "append" =>
    /\ op.todo \in Remaining(op.adapter)
    /\ op.rows.observations = {Observation(op, item) : item \in op.items}
    /\ Evidence(op.adapter) => /\ op.rows.snapshots = {SnapshotOf(op)}
                               /\ op.rows.contents = {ContentOf(x) : x \in op.rows.observations}
    /\ ~ Evidence(op.adapter) => op.rows.snapshots = {} /\ op.rows.contents = {}
    /\ \A f \in FileNames \ Waiting(op.todo) : op.rows[f] \subseteq disk[f]
    /\ \E r \in op.rows.receipts :
         /\ op.rows.receipts = {r} /\ r.id = IdOf(op)
         /\ \/ r \in disk.receipts
            \/ /\ Existing(IdOf(op)) = {}
               /\ r.count = CountOf(op, op.rows.observations)

\* No two receipts share an identity.
UniqueReceipts == \A r, q \in disk.receipts : r.id = q.id => r = q

\* The inductive invariant of the written files.
IInv == TypeOK /\ FiniteItems /\ Staged /\ UniqueReceipts /\ ReceiptsBacked /\ EvidenceResolves

\* What of an import its identity and its observations carry.
LEMMA IdOfFields ==
  ASSUME NEW o, NEW item
  PROVE  /\ IdOf(o).adapter = o.adapter
         /\ IdOf(o).snapshot = IF Evidence(o.adapter) THEN SnapshotOf(o) ELSE None
         /\ Observation(o, item).receipt = IdOf(o)
BY DEF IdOf, ReceiptId, Observation

\* What an import stages does not depend on how far it has got.
LEMMA StageIsNotRead ==
  ASSUME NEW o, NEW p,
         p.adapter = o.adapter, p.hash = o.hash, p.head = o.head, p.clean = o.clean,
         p.name = o.name, p.layout = o.layout, p.listed = o.listed
  PROVE  /\ IdOf(p) = IdOf(o) /\ SnapshotOf(p) = SnapshotOf(o)
         /\ \A item : Observation(p, item) = Observation(o, item)
         /\ \A s : CountOf(p, s) = CountOf(o, s)
<1>1. SnapshotOf(p) = SnapshotOf(o)
  BY DEF SnapshotOf
<1>2. IdOf(p) = IdOf(o)
  BY <1>1 DEF IdOf
<1>3. \A item : Observation(p, item) = Observation(o, item)
  BY <1>2 DEF Observation
<1>4. \A s : CountOf(p, s) = CountOf(o, s)
  BY DEF CountOf
<1>5. QED
  BY <1>1, <1>2, <1>3, <1>4

\* The order of the files: the receipts come last, the observations after
\* what they refer to.
LEMMA RemainingSteps ==
  ASSUME NEW a, NEW todo \in Remaining(a), todo # <<"receipts">>
  PROVE  /\ Head(todo) \in FileNames \ {"receipts"}
         /\ Tail(todo) # <<>> /\ Tail(todo) \in Remaining(a)
         /\ Waiting(Tail(todo)) = Waiting(todo) \ {Head(todo)}
         /\ "receipts" \in Waiting(todo)
         /\ Head(todo) = "observations" => {"snapshots", "contents"} \cap Waiting(todo) = {}
<1> DEFINE four == <<"snapshots", "contents", "observations", "receipts">>
           three == <<"contents", "observations", "receipts">>
           two == <<"observations", "receipts">>
           one == <<"receipts">>
<1>1. Head(four) = "snapshots" /\ Head(three) = "contents" /\ Head(two) = "observations"
  OBVIOUS
<1>2. Tail(four) = three /\ Tail(three) = two /\ Tail(two) = one
  OBVIOUS
<1>3. /\ Waiting(four) = FileNames /\ Waiting(three) = FileNames \ {"snapshots"}
      /\ Waiting(two) = {"observations", "receipts"} /\ Waiting(one) = {"receipts"}
  BY DEF Waiting, FileNames
<1>4. three # <<>> /\ two # <<>> /\ one # <<>>
  OBVIOUS
<1>5. /\ Evidence(a) => Remaining(a) = {four, three, two, one}
      /\ ~ Evidence(a) => Remaining(a) = {two, one}
  BY DEF Remaining
<1> HIDE DEF four, three, two, one
<1>6. todo = four \/ todo = three \/ todo = two
  BY <1>5 DEF one
<1>7. CASE todo = four
  BY <1>1, <1>2, <1>3, <1>4, <1>5, <1>7 DEF FileNames
<1>8. CASE todo = three
  BY <1>1, <1>2, <1>3, <1>4, <1>5, <1>8 DEF FileNames
<1>9. CASE todo = two
  BY <1>1, <1>2, <1>3, <1>4, <1>5, <1>9 DEF FileNames
<1>10. QED
  BY <1>6, <1>7, <1>8, <1>9

\* At first every file remains, except what an adapter without evidence never writes.
LEMMA OrderRemains ==
  ASSUME NEW a
  PROVE  Order(a) \in Remaining(a) /\ FileNames \ Waiting(Order(a)) \subseteq {"snapshots", "contents"}
         /\ (Evidence(a) => Waiting(Order(a)) = FileNames)
BY DEF Order, Remaining, Waiting, FileNames

\* A step that writes no file and stages nothing.
LEMMA QuietStep ==
  ASSUME IInv, disk' = disk, parses' = parses, op'.at # "append"
  PROVE  Staged' /\ UniqueReceipts' /\ ReceiptsBacked' /\ EvidenceResolves'
BY DEF IInv, Staged, UniqueReceipts, ReceiptsBacked, EvidenceResolves, IndexOf

\* The last check of the source stages the rows.
LEMMA StagedByCheck ==
  ASSUME IInv, CheckSource
  PROVE  Staged' /\ UniqueReceipts' /\ ReceiptsBacked' /\ EvidenceResolves'
<1>1. op \in Operation
  BY Running_ DEF CheckSource, IInv, TypeOK
<1>2. PICK t \in Times : op' = [op EXCEPT !.rows = RowsOf(op, t),
                                          !.todo = Order(op.adapter), !.at = "append"]
  BY DEF CheckSource
<1>3. disk' = disk /\ parses' = parses
  BY DEF CheckSource, written
<1> DEFINE rows == RowsOf(op, t)
           todo == Order(op.adapter)
<1>4. /\ op'.adapter = op.adapter /\ op'.items = op.items /\ op'.hash = op.hash
      /\ op'.head = op.head /\ op'.clean = op.clean /\ op'.name = op.name
      /\ op'.layout = op.layout /\ op'.listed = op.listed
      /\ op'.rows = rows /\ op'.at = "append" /\ op'.todo = todo
  BY <1>1, <1>2 DEF Operation
<1> HIDE DEF todo
<1>5. /\ IdOf(op') = IdOf(op) /\ SnapshotOf(op') = SnapshotOf(op)
      /\ \A item : Observation(op', item) = Observation(op, item)
      /\ \A s : CountOf(op', s) = CountOf(op, s)
  BY <1>4, StageIsNotRead
<1>6. /\ rows.observations = {Observation(op, item) : item \in op.items}
      /\ rows.snapshots = IF Evidence(op.adapter) THEN {SnapshotOf(op)} ELSE {}
      /\ rows.contents = IF Evidence(op.adapter) THEN {ContentOf(x) : x \in rows.observations} ELSE {}
  BY DEF RowsOf
<1>7. rows.receipts = IF Existing(IdOf(op)) = {} THEN {NewReceipt(op, rows.observations, t)}
                       ELSE Existing(IdOf(op))
  BY DEF RowsOf
<1> HIDE DEF rows
<1>8. \E r \in rows.receipts :
         /\ rows.receipts = {r} /\ r.id = IdOf(op)
         /\ \/ r \in disk.receipts
            \/ /\ Existing(IdOf(op)) = {}
               /\ r.count = CountOf(op, rows.observations)
  <2>1. CASE Existing(IdOf(op)) = {}
    BY <1>7, <2>1 DEF NewReceipt
  <2>2. CASE Existing(IdOf(op)) # {}
    <3>1. PICK r : r \in Existing(IdOf(op))
      BY <2>2
    <3>2. \A q \in Existing(IdOf(op)) : q = r
      BY <3>1 DEF Existing, IInv, UniqueReceipts
    <3>3. QED
      BY <1>7, <2>2, <3>1, <3>2 DEF Existing
  <2>3. QED
    BY <2>1, <2>2
<1>9. todo \in Remaining(op.adapter)
       /\ \A f \in FileNames \ Waiting(todo) : rows[f] \subseteq disk[f]
  <2>1. CASE Evidence(op.adapter)
    BY <2>1, OrderRemains DEF todo
  <2>2. CASE ~ Evidence(op.adapter)
    <3>1. \A f \in FileNames \ Waiting(todo) : f = "snapshots" \/ f = "contents"
      BY OrderRemains DEF todo
    <3>2. rows["snapshots"] = {} /\ rows["contents"] = {}
      BY <1>6, <2>2
    <3>3. QED
      BY <3>1, <3>2, OrderRemains DEF todo
  <2>3. QED
    BY <2>1, <2>2
<1>10. Existing(IdOf(op))' = Existing(IdOf(op))
  BY <1>3, <1>5 DEF Existing
<1>11. Staged'
  BY <1>3, <1>4, <1>5, <1>6, <1>8, <1>9, <1>10 DEF Staged
<1>12. QED
  BY <1>3, <1>11 DEF IInv, UniqueReceipts, ReceiptsBacked, EvidenceResolves, IndexOf

\* Writing one file keeps the files that refer to each other together.
LEMMA StagedByAppend ==
  ASSUME IInv, AppendRows
  PROVE  Staged' /\ UniqueReceipts' /\ ReceiptsBacked' /\ EvidenceResolves'
<1> DEFINE file == Head(op.todo)
           last == Tail(op.todo) = <<>>
           obs == op.rows.observations
<1>1. op \in Operation /\ disk \in Files /\ op.rows \in Files
  <2>1. op \in Operation
    BY Running_ DEF AppendRows, IInv, TypeOK
  <2>2. QED
    BY <2>1 DEF IInv, TypeOK, Operation
<1>2. /\ op.todo \in Remaining(op.adapter)
      /\ obs = {Observation(op, item) : item \in op.items}
      /\ Evidence(op.adapter) => /\ op.rows.snapshots = {SnapshotOf(op)}
                                 /\ op.rows.contents = {ContentOf(x) : x \in obs}
      /\ ~ Evidence(op.adapter) => op.rows.snapshots = {} /\ op.rows.contents = {}
      /\ \A f \in FileNames \ Waiting(op.todo) : op.rows[f] \subseteq disk[f]
  BY DEF IInv, Staged, AppendRows
<1>3. PICK r \in op.rows.receipts :
        /\ op.rows.receipts = {r} /\ r.id = IdOf(op)
        /\ \/ r \in disk.receipts
           \/ Existing(IdOf(op)) = {} /\ r.count = CountOf(op, obs)
  BY DEF IInv, Staged, AppendRows
<1>4. disk' = [disk EXCEPT ![file] = @ \cup op.rows[file]] /\ parses' = parses \cup {Parse}
  BY DEF AppendRows
<1>5. \A f \in FileNames : disk[f] \subseteq disk'[f]
  BY <1>1, <1>4 DEF Files, FileNames
<1>6. CASE op.todo # <<"receipts">>
  <2>1. /\ file \in FileNames \ {"receipts"} /\ ~ last /\ Tail(op.todo) \in Remaining(op.adapter)
        /\ Waiting(Tail(op.todo)) = Waiting(op.todo) \ {file}
        /\ file = "observations" => {"snapshots", "contents"} \cap Waiting(op.todo) = {}
    BY <1>2, <1>6, RemainingSteps
  <2>2. op' = [op EXCEPT !.at = "append", !.todo = Tail(@)]
    BY <2>1 DEF AppendRows
  <2>3. /\ op'.adapter = op.adapter /\ op'.items = op.items /\ op'.hash = op.hash
        /\ op'.head = op.head /\ op'.clean = op.clean /\ op'.name = op.name
        /\ op'.layout = op.layout /\ op'.listed = op.listed
        /\ op'.rows = op.rows /\ op'.at = "append" /\ op'.todo = Tail(op.todo)
    BY <1>1, <2>2 DEF Operation
  <2>4. /\ IdOf(op') = IdOf(op) /\ SnapshotOf(op') = SnapshotOf(op)
        /\ \A item : Observation(op', item) = Observation(op, item)
        /\ \A s : CountOf(op', s) = CountOf(op, s)
    BY <2>3, StageIsNotRead
  <2>5. disk'.receipts = disk.receipts
    BY <1>1, <1>4, <2>1 DEF Files
  <2>6. disk'[file] = disk[file] \cup op.rows[file]
    BY <1>1, <1>4, <2>1 DEF Files, FileNames
  <2>7. \A f \in FileNames \ {file} : disk'[f] = disk[f]
    BY <1>1, <1>4 DEF Files, FileNames
  <2> HIDE DEF file, last
  <2>8. Existing(IdOf(op))' = Existing(IdOf(op))
    BY <2>4, <2>5 DEF Existing
  <2>9. Staged'
    <3>1. \A f \in FileNames \ Waiting(op'.todo) : op'.rows[f] \subseteq disk'[f]
      BY <1>2, <1>5, <2>1, <2>3, <2>6
    <3>2. \E q \in op'.rows.receipts :
            /\ op'.rows.receipts = {q} /\ q.id = IdOf(op')
            /\ \/ q \in disk'.receipts
               \/ /\ Existing(IdOf(op))' = {}
                  /\ q.count = CountOf(op', op'.rows.observations)
      BY <1>3, <2>3, <2>4, <2>5, <2>8
    <3>3. /\ op'.rows.observations = {Observation(op', item) : item \in op'.items}
          /\ Evidence(op'.adapter) => /\ op'.rows.snapshots = {SnapshotOf(op')}
                                      /\ op'.rows.contents = {ContentOf(x) : x \in op'.rows.observations}
          /\ ~ Evidence(op'.adapter) => op'.rows.snapshots = {} /\ op'.rows.contents = {}
      BY <1>2, <2>3, <2>4
    <3>4. QED
      BY <2>1, <2>3, <3>1, <3>2, <3>3 DEF Staged
  <2>10. UniqueReceipts'
    BY <2>5 DEF IInv, UniqueReceipts
  <2>11. disk.observations \subseteq disk'.observations
    BY <1>5 DEF FileNames
  <2>12. ReceiptsBacked'
    BY <1>4, <2>5, <2>11 DEF IInv, ReceiptsBacked
  <2>13. disk.contents \subseteq disk'.contents /\ disk.snapshots \subseteq disk'.snapshots
    BY <1>5 DEF FileNames
  <2>14. EvidenceResolves'
    <3> SUFFICES ASSUME NEW x \in disk'.observations, Evidence(x.receipt.adapter)
                 PROVE  ContentOf(x) \in disk'.contents /\ x.receipt.snapshot \in disk'.snapshots
      BY DEF EvidenceResolves, IndexOf
    <3>1. CASE x \in disk.observations
      BY <2>13, <3>1 DEF IInv, EvidenceResolves, IndexOf
    <3>2. CASE x \notin disk.observations
      <4>1. file = "observations" /\ x \in obs
        BY <2>6, <2>7, <3>2 DEF FileNames
      <4>2. op.rows["snapshots"] \subseteq disk["snapshots"] /\ op.rows["contents"] \subseteq disk["contents"]
        BY <1>2, <2>1, <4>1 DEF FileNames
      <4>3. x.receipt = IdOf(op)
        BY <1>2, <4>1, IdOfFields
      <4>4. Evidence(op.adapter) /\ x.receipt.snapshot = SnapshotOf(op)
        BY <4>3, IdOfFields
      <4>5. QED
        BY <1>2, <2>13, <4>1, <4>2, <4>4
    <3>3. QED
      BY <3>1, <3>2
  <2>15. QED
    BY <2>9, <2>10, <2>12, <2>14
<1>7. CASE op.todo = <<"receipts">>
  <2>1. file = "receipts" /\ last /\ Waiting(op.todo) = {"receipts"}
    BY <1>7 DEF Waiting
  <2>2. op'.at # "append"
    <3>1. op' = Idle \/ op' = [op EXCEPT !.at = "index", !.todo = Tail(@)]
      BY <2>1 DEF AppendRows
    <3>2. op' # Idle => op'.at = "index"
      BY <1>1, <3>1 DEF Operation
    <3>3. QED
      BY <3>2 DEF Idle
  <2>3. disk'.receipts = disk.receipts \cup {r} /\ disk'.observations = disk.observations
        /\ disk'.contents = disk.contents /\ disk'.snapshots = disk.snapshots
    BY <1>1, <1>3, <1>4, <2>1 DEF Files
  <2>4. obs \subseteq disk.observations
    BY <1>2, <2>1 DEF FileNames
  <2>5. UniqueReceipts'
    BY <1>3, <2>3 DEF IInv, UniqueReceipts, Existing
  <2>6. EvidenceResolves'
    BY <2>3 DEF IInv, EvidenceResolves, IndexOf
  <2>7. ReceiptsBacked'
    <3> SUFFICES ASSUME NEW q \in disk'.receipts
                 PROVE  \E p \in parses' :
                          /\ p.id = q.id /\ p.rows \subseteq disk'.observations
                          /\ q.count = IF Core(q.id.adapter) THEN p.listed ELSE Cardinality(p.rows)
      BY DEF ReceiptsBacked
    <3>1. CASE q \in disk.receipts
      BY <1>4, <2>3, <3>1 DEF IInv, ReceiptsBacked
    <3>2. CASE q \notin disk.receipts
      <4>1. q = r /\ q.count = CountOf(op, obs)
        BY <1>3, <2>3, <3>2
      <4>2. q.id.adapter = op.adapter
        BY <1>3, <4>1, IdOfFields
      <4>3. Parse \in parses' /\ Parse.id = q.id /\ Parse.rows = obs /\ Parse.listed = op.listed
        BY <1>3, <1>4, <4>1 DEF Parse
      <4>4. q.count = IF Core(q.id.adapter) THEN op.listed ELSE Cardinality(obs)
        BY <4>1, <4>2 DEF CountOf
      <4>5. QED
        BY <2>3, <2>4, <4>3, <4>4
    <3>3. QED
      BY <3>1, <3>2
  <2>8. QED
    BY <2>2, <2>5, <2>6, <2>7 DEF Staged
<1>8. QED
  BY <1>6, <1>7

\* It holds initially.
LEMMA InvariantInit == Init => IInv
<1> SUFFICES ASSUME Init PROVE IInv
  OBVIOUS
<1>1. TypeOK /\ FiniteItems
  BY TypeInit DEF TInv
<1>2. QED
  BY <1>1 DEF Init, IInv, Idle, NoRows, Staged, UniqueReceipts, ReceiptsBacked, EvidenceResolves, IndexOf

\* Every step keeps it.
LEMMA InvariantNext == IInv /\ [Next]_vars => IInv'
<1> SUFFICES ASSUME IInv, [Next]_vars PROVE IInv'
  OBVIOUS
<1>0. TypeOK' /\ FiniteItems'
  BY TypeNext DEF TInv, IInv
<1>1. TypeOK /\ (op = Idle \/ op \in Operation)
  BY DEF IInv, TypeOK
<1>2. ASSUME NEW a \in Adapters, NEW k \in ChunkSizes, NEW l \in Limits, Begin(a, k, l)
      PROVE  IInv'
  <2>1. disk' = disk /\ parses' = parses /\ op'.at # "append"
    BY <1>2 DEF Begin, written, Running
  <2>2. QED
    BY <1>0, <2>1, QuietStep DEF IInv
<1>3. CASE ReadHead \/ ReadStatus \/ List \/ ReadFile \/ SkipFile
  <2>1. disk' = disk /\ parses' = parses
    BY <1>3 DEF ReadHead, ReadStatus, List, ReadFile, SkipFile, written
  <2>2. op \in Operation
    BY <1>1, <1>3, Running_ DEF ReadHead, ReadStatus, List, ReadFile, SkipFile
  <2>3. op'.at # "append"
    <3>1. CASE ReadHead
      BY <2>2, <3>1 DEF ReadHead, Operation
    <3>2. CASE ReadStatus
      BY <2>2, <3>2 DEF ReadStatus, Operation
    <3>3. CASE List
      BY <2>2, <3>3 DEF List, Operation, Progress
    <3>4. CASE ReadFile
      BY <2>2, <3>4 DEF ReadFile, Operation, Progress
    <3>5. CASE SkipFile
      BY <2>2, <3>5 DEF SkipFile, Operation, Progress
    <3>6. QED
      BY <1>3, <3>1, <3>2, <3>3, <3>4, <3>5
  <2>4. QED
    BY <1>0, <2>1, <2>3, QuietStep DEF IInv
<1>4. CASE CheckSource
  BY <1>0, <1>4, StagedByCheck DEF IInv
<1>5. CASE AppendRows
  BY <1>0, <1>5, StagedByAppend DEF IInv
<1>6. CASE Reject \/ RebuildIndex \/ Crash
  <2>1. disk' = disk /\ parses' = parses /\ op'.at # "append"
    BY <1>6 DEF Reject, RebuildIndex, Crash, written, Idle
  <2>2. QED
    BY <1>0, <2>1, QuietStep DEF IInv
<1>7. CASE Edit \/ Commit
  <2>1. disk' = disk /\ parses' = parses
    BY <1>7 DEF Edit, Commit, written
  <2>2. CASE Reading
    <3>1. op \in Operation
      BY <1>1, <2>2 DEF Reading, Idle
    <3>2. op'.at = op.at
      BY <1>7, <2>2, <3>1 DEF Edit, Commit, Operation
    <3>3. op'.at # "append"
      BY <2>2, <3>2 DEF Reading
    <3>4. QED
      BY <1>0, <2>1, <3>3, QuietStep DEF IInv
  <2>3. CASE ~ Reading
    <3>1. op' = op
      BY <1>7, <2>3 DEF Edit, Commit
    <3>2. QED
      BY <1>0, <2>1, <3>1
      DEF IInv, Staged, UniqueReceipts, ReceiptsBacked, EvidenceResolves, IndexOf, Existing
  <2>4. QED
    BY <2>2, <2>3
<1>8. CASE UNCHANGED vars
  BY <1>0, <1>8 DEF vars, IInv, Staged, UniqueReceipts, ReceiptsBacked, EvidenceResolves, IndexOf, Existing
<1>9. QED
  BY <1>2, <1>3, <1>4, <1>5, <1>6, <1>7, <1>8 DEF Next

\* So it always holds.
LEMMA Invariance == Spec => []IInv
BY InvariantInit, InvariantNext, PTL DEF Spec

\* Every receipt is backed by a whole parse: the rows it counts are there,
\* whenever the import died.
THEOREM ImportReceiptsBacked == Spec => []ReceiptsBacked
<1>1. IInv => ReceiptsBacked
  BY DEF IInv
<1>2. QED
  BY <1>1, Invariance, PTL

\* No evidence observation refers to content or to a snapshot that is not
\* there, at any step of any import.
THEOREM ImportEvidenceResolves == Spec => []EvidenceResolves
<1>1. IInv => EvidenceResolves
  BY DEF IInv
<1>2. QED
  BY <1>1, Invariance, PTL

\* Repeating an import, finished or not, is never refused.
THEOREM ImportRepetitionAccepted == Spec => []RepetitionAccepted
<1>1. IInv => RepetitionAccepted
  BY DEF IInv, Staged, UniqueReceipts, RepetitionAccepted, Collides, Existing
<1>2. QED
  BY <1>1, Invariance, PTL

-----------------------------------------------------------------------------
(* What an import has read.  The source may change while it is read, and   *)
(* the second hash only says what it is at the end: of a source that        *)
(* changed once, the invariant keeps apart what was read before and after.  *)

\* The files of a source with the given hash, under their names.
FilesOf(o, hash) ==
  IF o.layout # "file" THEN hash.members
  ELSE {[m EXCEPT !.path = p] : m \in hash.members, p \in Paths}

\* The source as it was hashed or, once it has changed, as it is now.
MayRead(o) ==
  FilesOf(o, o.hash) \cup (IF o.edits = 0 THEN {} ELSE FilesOf(o, Identity(source)))

\* The paths of some members.
PathsOf(members) == {m.path : m \in members}

\* The paths an import is answerable for: those of the commit it claims, or all.
Scope(o) == IF o.clean THEN PathsOf(o.head) ELSE Paths

\* The import began with a source of its layout, its hash and its name.
Origin ==
  /\ \E s \in Sources : s.layout = op.layout /\ Identity(s) = op.hash
  /\ Reading /\ op.edits = 0 => Identity(source) = op.hash /\ source.name = op.name

\* What git said is so while nobody commits, of the source before or after a change.
GitSaid ==
  /\ op.clean => op.layout = "tree"
  /\ op.at \in {"git-head", "git-status"} => op.layout = "tree" /\ ~ op.clean
  /\ op.at \in {"git-head", "git-status", "list"} => op.items = {} /\ op.unread = {}
  /\ op.at = "git-status" /\ ~ op.committed => op.head = head
  /\ Reading /\ op.clean /\ ~ op.committed => op.head = head
  /\ Reading /\ op.clean /\ ~ op.committed /\ op.edits < 2 =>
       \/ Tracked(op.hash) = op.head
       \/ op.edits = 1 /\ (source.layout = "tree" => Tracked(source) = op.head)

\* A file the import has listed, or read.
Seeable(m) ==
  m \in MayRead(op) /\ (op.clean /\ ~ op.committed => m.path \in PathsOf(op.head))

\* What was collected comes from members the import could see.
Traced ==
  Reading /\ op.edits < 2 =>
    /\ \A m \in op.unread : Seeable(m)
    /\ \A item \in op.items : \E m \in MayRead(op) : Seeable(m) /\ item \in ItemsIn(m, op)

\* All items of the member are collected.
Taken(m) == ItemsIn(m, op) \subseteq op.items

\* A listed file was replaced or is gone, and what replaced it has been read.
Reread(m) ==
  op.edits = 1 /\ op.layout = "tree" /\
    (Present => \A y \in source.members : y.path = m.path /\ y.kind \in SelectedKinds(op.adapter) => Taken(y))

\* Every file there was to look at, when it was listed, is still to be read or read.
Covered ==
  op.at \in {"read", "check"} /\ op.edits < 2 /\ ~ op.committed /\ ~ op.warned
  /\ op.layout # "file" =>
    \/ \A m \in Selected(op.adapter, op.hash, Scope(op)) :
         m \in op.unread \/ Taken(m) \/ Reread(m)
    \/ /\ op.edits = 1 /\ Present
       /\ \A m \in Selected(op.adapter, source, Scope(op)) : m \in op.unread \/ Taken(m)

\* An import still reading has something unread; one that checks has nothing.
Finished == (op.at = "read" => op.unread # {}) /\ (op.at = "check" => op.unread = {})

\* The inductive invariant of the reading.
ReadInv ==
  /\ op # Idle => Origin /\ GitSaid /\ Traced /\ Covered /\ Finished
  /\ RowsOfTheSource /\ ExactIsComplete /\ CleanUnlessCommitted

-----------------------------------------------------------------------------
(* The invariant of the reading steps is inductive.                        *)

\* The hash of a tree or an archive holds its files as they are, and the hash of
\* a file its contents.
LEMMA IdentityKeeps ==
  ASSUME NEW s \in Source, NEW o, o.layout = s.layout
  PROVE  /\ Identity(s).layout = s.layout
         /\ s.layout # "file" => Identity(s).members = s.members
         /\ s.members \subseteq FilesOf(o, Identity(s))
<1>1. Identity(s).layout = s.layout
  BY DEF Identity
<1>2. s.layout # "file" => Identity(s).members = s.members
  BY DEF Identity
<1>3. ASSUME NEW m \in s.members, s.layout = "file"
      PROVE  m \in FilesOf(o, Identity(s))
  <2>1. m \in Member /\ m.path \in Paths
    BY DEF Source, Member
  <2> DEFINE hashed == [m EXCEPT !.path = None]
             files == Identity(s).members
  <2>2. hashed \in files
    BY <1>3 DEF Identity
  <2>3. m = [hashed EXCEPT !.path = m.path]
    BY <2>1 DEF Member
  <2>4. FilesOf(o, Identity(s)) = {[n EXCEPT !.path = p] : n \in files, p \in Paths}
    BY <1>3 DEF FilesOf
  <2> HIDE DEF hashed, files
  <2>5. QED
    BY <2>1, <2>2, <2>3, <2>4
<1>4. QED
  BY <1>1, <1>2, <1>3 DEF FilesOf

\* What is selected is among the files, of a kind that is looked at and in scope.
LEMMA SelectedIsSeen ==
  ASSUME NEW a, NEW s, NEW tracked
  PROVE  Selected(a, s, tracked) \subseteq Seen(a, s, tracked)
<1> DEFINE seen == Seen(a, s, tracked)
           chats == Conversations(seen)
<1>1. chats \subseteq seen /\ UnderDrive(seen) \subseteq seen
  BY DEF Conversations, UnderDrive
<1>2. chats # {} => (CHOOSE m \in chats : TRUE) \in seen
  BY <1>1
<1>3. QED
  BY <1>1, <1>2 DEF Selected

\* The selection depends on the files and the layout alone.
LEMMA SameSelection ==
  ASSUME NEW a, NEW s, NEW t, NEW tracked, s.members = t.members, s.layout = t.layout
  PROVE  Selected(a, s, tracked) = Selected(a, t, tracked)
<1>1. Seen(a, s, tracked) = Seen(a, t, tracked)
  BY DEF Seen
<1>2. QED
  BY <1>1 DEF Selected

\* Two states of an import with the same adapter, layout and chunk size make the
\* same of a file.
LEMMA SameItems ==
  ASSUME NEW o, NEW p, p.adapter = o.adapter, p.layout = o.layout, p.size = o.size
  PROVE  /\ \A m : ItemsIn(m, p) = ItemsIn(m, o)
         /\ \A hash : FilesOf(p, hash) = FilesOf(o, hash)
BY DEF ItemsIn, FilesOf

\* While the source has not changed it is what was hashed.
LEMMA StillSource ==
  ASSUME TypeOK, op # Idle, Origin, Reading, op.edits = 0
  PROVE  /\ source.layout = op.layout /\ op.hash = Identity(source)
         /\ op.layout # "file" => op.hash.members = source.members
         /\ source.members \subseteq FilesOf(op, op.hash)
<1>1. source \in Source
  BY SourceIsSource
<1>2. Identity(source) = op.hash /\ op.layout = op.hash.layout
  BY DEF Origin, Identity
<1>3. source.layout = op.layout
  BY <1>2 DEF Identity
<1>4. QED
  BY <1>1, <1>2, <1>3, IdentityKeeps

\* The fields of an import that began, and those that ReadHead, ReadStatus and
\* the changes from outside leave alone.
LEMMA OperationFields ==
  ASSUME NEW o \in Operation
  PROVE  o.edits \in Nat /\ o.committed \in BOOLEAN /\ o.clean \in BOOLEAN
         /\ o.warned \in BOOLEAN /\ o.at # "idle"
BY DEF Operation

\* An import begins.
LEMMA BeginReads ==
  ASSUME TypeOK, ReadInv, NEW a \in Adapters, NEW k, NEW l, Begin(a, k, l)
  PROVE  ReadInv'
<1> DEFINE stage == IF a = "evidence:repo" THEN "git-head" ELSE "list"
<1>1. op' = Running(stage, a, k, l, source) /\ source' = source /\ Accepts(a, source.layout)
  BY DEF Begin, outside
<1>2. /\ op'.at = stage /\ op'.layout = source.layout /\ op'.hash = Identity(source) /\ op'.name = source.name
      /\ op'.clean = FALSE /\ op'.items = {} /\ op'.unread = {}
      /\ op'.edits = 0 /\ op'.committed = FALSE /\ op'.warned = FALSE
  <2> HIDE DEF stage
  <2>1. QED
    BY <1>1 DEF Running
<1>3. stage \in {"git-head", "list"} /\ (stage = "git-head" => source.layout = "tree")
  <2>1. stage = "git-head" => a = "evidence:repo"
    OBVIOUS
  <2>2. "evidence:repo" \notin {"repo", "evidence:drive-export"}
    OBVIOUS
  <2>3. Accepts("evidence:repo", source.layout) => source.layout = "tree"
    BY <2>2 DEF Accepts
  <2>4. QED
    BY <1>1, <2>1, <2>3
<1> HIDE DEF stage
<1>4. Origin'
  BY <1>1, <1>2 DEF Origin, TypeOK
<1>5. GitSaid' /\ Finished'
  BY <1>2, <1>3 DEF GitSaid, Finished
<1>6. Traced' /\ Covered'
  BY <1>2, <1>3 DEF Traced, Covered
<1>7. RowsOfTheSource' /\ ExactIsComplete' /\ CleanUnlessCommitted'
  BY <1>2, <1>3 DEF RowsOfTheSource, ExactIsComplete, CleanUnlessCommitted, Undisturbed
<1>8. QED
  BY <1>4, <1>5, <1>6, <1>7 DEF ReadInv

\* git is asked for HEAD and for the status of the worktree.
LEMMA GitReads ==
  ASSUME TypeOK, ReadInv, ReadHead \/ ReadStatus
  PROVE  ReadInv'
<1>1. op \in Operation /\ op # Idle
  BY Running_ DEF ReadHead, ReadStatus, TypeOK
<1>2. source' = source /\ head' = head
  BY DEF ReadHead, ReadStatus, outside
<1>3. Reading /\ op.at \in {"git-head", "git-status"}
  BY DEF ReadHead, ReadStatus, Reading
<1>4. /\ op'.at \in {"git-status", "list"}
      /\ op'.adapter = op.adapter /\ op'.layout = op.layout /\ op'.size = op.size
      /\ op'.hash = op.hash /\ op'.name = op.name /\ op'.items = op.items /\ op'.unread = op.unread
      /\ op'.edits = op.edits /\ op'.committed = op.committed /\ op'.warned = op.warned
  <2>1. CASE ReadHead
    BY <1>1, <2>1 DEF ReadHead, Operation
  <2>2. CASE ReadStatus
    BY <1>1, <2>2 DEF ReadStatus, Operation
  <2>3. QED
    BY <2>1, <2>2
<1>5. Origin /\ GitSaid /\ op.items = {} /\ op.unread = {} /\ op.layout = "tree"
  BY <1>1, <1>3 DEF ReadInv, GitSaid
<1>6. Origin'
  BY <1>2, <1>3, <1>4, <1>5 DEF Origin
<1>7. GitSaid'
  <2>1. CASE ReadHead
    <3>1. op'.head = head /\ op'.clean = op.clean /\ op.at = "git-head" /\ ~ op.clean
      BY <1>1, <1>5, <2>1 DEF ReadHead, Operation, GitSaid
    <3>2. QED
      BY <1>2, <1>4, <1>5, <3>1 DEF GitSaid
  <2>2. CASE ReadStatus
    <3>1. /\ op'.head = op.head /\ op'.clean = Clean(source, head)
          /\ op'.at = "list" /\ op.at = "git-status"
      BY <1>1, <2>2 DEF ReadStatus, Operation
    <3>2. ~ op.committed => op.head = head
      BY <1>5, <3>1 DEF GitSaid
    <3>3. ASSUME op'.clean, ~ op.committed, op.edits < 2
          PROVE  \/ Tracked(op.hash) = op.head
                 \/ op.edits = 1 /\ (source.layout = "tree" => Tracked(source) = op.head)
      <4>1. Tracked(source) = op.head
        BY <3>1, <3>2, <3>3 DEF Clean
      <4>2. op.edits = 0 => op.hash.members = source.members
        BY <1>1, <1>3, <1>5, StillSource
      <4>3. op.edits \in Nat
        BY <1>1, OperationFields
      <4>4. QED
        BY <3>3, <4>1, <4>2, <4>3 DEF Tracked
    <3>4. QED
      BY <1>2, <1>4, <1>5, <3>1, <3>2, <3>3 DEF GitSaid
  <2>3. QED
    BY <2>1, <2>2
<1>8. Traced' /\ Covered' /\ Finished'
  BY <1>4, <1>5 DEF Traced, Covered, Finished
<1>9. RowsOfTheSource' /\ ExactIsComplete' /\ CleanUnlessCommitted'
  BY <1>4 DEF RowsOfTheSource, ExactIsComplete, CleanUnlessCommitted, Undisturbed
<1>10. QED
  BY <1>6, <1>7, <1>8, <1>9 DEF ReadInv

\* What is at the source may be read.
LEMMA SourceMayBeRead ==
  ASSUME TypeOK, op # Idle, Origin, Reading, source.layout = op.layout
  PROVE  source.members \subseteq MayRead(op)
<1>1. source.members \subseteq FilesOf(op, Identity(source))
  BY SourceIsSource, IdentityKeeps
<1>2. op.edits = 0 => source.members \subseteq FilesOf(op, op.hash)
  BY StillSource
<1>3. Hashed(op) = FilesOf(op, op.hash)
  BY DEF Hashed, FilesOf
<1>4. QED
  BY <1>1, <1>2, <1>3 DEF MayRead

\* A clean checkout is searched for the files of the commit git named.
LEMMA TrackedIsScope ==
  ASSUME GitSaid, Reading, ~ op.committed
  PROVE  TrackedPaths = Scope(op)
BY DEF GitSaid, TrackedPaths, Scope, PathsOf

\* The source is searched for the files to read.
LEMMA ListReads ==
  ASSUME TypeOK, ReadInv, List
  PROVE  ReadInv'
<1> DEFINE found == Selected(op.adapter, source, TrackedPaths)
<1>1. op \in Operation /\ op # Idle
  BY Running_ DEF List, TypeOK
<1>2. /\ source' = source /\ head' = head /\ op.at = "list" /\ Reading
      /\ source.layout = op.layout /\ source.name = op.name
  BY DEF List, outside, Reading, Present
<1>3. op' = [op EXCEPT !.unread = found, !.at = Progress(found),
                       !.warned = NoDriveRoot(op.adapter, source)]
  BY DEF List
<1> HIDE DEF found
<1>4. /\ op'.at = Progress(found) /\ op'.unread = found
      /\ op'.adapter = op.adapter /\ op'.layout = op.layout /\ op'.size = op.size
      /\ op'.hash = op.hash /\ op'.name = op.name /\ op'.items = op.items /\ op'.clean = op.clean
      /\ op'.head = op.head /\ op'.edits = op.edits /\ op'.committed = op.committed
  BY <1>1, <1>3 DEF Operation
<1>5. Origin /\ GitSaid /\ op.items = {} /\ op.edits \in Nat
  BY <1>1, <1>2, OperationFields DEF ReadInv, GitSaid
<1>6. Progress(found) \in {"read", "check"} /\ Finished'
  BY <1>4 DEF Progress, Finished
<1>7. Origin' /\ GitSaid'
  BY <1>2, <1>4, <1>5, <1>6 DEF Origin, GitSaid, Reading
<1>8. found \subseteq source.members /\ \A m \in found : m.path \in TrackedPaths
  BY SelectedIsSeen DEF found, Seen
<1>9. MayRead(op)' = MayRead(op)
  BY <1>2, <1>4 DEF MayRead, Hashed, FilesOf
<1>10. Traced'
  <2>1. \A m \in found : m \in MayRead(op)
    BY <1>1, <1>2, <1>5, <1>8, SourceMayBeRead
  <2>2. op.clean /\ ~ op.committed => \A m \in found : m.path \in PathsOf(op.head)
    BY <1>2, <1>5, <1>8, TrackedIsScope DEF Scope
  <2>3. QED
    BY <1>4, <1>5, <1>9, <2>1, <2>2 DEF Traced, Seeable
<1>11. Covered'
  <2> SUFFICES ASSUME op.edits < 2, ~ op.committed, op.layout # "file"
               PROVE  \/ \A m \in Selected(op'.adapter, op'.hash, Scope(op')) : m \in op'.unread
                      \/ /\ op'.edits = 1 /\ Present'
                         /\ \A m \in Selected(op'.adapter, source', Scope(op')) : m \in op'.unread
    BY <1>4 DEF Covered
  <2>1. Scope(op') = Scope(op) /\ Scope(op) = TrackedPaths
    BY <1>2, <1>4, <1>5, TrackedIsScope DEF Scope
  <2>2. CASE op.edits = 0
    <3>1. op.hash.members = source.members /\ op.hash.layout = source.layout
      BY <1>1, <1>2, <1>5, <2>2, StillSource DEF Identity
    <3>2. Selected(op.adapter, op.hash, TrackedPaths) = found
      BY <3>1, SameSelection DEF found
    <3>3. QED
      BY <1>4, <2>1, <3>2
  <2>3. CASE op.edits = 1
    BY <1>2, <1>4, <2>1, <2>3 DEF found, Present
  <2>4. QED
    BY <1>5, <2>2, <2>3
<1>12. RowsOfTheSource' /\ ExactIsComplete' /\ CleanUnlessCommitted'
  BY <1>4, <1>6 DEF RowsOfTheSource, ExactIsComplete, CleanUnlessCommitted, Undisturbed
<1>13. QED
  BY <1>6, <1>7, <1>10, <1>11, <1>12 DEF ReadInv

\* A path of a directory names one file.
LEMMA OnePerPath ==
  ASSUME TypeOK, source.layout = "tree", NEW m \in source.members, NEW n \in source.members,
         m.path = n.path
  PROVE  m = n
BY ConstantsAssumption DEF TypeOK

\* What is read of a listed file, when nothing is said of it, is all of it.
LEMMA AllOrWarned ==
  ASSUME NEW a, NEW m, NEW layout, NEW most, m.kind \in SelectedKinds(a),
         ~ WarnsOf(a, m, layout, most)
  PROVE  Parsed(a, m, layout, most)
<1>1. m.kind # "binary" /\ ~ Oversized(m, layout, most)
  BY DEF WarnsOf
<1>2. m.kind \in ParsedKinds(a)
  <2>1. CASE Core(a)
    BY <1>1, <2>1 DEF SelectedKinds, ParsedKinds, Core, CoreAdapters, ProviderAdapters
  <2>2. CASE ~ Core(a)
    BY <2>2 DEF SelectedKinds
  <2>3. QED
    BY <2>1, <2>2
<1>3. QED
  BY <1>1, <1>2 DEF Parsed

\* A file is read, as it is now.
LEMMA FileReads ==
  ASSUME TypeOK, ReadInv, ReadFile
  PROVE  ReadInv'
<1>1. op \in Operation /\ op # Idle
  BY Running_ DEF ReadFile, TypeOK
<1>2. source' = source /\ head' = head /\ op.at = "read" /\ Reading
  BY DEF ReadFile, outside, Reading
<1>3. PICK listed \in op.unread : \E m \in Now(listed) :
        LET items == IF Parsed(op.adapter, m, op.layout, op.most)
                       THEN ItemsOf(op.adapter, m, op.layout, op.size) ELSE <<>>
            unread == op.unread \ {listed}
        IN  op' = [op EXCEPT !.items = @ \cup {items[i] : i \in DOMAIN items},
                             !.listed = @ + Len(items),
                             !.warned = @ \/ WarnsOf(op.adapter, m, op.layout, op.most),
                             !.unread = unread, !.at = Progress(unread)]
  BY DEF ReadFile
<1>4. PICK m \in Now(listed) :
        LET items == IF Parsed(op.adapter, m, op.layout, op.most)
                       THEN ItemsOf(op.adapter, m, op.layout, op.size) ELSE <<>>
            unread == op.unread \ {listed}
        IN  op' = [op EXCEPT !.items = @ \cup {items[i] : i \in DOMAIN items},
                             !.listed = @ + Len(items),
                             !.warned = @ \/ WarnsOf(op.adapter, m, op.layout, op.most),
                             !.unread = unread, !.at = Progress(unread)]
  BY <1>3
<1> DEFINE items == IF Parsed(op.adapter, m, op.layout, op.most)
                      THEN ItemsOf(op.adapter, m, op.layout, op.size) ELSE <<>>
           unread == op.unread \ {listed}
           new == {items[i] : i \in DOMAIN items}
           warns == WarnsOf(op.adapter, m, op.layout, op.most)
<1>5. op' = [op EXCEPT !.items = @ \cup new, !.listed = @ + Len(items),
                       !.warned = @ \/ warns, !.unread = unread, !.at = Progress(unread)]
  BY <1>4
<1>6. /\ new \subseteq ItemsIn(m, op)
      /\ Parsed(op.adapter, m, op.layout, op.most) => new = ItemsIn(m, op)
  BY DEF ItemsIn
<1> HIDE DEF items, new, warns, unread
<1>7. /\ op'.at = Progress(unread) /\ op'.unread = unread
      /\ op'.items = op.items \cup new /\ op'.warned = (op.warned \/ warns)
      /\ op'.adapter = op.adapter /\ op'.layout = op.layout /\ op'.size = op.size
      /\ op'.hash = op.hash /\ op'.name = op.name /\ op'.clean = op.clean
      /\ op'.head = op.head /\ op'.edits = op.edits /\ op'.committed = op.committed
  BY <1>1, <1>5 DEF Operation
<1>8. Origin /\ GitSaid /\ Traced /\ Covered /\ op.edits \in Nat
  BY <1>1, OperationFields DEF ReadInv
<1>9. Progress(unread) \in {"read", "check"} /\ Finished'
  BY <1>7 DEF Progress, Finished
<1>10. Origin' /\ GitSaid'
  BY <1>2, <1>7, <1>8, <1>9 DEF Origin, GitSaid, Reading
<1>11. MayRead(op)' = MayRead(op) /\ \A f : ItemsIn(f, op') = ItemsIn(f, op)
  BY <1>2, <1>7 DEF MayRead, Hashed, FilesOf, ItemsIn
<1>12. \/ m = listed
       \/ m \in source.members /\ m.path = listed.path /\ source.layout = op.layout
          /\ op.layout # "zip"
  BY DEF Now, Present
<1>13. Traced'
  <2> SUFFICES ASSUME op.edits < 2
               PROVE  /\ \A f \in unread : Seeable(f)
                      /\ \A item \in op.items \cup new :
                           \E f \in MayRead(op) : Seeable(f) /\ item \in ItemsIn(f, op)
    BY <1>7, <1>11 DEF Traced, Seeable
  <2>1. /\ \A f \in op.unread : Seeable(f)
        /\ \A item \in op.items : \E f \in MayRead(op) : Seeable(f) /\ item \in ItemsIn(f, op)
    BY <1>2, <1>8 DEF Traced
  <2>2. Seeable(m)
    <3>1. m # listed => m \in MayRead(op)
      BY <1>1, <1>2, <1>8, <1>12, SourceMayBeRead
    <3>2. QED
      BY <1>3, <1>12, <2>1, <3>1 DEF Seeable
  <2>3. QED
    BY <1>6, <2>1, <2>2 DEF unread, Seeable
<1>14. Covered'
  <2> SUFFICES ASSUME op.edits < 2, ~ op.committed, ~ op.warned, ~ warns, op.layout # "file"
               PROVE  Covered'
    BY <1>7 DEF Covered
  <2>1. m.kind \in SelectedKinds(op.adapter) => ItemsIn(m, op) \subseteq op'.items
    BY <1>6, <1>7, AllOrWarned DEF warns
  <2>2. \A f : Taken(f) => ItemsIn(f, op) \subseteq op'.items
    BY <1>7 DEF Taken
  <2>3. \A f : Taken(f)' <=> ItemsIn(f, op) \subseteq op'.items
    BY <1>11 DEF Taken
  <2>4. Scope(op') = Scope(op)
    BY <1>7 DEF Scope
  <2>5. op.layout \in {"tree", "zip"}
    BY <1>1 DEF Operation, Layouts
  <2>6. CASE \A f \in Selected(op.adapter, op.hash, Scope(op)) :
               f \in op.unread \/ Taken(f) \/ Reread(f)
    <3> SUFFICES ASSUME NEW f \in Selected(op.adapter, op.hash, Scope(op))
                 PROVE  f \in op'.unread \/ Taken(f)' \/ Reread(f)'
      BY <1>7, <2>4 DEF Covered
    <3>1. f.kind \in SelectedKinds(op.adapter) /\ f \in op.hash.members
      BY SelectedIsSeen DEF Seen
    <3>2. Reread(f) => Reread(f)'
      BY <1>2, <1>7, <2>2, <2>3 DEF Reread, Present
    <3>3. Taken(f) => Taken(f)'
      BY <2>2, <2>3
    <3>4. CASE f = listed
      <4>1. CASE m = listed
        BY <2>1, <2>3, <3>1, <3>4, <4>1
      <4>2. CASE m # listed /\ op.edits = 0
        <5>1. m \in source.members /\ m.path = f.path /\ source.layout = "tree"
          BY <1>12, <2>5, <3>4, <4>2
        <5>2. f \in source.members
          BY <1>1, <1>2, <1>8, <2>5, <3>1, <4>2, StillSource
        <5>3. m = f
          BY <5>1, <5>2, OnePerPath
        <5>4. QED
          BY <3>4, <4>2, <5>3
      <4>3. CASE m # listed /\ op.edits = 1
        <5>1. m \in source.members /\ m.path = f.path /\ op.layout = "tree" /\ source.layout = "tree"
          BY <1>12, <2>5, <3>4, <4>3
        <5>2. \A y \in source.members : y.path = f.path => y = m
          BY <5>1, OnePerPath
        <5>3. Reread(f)'
          BY <1>2, <1>7, <2>1, <2>3, <4>3, <5>1, <5>2 DEF Reread
        <5>4. QED
          BY <5>3
      <4>4. QED
        BY <1>8, <4>1, <4>2, <4>3
    <3>5. CASE f # listed
      BY <1>7, <2>6, <3>2, <3>3, <3>5 DEF unread
    <3>6. QED
      BY <3>4, <3>5
  <2>7. CASE op.edits = 1 /\ Present
             /\ \A f \in Selected(op.adapter, source, Scope(op)) : f \in op.unread \/ Taken(f)
    <3>1. ASSUME NEW f \in Selected(op.adapter, source, Scope(op))
          PROVE  f \in op'.unread \/ Taken(f)'
      <4>1. f.kind \in SelectedKinds(op.adapter) /\ f \in source.members
        BY SelectedIsSeen DEF Seen
      <4>2. CASE f = listed
        <5>1. m = f
          <6>1. CASE m = listed
            BY <4>2, <6>1
          <6>2. CASE m # listed
            <7>1. m \in source.members /\ m.path = f.path /\ source.layout = "tree"
              BY <1>12, <2>5, <4>2, <6>2
            <7>2. QED
              BY <4>1, <7>1, OnePerPath
          <6>3. QED
            BY <6>1, <6>2
        <5>2. QED
          BY <2>1, <2>3, <4>1, <5>1
      <4>3. CASE f # listed
        BY <1>7, <2>2, <2>3, <2>7, <4>3 DEF unread
      <4>4. QED
        BY <4>2, <4>3
    <3>2. QED
      BY <1>2, <1>7, <2>4, <2>7, <3>1 DEF Covered, Present
  <2>8. QED
    BY <1>2, <1>8, <2>6, <2>7 DEF Covered
<1>15. RowsOfTheSource' /\ ExactIsComplete' /\ CleanUnlessCommitted'
  BY <1>7, <1>9 DEF RowsOfTheSource, ExactIsComplete, CleanUnlessCommitted, Undisturbed
<1>16. QED
  BY <1>9, <1>10, <1>13, <1>14, <1>15 DEF ReadInv

\* A file that is gone is left out: it is missing from the source as it is now.
LEMMA SkipReads ==
  ASSUME TypeOK, ReadInv, SkipFile
  PROVE  ReadInv'
<1>1. op \in Operation /\ op # Idle
  BY Running_ DEF SkipFile, TypeOK
<1>2. source' = source /\ head' = head /\ op.at = "read" /\ Reading /\ op.layout = "tree"
  BY DEF SkipFile, outside, Reading
<1>3. PICK listed \in op.unread :
        LET unread == op.unread \ {listed}
        IN  Now(listed) = {} /\ op' = [op EXCEPT !.unread = unread, !.at = Progress(unread)]
  BY DEF SkipFile
<1> DEFINE unread == op.unread \ {listed}
<1>4. op' = [op EXCEPT !.unread = unread, !.at = Progress(unread)]
  BY <1>3
<1> HIDE DEF unread
<1>5. /\ op'.at = Progress(unread) /\ op'.unread = unread
      /\ op'.items = op.items /\ op'.warned = op.warned
      /\ op'.adapter = op.adapter /\ op'.layout = op.layout /\ op'.size = op.size
      /\ op'.hash = op.hash /\ op'.name = op.name /\ op'.clean = op.clean
      /\ op'.head = op.head /\ op'.edits = op.edits /\ op'.committed = op.committed
  BY <1>1, <1>4 DEF Operation
<1>6. Origin /\ GitSaid /\ Traced /\ Covered /\ op.edits \in Nat
  BY <1>1, OperationFields DEF ReadInv
<1>7. Progress(unread) \in {"read", "check"} /\ Finished'
  BY <1>5 DEF Progress, Finished
<1>8. Origin' /\ GitSaid'
  BY <1>2, <1>5, <1>6, <1>7 DEF Origin, GitSaid, Reading
<1>9. MayRead(op)' = MayRead(op) /\ \A f : ItemsIn(f, op') = ItemsIn(f, op)
  BY <1>2, <1>5 DEF MayRead, Hashed, FilesOf, ItemsIn
<1>10. Traced'
  BY <1>2, <1>5, <1>6, <1>9 DEF Traced, Seeable, unread
<1>11. Present => \A y \in source.members : y.path # listed.path
  BY <1>2, <1>3 DEF Now
<1>12. Covered'
  <2> SUFFICES ASSUME op.edits < 2, ~ op.committed, ~ op.warned, op.layout # "file"
               PROVE  Covered'
    BY <1>5 DEF Covered
  <2>1. /\ \A f : Taken(f)' <=> Taken(f)
        /\ Scope(op') = Scope(op) /\ (Present' <=> Present)
    BY <1>2, <1>5, <1>9 DEF Taken, Scope, Present
  <2>2. \A f : Reread(f) => Reread(f)'
    BY <1>2, <1>5, <2>1 DEF Reread
  <2>3. CASE \A f \in Selected(op.adapter, op.hash, Scope(op)) :
               f \in op.unread \/ Taken(f) \/ Reread(f)
    <3> SUFFICES ASSUME NEW f \in Selected(op.adapter, op.hash, Scope(op))
                 PROVE  f \in op'.unread \/ Taken(f)' \/ Reread(f)'
      BY <1>5, <2>1 DEF Covered
    <3>1. f \in op.hash.members
      BY SelectedIsSeen DEF Seen
    <3>2. CASE f = listed
      <4>1. op.edits # 0
        <5>1. op.edits = 0 => f \in source.members /\ Present
          BY <1>1, <1>2, <1>6, <3>1, StillSource DEF Origin, Present
        <5>2. QED
          BY <1>11, <3>2, <5>1
      <4>2. QED
        BY <1>2, <1>5, <1>6, <1>11, <2>1, <3>2, <4>1 DEF Reread
    <3>3. CASE f # listed
      BY <1>5, <2>1, <2>2, <2>3, <3>3 DEF unread
    <3>4. QED
      BY <3>2, <3>3
  <2>4. CASE op.edits = 1 /\ Present
             /\ \A f \in Selected(op.adapter, source, Scope(op)) : f \in op.unread \/ Taken(f)
    <3>1. ASSUME NEW f \in Selected(op.adapter, source, Scope(op))
          PROVE  f \in op'.unread \/ Taken(f)'
      <4>1. f \in source.members
        BY SelectedIsSeen DEF Seen
      <4>2. f # listed
        BY <1>11, <2>4, <4>1
      <4>3. QED
        BY <1>5, <2>1, <2>4, <4>2 DEF unread
    <3>2. QED
      BY <1>2, <1>5, <2>1, <2>4, <3>1 DEF Covered
  <2>5. QED
    BY <1>2, <1>6, <2>3, <2>4 DEF Covered
<1>13. RowsOfTheSource' /\ ExactIsComplete' /\ CleanUnlessCommitted'
  BY <1>5, <1>7 DEF RowsOfTheSource, ExactIsComplete, CleanUnlessCommitted, Undisturbed
<1>14. QED
  BY <1>7, <1>8, <1>10, <1>12, <1>13 DEF ReadInv

\* When the second hash agrees, what was read before the source changed and
\* what was read after are files of one source.
LEMMA CheckKeepsReading ==
  ASSUME TypeOK, ReadInv, CheckSource
  PROVE  ReadInv'
<1>1. op \in Operation /\ op # Idle
  BY Running_ DEF CheckSource, TypeOK
<1>2. /\ source' = source /\ head' = head /\ op.at = "check" /\ Reading
      /\ source.layout = op.layout /\ Identity(source) = op.hash /\ Present
  BY DEF CheckSource, outside, Reading, Present, Unchanged
<1>3. PICK t \in Times :
        op' = [op EXCEPT !.rows = RowsOf(op, t), !.todo = Order(op.adapter), !.at = "append"]
  BY DEF CheckSource
<1>4. /\ op'.at = "append" /\ op'.adapter = op.adapter /\ op'.layout = op.layout
      /\ op'.size = op.size /\ op'.hash = op.hash /\ op'.name = op.name /\ op'.items = op.items
      /\ op'.clean = op.clean /\ op'.head = op.head /\ op'.edits = op.edits
      /\ op'.committed = op.committed /\ op'.warned = op.warned /\ op'.unread = op.unread
  BY <1>1, <1>3 DEF Operation
<1>5. Origin /\ GitSaid /\ Traced /\ Covered /\ op.unread = {} /\ op.edits \in Nat
  BY <1>1, <1>2, OperationFields DEF ReadInv, Finished
<1>6. Origin' /\ GitSaid' /\ Traced' /\ Covered' /\ Finished'
  <2>1. ~ Reading'
    BY <1>4 DEF Reading
  <2>2. QED
    BY <1>4, <1>5, <2>1 DEF Origin, GitSaid, Traced, Covered, Finished
<1>7. MayRead(op) = Hashed(op) /\ \A m : ItemsIn(m, op') = ItemsIn(m, op)
  BY <1>2, <1>4 DEF MayRead, Hashed, FilesOf, ItemsIn
<1>8. /\ source.layout # "file" => op.hash.members = source.members
      /\ op.hash.layout = source.layout
  BY <1>2 DEF Identity
<1>9. op.edits < 2 => \A item \in op.items :
        \E m \in Hashed(op) : Seeable(m) /\ item \in ItemsIn(m, op)
  BY <1>2, <1>5, <1>7 DEF Traced
<1>10. RowsOfTheSource'
  <2>1. Hashed(op)' = Hashed(op)
    BY <1>4 DEF Hashed
  <2>2. QED
    BY <1>4, <1>7, <1>9, <2>1 DEF RowsOfTheSource, Undisturbed
<1>11. ExactIsComplete'
  <2> SUFFICES ASSUME op.edits < 2, ~ op.committed, op.layout # "file", ~ op.warned,
                      NEW m \in Selected(op.adapter, op.hash, Scope(op))
               PROVE  ItemsIn(m, op) \subseteq op.items
    <3>1. StatusOf(op') = "exact" => ~ op'.warned
      BY DEF StatusOf
    <3>2. Scope(op) = IF op'.clean THEN {h.path : h \in op'.head} ELSE Paths
      BY <1>4 DEF Scope, PathsOf
    <3>3. QED
      BY <1>4, <1>7, <3>1, <3>2 DEF ExactIsComplete, Undisturbed
  <2>1. Selected(op.adapter, op.hash, Scope(op)) = Selected(op.adapter, source, Scope(op))
    BY <1>2, <1>8, SameSelection
  <2>2. m \in source.members /\ m.kind \in SelectedKinds(op.adapter)
    BY <2>1, SelectedIsSeen DEF Seen
  <2>3. Reread(m) => Taken(m)
    BY <1>2, <2>2, OnePerPath DEF Reread
  <2>4. m \in op.unread \/ Taken(m) \/ Reread(m)
    BY <1>2, <1>5, <2>1 DEF Covered
  <2>5. QED
    BY <1>5, <2>3, <2>4 DEF Taken
<1>12. CleanUnlessCommitted'
  <2> SUFFICES ASSUME op.edits < 2, ~ op.committed, op.clean, NEW item \in op.items
               PROVE  \E m \in op.head : item \in ItemsIn(m, op)
    BY <1>4, <1>7 DEF CleanUnlessCommitted, Undisturbed
  <2>1. source.layout = "tree"
    BY <1>2, <1>5 DEF GitSaid
  <2>2. op.head = Tracked(source)
    BY <1>2, <1>5, <1>8, <2>1 DEF GitSaid, Tracked
  <2>3. PICK m \in Hashed(op) : Seeable(m) /\ item \in ItemsIn(m, op)
    BY <1>9
  <2>4. m \in source.members
    BY <1>2, <1>8, <2>1 DEF Hashed
  <2>5. PICK h \in op.head : h.path = m.path
    BY <2>3 DEF Seeable, PathsOf
  <2>6. m = h
    BY <2>1, <2>2, <2>4, <2>5, OnePerPath DEF Tracked
  <2>7. QED
    BY <2>3, <2>5, <2>6
<1>13. QED
  BY <1>6, <1>10, <1>11, <1>12 DEF ReadInv

\* What is said of an import about to write is said of the import alone.
LEMMA WrittenAlone ==
  ASSUME ReadInv, op' = op
  PROVE  RowsOfTheSource' /\ ExactIsComplete' /\ CleanUnlessCommitted'
<1>1. RowsOfTheSource /\ ExactIsComplete /\ CleanUnlessCommitted
  BY DEF ReadInv
<1>2. Undisturbed' <=> Undisturbed
  BY DEF Undisturbed
<1>3. \A m : ItemsIn(m, op') = ItemsIn(m, op)
  OBVIOUS
<1>4. RowsOfTheSource'
  BY <1>1, <1>2, <1>3 DEF RowsOfTheSource
<1>5. ExactIsComplete'
  BY <1>1, <1>2, <1>3 DEF ExactIsComplete
<1>6. CleanUnlessCommitted'
  BY <1>1, <1>2, <1>3 DEF CleanUnlessCommitted
<1>7. QED
  BY <1>4, <1>5, <1>6

\* The source is edited.
LEMMA EditKeepsReading ==
  ASSUME TypeOK, ReadInv, Edit
  PROVE  ReadInv'
<1>1. head' = head /\ op' = IF Reading THEN [op EXCEPT !.edits = @ + 1] ELSE op
  BY DEF Edit
<1>2. CASE op = Idle
  BY <1>1, <1>2 DEF Idle, Reading, ReadInv, RowsOfTheSource, ExactIsComplete,
     CleanUnlessCommitted, Undisturbed
<1>3. CASE op # Idle /\ ~ Reading
  <2>1. op' = op /\ Origin /\ GitSaid /\ Finished
    BY <1>1, <1>3 DEF ReadInv
  <2>2. ~ Reading' /\ op.at \notin {"git-head", "git-status", "list", "read", "check"}
    BY <1>3, <2>1 DEF Reading
  <2>3. Origin' /\ GitSaid' /\ Traced' /\ Covered' /\ Finished'
    BY <2>1, <2>2 DEF Origin, GitSaid, Traced, Covered, Finished
  <2>4. RowsOfTheSource' /\ ExactIsComplete' /\ CleanUnlessCommitted'
    BY <2>1, WrittenAlone
  <2>5. QED
    BY <2>3, <2>4 DEF ReadInv
<1>4. CASE op # Idle /\ Reading
  <2>1. op \in Operation /\ op.edits \in Nat /\ op' = [op EXCEPT !.edits = @ + 1]
    BY <1>1, <1>4, OperationFields DEF TypeOK
  <2>2. /\ op'.at = op.at /\ op'.adapter = op.adapter /\ op'.layout = op.layout
        /\ op'.size = op.size /\ op'.hash = op.hash /\ op'.name = op.name /\ op'.items = op.items
        /\ op'.clean = op.clean /\ op'.head = op.head /\ op'.edits = op.edits + 1
        /\ op'.committed = op.committed /\ op'.warned = op.warned /\ op'.unread = op.unread
    BY <2>1 DEF Operation
  <2>3. Origin /\ GitSaid /\ Traced /\ Covered /\ Finished
    BY <1>4 DEF ReadInv
  <2>4. op'.edits # 0 /\ (op'.edits < 2 => op.edits = 0)
    BY <2>1, <2>2
  <2>5. Origin' /\ Finished'
    BY <2>2, <2>3, <2>4 DEF Origin, Finished
  <2>6. GitSaid'
    BY <1>1, <1>4, <2>2, <2>3, <2>4 DEF GitSaid, Reading
  <2>7. Traced'
    <3>1. op.edits = 0 => MayRead(op) \subseteq MayRead(op)'
      BY <2>2 DEF MayRead, FilesOf
    <3>2. \A m : ItemsIn(m, op') = ItemsIn(m, op)
      BY <2>2 DEF ItemsIn
    <3>3. op.edits = 0 => \A m : Seeable(m) => Seeable(m)'
      BY <2>2, <3>1 DEF Seeable
    <3>4. QED
      BY <1>4, <2>2, <2>3, <2>4, <3>1, <3>2, <3>3 DEF Traced
  <2>8. Covered'
    <3>1. \A m : Taken(m) => Taken(m)'
      BY <2>2 DEF Taken, ItemsIn
    <3>2. op.edits = 0 => \A m : ~ Reread(m)
      BY DEF Reread
    <3>3. Scope(op)' = Scope(op)
      BY <2>2 DEF Scope
    <3>4. QED
      BY <2>2, <2>3, <2>4, <3>1, <3>2, <3>3 DEF Covered
  <2>9. RowsOfTheSource' /\ ExactIsComplete' /\ CleanUnlessCommitted'
    BY <1>4, <2>2 DEF Reading, RowsOfTheSource, ExactIsComplete, CleanUnlessCommitted, Undisturbed
  <2>10. QED
    BY <2>5, <2>6, <2>7, <2>8, <2>9 DEF ReadInv
<1>5. QED
  BY <1>2, <1>3, <1>4

\* A commit is made.
LEMMA CommitKeepsReading ==
  ASSUME TypeOK, ReadInv, Commit
  PROVE  ReadInv'
<1>1. source' = source /\ op' = IF Reading THEN [op EXCEPT !.committed = TRUE] ELSE op
  BY DEF Commit, outside
<1>2. CASE op = Idle
  BY <1>1, <1>2 DEF Idle, Reading, ReadInv, RowsOfTheSource, ExactIsComplete,
     CleanUnlessCommitted, Undisturbed
<1>3. CASE op # Idle /\ ~ Reading
  <2>1. op' = op /\ Origin /\ GitSaid /\ Finished
    BY <1>1, <1>3 DEF ReadInv
  <2>2. ~ Reading' /\ op.at \notin {"git-head", "git-status", "list", "read", "check"}
    BY <1>3, <2>1 DEF Reading
  <2>3. Origin' /\ GitSaid' /\ Traced' /\ Covered' /\ Finished'
    BY <2>1, <2>2 DEF Origin, GitSaid, Traced, Covered, Finished
  <2>4. RowsOfTheSource' /\ ExactIsComplete' /\ CleanUnlessCommitted'
    BY <2>1, WrittenAlone
  <2>5. QED
    BY <2>3, <2>4 DEF ReadInv
<1>4. CASE op # Idle /\ Reading
  <2>1. op \in Operation /\ op' = [op EXCEPT !.committed = TRUE]
    BY <1>1, <1>4 DEF TypeOK
  <2>2. /\ op'.at = op.at /\ op'.adapter = op.adapter /\ op'.layout = op.layout
        /\ op'.size = op.size /\ op'.hash = op.hash /\ op'.name = op.name /\ op'.items = op.items
        /\ op'.clean = op.clean /\ op'.head = op.head /\ op'.edits = op.edits
        /\ op'.committed /\ op'.unread = op.unread
    BY <2>1 DEF Operation
  <2>3. Origin /\ GitSaid /\ Traced /\ Finished
    BY <1>4 DEF ReadInv
  <2>4. Origin' /\ Finished' /\ GitSaid' /\ Covered'
    BY <1>1, <1>4, <2>2, <2>3 DEF Origin, Finished, GitSaid, Covered, Reading
  <2>5. Traced'
    <3>1. MayRead(op)' = MayRead(op)
      BY <1>1, <2>2 DEF MayRead, FilesOf
    <3>2. \A m : ItemsIn(m, op') = ItemsIn(m, op)
      BY <2>2 DEF ItemsIn
    <3>3. \A m : Seeable(m) => Seeable(m)'
      BY <2>2, <3>1 DEF Seeable
    <3>4. QED
      BY <1>4, <2>2, <2>3, <3>1, <3>2, <3>3 DEF Traced
  <2>6. RowsOfTheSource' /\ ExactIsComplete' /\ CleanUnlessCommitted'
    BY <1>4, <2>2 DEF Reading, RowsOfTheSource, ExactIsComplete, CleanUnlessCommitted, Undisturbed
  <2>7. QED
    BY <2>4, <2>5, <2>6 DEF ReadInv
<1>5. QED
  BY <1>2, <1>3, <1>4

\* An import goes on writing, or ends.
LEMMA WritingKeepsReading ==
  ASSUME TypeOK, ReadInv, AppendRows \/ RebuildIndex \/ Reject \/ Crash
  PROVE  ReadInv'
<1>1. CASE op' = Idle
  BY <1>1 DEF Idle, ReadInv, RowsOfTheSource, ExactIsComplete, CleanUnlessCommitted, Undisturbed
<1>2. CASE op' # Idle
  <2>1. AppendRows
    BY <1>2 DEF RebuildIndex, Reject, Crash
  <2>2. op \in Operation /\ op # Idle /\ op.at = "append"
    BY <2>1, Running_ DEF AppendRows, TypeOK
  <2>3. PICK stage \in {"append", "index"} :
          op' = [op EXCEPT !.at = stage, !.todo = Tail(@)]
    BY <1>2, <2>1 DEF AppendRows
  <2>4. /\ op'.at = stage /\ op'.adapter = op.adapter /\ op'.layout = op.layout
        /\ op'.size = op.size /\ op'.hash = op.hash /\ op'.items = op.items
        /\ op'.clean = op.clean /\ op'.head = op.head /\ op'.edits = op.edits
        /\ op'.committed = op.committed /\ op'.warned = op.warned
    BY <2>2, <2>3 DEF Operation
  <2>5. ~ Reading' /\ op'.at \notin {"git-head", "git-status", "list", "read", "check"}
    BY <2>3, <2>4 DEF Reading
  <2>6. Origin /\ GitSaid
    BY <2>2 DEF ReadInv
  <2>7. Origin' /\ GitSaid' /\ Traced' /\ Covered' /\ Finished'
    BY <2>4, <2>5, <2>6 DEF Origin, GitSaid, Traced, Covered, Finished
  <2>8. (\A m : ItemsIn(m, op') = ItemsIn(m, op)) /\ Hashed(op') = Hashed(op)
        /\ StatusOf(op') = StatusOf(op) /\ (Undisturbed' => Undisturbed)
    BY <2>2, <2>4 DEF ItemsIn, Hashed, StatusOf, Generic, Undisturbed
  <2>9. RowsOfTheSource /\ ExactIsComplete /\ CleanUnlessCommitted
    BY DEF ReadInv
  <2>10. RowsOfTheSource'
    BY <2>4, <2>8, <2>9 DEF RowsOfTheSource
  <2>11. ExactIsComplete'
    BY <2>4, <2>8, <2>9 DEF ExactIsComplete
  <2>12. CleanUnlessCommitted'
    BY <2>4, <2>8, <2>9 DEF CleanUnlessCommitted
  <2>13. QED
    BY <2>7, <2>10, <2>11, <2>12 DEF ReadInv
<1>3. QED
  BY <1>1, <1>2

\* Every step keeps it.
LEMMA ReadInductive == TypeOK /\ ReadInv /\ [Next]_vars => ReadInv'
<1> SUFFICES ASSUME TypeOK, ReadInv, [Next]_vars PROVE ReadInv'
  OBVIOUS
<1>1. ASSUME NEW a \in Adapters, NEW k \in ChunkSizes, NEW l \in Limits, Begin(a, k, l)
      PROVE  ReadInv'
  BY <1>1, BeginReads
<1>2. CASE ReadHead \/ ReadStatus
  BY <1>2, GitReads
<1>3. CASE List
  BY <1>3, ListReads
<1>4. CASE ReadFile \/ SkipFile
  BY <1>4, FileReads, SkipReads
<1>5. CASE CheckSource
  BY <1>5, CheckKeepsReading
<1>6. CASE AppendRows \/ RebuildIndex \/ Reject \/ Crash
  BY <1>6, WritingKeepsReading
<1>7. CASE Edit
  BY <1>7, EditKeepsReading
<1>8. CASE Commit
  BY <1>8, CommitKeepsReading
<1>9. CASE UNCHANGED vars
  <2>1. source' = source /\ head' = head /\ op' = op
    BY <1>9 DEF vars
  <2>2. RowsOfTheSource' /\ ExactIsComplete' /\ CleanUnlessCommitted'
    BY <2>1, WrittenAlone
  <2>3. op # Idle => Origin' /\ GitSaid' /\ Finished'
    BY <2>1 DEF ReadInv, Origin, GitSaid, Finished, Reading
  <2>4. MayRead(op)' = MayRead(op) /\ (\A m : Seeable(m)' <=> Seeable(m))
        /\ \A m : ItemsIn(m, op') = ItemsIn(m, op)
    BY <2>1 DEF MayRead, Seeable
  <2>5. op # Idle => Traced'
    BY <2>1, <2>4 DEF ReadInv, Traced, Reading
  <2>6. (\A m : Taken(m)' <=> Taken(m)) /\ (\A m : Reread(m)' <=> Reread(m))
    BY <2>1 DEF Taken, Reread, Present
  <2>7. op # Idle => Covered'
    BY <2>1, <2>6 DEF ReadInv, Covered, Present
  <2>8. QED
    BY <2>1, <2>2, <2>3, <2>5, <2>7 DEF ReadInv
<1>10. QED
  BY <1>1, <1>2, <1>3, <1>4, <1>5, <1>6, <1>7, <1>8, <1>9 DEF Next

\* So it always holds.
LEMMA ReadInvariant == Spec => [](TInv /\ ReadInv)
<1>1. Init => ReadInv
  BY DEF Init, Idle, ReadInv, RowsOfTheSource, ExactIsComplete, CleanUnlessCommitted, Undisturbed
<1>2. Spec => []TInv
  BY TypeInit, TypeNext, PTL DEF Spec
<1>3. TInv => TypeOK
  BY DEF TInv
<1>4. QED
  BY <1>1, <1>2, <1>3, ReadInductive, PTL DEF Spec

\* Every row that is written says what a file of the hashed source says,
\* although the files are read one after another while the source changes.
THEOREM ImportRowsOfTheSource == Spec => []RowsOfTheSource
<1>1. ReadInv => RowsOfTheSource
  BY DEF ReadInv
<1>2. QED
  BY <1>1, ReadInvariant, PTL

\* A parse recorded as exact left out nothing of what its adapter looks at,
\* although a listed file may be replaced before it is read.
THEOREM ImportExactIsComplete == Spec => []ExactIsComplete
<1>1. ReadInv => ExactIsComplete
  BY DEF ReadInv
<1>2. QED
  BY <1>1, ReadInvariant, PTL

\* Evidence marked clean is of the commit it names, unless a commit was made
\* while git was asked.
THEOREM ImportCleanUnlessCommitted == Spec => []CleanUnlessCommitted
<1>1. ReadInv => CleanUnlessCommitted
  BY DEF ReadInv
<1>2. QED
  BY <1>1, ReadInvariant, PTL

-----------------------------------------------------------------------------
(* What the validators find.  Between the first append of an import and its *)
(* last step its id is unfinished; everything else on the disk is whole.     *)

\* Every observation is of a parse, and has its receipt or an import at work.
RowsParsed ==
  /\ \A p \in parses : \A x \in p.rows : x.receipt = p.id
  /\ \A x \in disk.observations :
       /\ \E p \in parses : p.id = x.receipt /\ x \in p.rows
       /\ Existing(x.receipt) # {} \/ x.receipt \in unfinished

\* The contents of some observations.
ContentsOf(rows) == {ContentOf(x) : x \in rows}

\* A receipt of evidence counts the contents of a parse, and has its snapshot.
ContentsCounted ==
  \A r \in disk.receipts : Evidence(r.id.adapter) =>
    /\ r.id.snapshot \in disk.snapshots
    /\ \E p \in parses : p.id = r.id /\ r.contents = Cardinality(ContentsOf(p.rows))

\* A receipt about to be written counts the contents of the observations staged with it.
ContentsStaged ==
  op.at = "append" /\ Evidence(op.adapter) =>
    \A r \in op.rows.receipts :
      r \in disk.receipts \/ r.contents = Cardinality(ContentsOf(op.rows.observations))

\* The index is that of the observations, unless an import has yet to rebuild it.
Indexed ==
  \/ \E id \in unfinished : Evidence(id.adapter)
  \/ index = IndexOf(disk.observations)
  \/ disk.contents = {} /\ IndexOf(disk.observations) = {}

\* The index is rebuilt when all has been written.
IndexLast ==
  op.at = "index" => Evidence(op.adapter) /\ IdOf(op) \in unfinished /\ Existing(IdOf(op)) # {}

\* The inductive invariant of whole imports.
WholeInv == RowsParsed /\ ContentsCounted /\ ContentsStaged /\ Indexed /\ IndexLast

\* A step that touches neither the files nor the index keeps it.
LEMMA WholeQuiet ==
  ASSUME WholeInv, disk' = disk, parses' = parses, unfinished' = unfinished, index' = index,
         op'.at \notin {"append", "index"}
  PROVE  WholeInv'
<1>1. \A id : Existing(id)' = Existing(id)
  BY DEF Existing
<1>2. RowsParsed' /\ ContentsCounted'
  BY <1>1 DEF WholeInv, RowsParsed, ContentsCounted
<1>3. ContentsStaged' /\ Indexed' /\ IndexLast'
  BY DEF WholeInv, ContentsStaged, Indexed, IndexLast, IndexOf
<1>4. QED
  BY <1>2, <1>3 DEF WholeInv

\* The rows and the receipt of an import are staged.
LEMMA WholeCheck ==
  ASSUME IInv, WholeInv, CheckSource
  PROVE  WholeInv'
<1>1. op \in Operation
  BY Running_ DEF CheckSource, IInv, TypeOK
<1>2. /\ disk' = disk /\ parses' = parses /\ unfinished' = unfinished /\ index' = index
      /\ \A id : Existing(id)' = Existing(id)
  BY DEF CheckSource, written, Existing
<1>3. PICK t \in Times : op' = [op EXCEPT !.rows = RowsOf(op, t),
                                          !.todo = Order(op.adapter), !.at = "append"]
  BY DEF CheckSource
<1> DEFINE rows == RowsOf(op, t)
           observations == {Observation(op, item) : item \in op.items}
<1>4. op'.at = "append" /\ op'.adapter = op.adapter /\ op'.rows = rows
  BY <1>1, <1>3 DEF Operation
<1>5. /\ rows.observations = observations
      /\ rows.receipts = IF Existing(IdOf(op)) = {} THEN {NewReceipt(op, observations, t)}
                         ELSE Existing(IdOf(op))
  BY DEF RowsOf
<1>6. Evidence(op.adapter) =>
        NewReceipt(op, observations, t).contents = Cardinality(ContentsOf(observations))
  BY DEF NewReceipt, ContentsOf
<1> HIDE DEF rows, observations
<1>7. ContentsStaged'
  BY <1>2, <1>4, <1>5, <1>6 DEF ContentsStaged, Existing
<1>8. RowsParsed' /\ ContentsCounted'
  BY <1>2 DEF WholeInv, RowsParsed, ContentsCounted
<1>9. Indexed' /\ IndexLast'
  BY <1>2, <1>4 DEF WholeInv, Indexed, IndexLast, IndexOf
<1>10. QED
  BY <1>7, <1>8, <1>9 DEF WholeInv

\* One file is written: the import is unfinished, or this was its last row.
LEMMA WholeAppend ==
  ASSUME IInv, WholeInv, AppendRows
  PROVE  WholeInv'
<1> DEFINE file == Head(op.todo)
           last == Tail(op.todo) = <<>>
           done == last /\ ~ Evidence(op.adapter)
           obs == op.rows.observations
           id == IdOf(op)
<1>1. op \in Operation /\ disk \in Files /\ op.rows \in Files /\ op.at = "append"
  <2>1. op \in Operation /\ op.at = "append"
    BY Running_ DEF AppendRows, IInv, TypeOK
  <2>2. QED
    BY <2>1 DEF IInv, TypeOK, Operation
<1>2. /\ op.todo \in Remaining(op.adapter)
      /\ obs = {Observation(op, item) : item \in op.items}
      /\ Evidence(op.adapter) => op.rows.snapshots = {SnapshotOf(op)}
      /\ ~ Evidence(op.adapter) => op.rows.snapshots = {} /\ op.rows.contents = {}
      /\ \A f \in FileNames \ Waiting(op.todo) : op.rows[f] \subseteq disk[f]
  BY DEF IInv, Staged, AppendRows
<1>3. PICK r \in op.rows.receipts : op.rows.receipts = {r} /\ r.id = id
  BY DEF IInv, Staged, AppendRows
<1>4. /\ disk' = [disk EXCEPT ![file] = @ \cup op.rows[file]] /\ parses' = parses \cup {Parse}
      /\ unfinished' = IF done THEN unfinished \ {id} ELSE unfinished \cup {id}
      /\ op' = IF done THEN Idle
               ELSE [op EXCEPT !.at = IF last THEN "index" ELSE "append", !.todo = Tail(@)]
      /\ index' = index
  BY DEF AppendRows
<1>5. /\ Parse.id = id /\ Parse.rows = obs /\ \A x \in obs : x.receipt = id
      /\ id.adapter = op.adapter
      /\ Evidence(op.adapter) => id.snapshot = SnapshotOf(op)
  BY <1>2, IdOfFields DEF Parse
<1>6. file \in FileNames /\ (last <=> op.todo = <<"receipts">>) /\ (last <=> file = "receipts")
  <2>1. CASE op.todo = <<"receipts">>
    BY <2>1 DEF FileNames
  <2>2. CASE op.todo # <<"receipts">>
    BY <1>2, <2>2, RemainingSteps
  <2>3. QED
    BY <2>1, <2>2
<1>7. /\ disk'[file] = disk[file] \cup op.rows[file]
      /\ \A f \in FileNames \ {file} : disk'[f] = disk[f]
      /\ \A f \in FileNames : disk[f] \subseteq disk'[f]
  BY <1>1, <1>4, <1>6 DEF Files, FileNames
<1>8. \A i : Existing(i) \subseteq Existing(i)'
  <2>1. disk.receipts \subseteq disk'.receipts
    BY <1>7 DEF FileNames
  <2>2. QED
    BY <2>1 DEF Existing
<1>9. \A i : last /\ i = id => Existing(i)' # {}
  <2>1. last => r \in disk'.receipts
    BY <1>3, <1>6, <1>7
  <2>2. QED
    BY <1>3, <2>1 DEF Existing
<1>10. \A i : i = id => i \in unfinished' \/ Existing(i)' # {}
  BY <1>4, <1>9
<1>11. \A x \in disk'.observations : x \in disk.observations \/ x \in obs
  <2>1. CASE file = "observations"
    BY <1>7, <2>1
  <2>2. CASE file # "observations"
    BY <1>7, <2>2 DEF FileNames
  <2>3. QED
    BY <2>1, <2>2
<1> HIDE DEF file, last, obs, id
<1>12. RowsParsed'
  <2>1. \A p \in parses' : \A x \in p.rows : x.receipt = p.id
    BY <1>4, <1>5 DEF WholeInv, RowsParsed
  <2>2. ASSUME NEW x \in disk'.observations
        PROVE  /\ \E p \in parses' : p.id = x.receipt /\ x \in p.rows
               /\ Existing(x.receipt)' # {} \/ x.receipt \in unfinished'
    <3>1. CASE x \in obs
      BY <1>4, <1>5, <1>10, <3>1
    <3>2. CASE x \in disk.observations
      <4>1. \E p \in parses : p.id = x.receipt /\ x \in p.rows
        BY <3>2 DEF WholeInv, RowsParsed
      <4>2. Existing(x.receipt) # {} \/ x.receipt \in unfinished
        BY <3>2 DEF WholeInv, RowsParsed
      <4>3. QED
        BY <1>4, <1>8, <1>10, <4>1, <4>2
    <3>3. QED
      BY <1>11, <3>1, <3>2
  <2>3. QED
    BY <2>1, <2>2 DEF RowsParsed
<1>13. ContentsCounted'
  <2> SUFFICES ASSUME NEW q \in disk'.receipts, Evidence(q.id.adapter)
               PROVE  /\ q.id.snapshot \in disk'.snapshots
                      /\ \E p \in parses' :
                           p.id = q.id /\ q.contents = Cardinality(ContentsOf(p.rows))
    BY DEF ContentsCounted
  <2>1. CASE q \in disk.receipts
    <3>1. disk.snapshots \subseteq disk'.snapshots
      BY <1>7 DEF FileNames
    <3>2. QED
      BY <1>4, <2>1, <3>1 DEF WholeInv, ContentsCounted
  <2>2. CASE q \notin disk.receipts
    <3>1. file = "receipts" /\ q = r
      <4>1. file = "receipts"
        BY <1>7, <2>2 DEF FileNames
      <4>2. QED
        BY <1>3, <1>7, <2>2, <4>1
    <3>2. Evidence(op.adapter) /\ q.contents = Cardinality(ContentsOf(obs))
      BY <1>1, <1>3, <1>5, <2>2, <3>1 DEF WholeInv, ContentsStaged, obs
    <3>3. op.rows["snapshots"] \subseteq disk["snapshots"]
      <4>1. Waiting(op.todo) = {"receipts"}
        BY <1>6, <3>1 DEF Waiting
      <4>2. QED
        BY <1>2, <4>1 DEF FileNames
    <3>4. q.id.snapshot \in disk'.snapshots
      BY <1>2, <1>3, <1>5, <1>7, <3>1, <3>2, <3>3 DEF FileNames
    <3>5. QED
      BY <1>3, <1>4, <1>5, <3>1, <3>2, <3>4
  <2>3. QED
    BY <2>1, <2>2
<1>14. op' = Idle \/ ( /\ op' \in Operation /\ op'.adapter = op.adapter /\ op'.rows = op.rows
                       /\ op'.at = (IF last THEN "index" ELSE "append") /\ IdOf(op') = id
                       /\ ~ done )
  <2>1. CASE done
    BY <1>4, <2>1
  <2>2. CASE ~ done
    <3>1. op' \in Operation
      <4>1. TypeOK'
        BY TypeNext DEF IInv, TInv, Next
      <4>2. op'.at # "idle"
        BY <1>1, <1>4, <2>2 DEF Operation
      <4>3. QED
        BY <4>1, <4>2 DEF TypeOK, Idle
    <3>2. /\ op'.adapter = op.adapter /\ op'.rows = op.rows
          /\ op'.at = (IF last THEN "index" ELSE "append")
          /\ op'.hash = op.hash /\ op'.head = op.head /\ op'.clean = op.clean
          /\ op'.name = op.name /\ op'.layout = op.layout /\ op'.listed = op.listed
      BY <1>1, <1>4, <2>2 DEF Operation
    <3>3. IdOf(op') = IdOf(op)
      BY <3>2, StageIsNotRead
    <3>4. QED
      BY <2>2, <3>1, <3>2, <3>3 DEF id
  <2>3. QED
    BY <2>1, <2>2
<1>15. ContentsStaged'
  <2>1. CASE op' = Idle
    BY <2>1 DEF ContentsStaged, Idle
  <2>2. CASE op' # Idle
    <3>1. disk.receipts \subseteq disk'.receipts
      BY <1>7 DEF FileNames
    <3>2. QED
      BY <1>1, <1>14, <2>2, <3>1 DEF WholeInv, ContentsStaged
  <2>3. QED
    BY <2>1, <2>2
<1>16. Indexed'
  <2>1. CASE Evidence(op.adapter)
    BY <1>4, <1>5, <2>1 DEF Indexed
  <2>2. CASE ~ Evidence(op.adapter)
    <3>1. IndexOf(disk.observations)' = IndexOf(disk.observations)
      <4>1. \A x \in obs : ~ Evidence(x.receipt.adapter)
        BY <1>5, <2>2
      <4>2. disk.observations \subseteq disk'.observations
        BY <1>7 DEF FileNames
      <4>3. QED
        BY <1>11, <4>1, <4>2 DEF IndexOf
    <3>2. disk'.contents = disk.contents
      <4>1. CASE file = "contents"
        BY <1>2, <1>7, <2>2, <4>1
      <4>2. CASE file # "contents"
        BY <1>7, <4>2 DEF FileNames
      <4>3. QED
        BY <4>1, <4>2
    <3>3. \A i \in unfinished : Evidence(i.adapter) => i \in unfinished'
      BY <1>4, <1>5, <2>2
    <3>4. QED
      BY <1>4, <3>1, <3>2, <3>3 DEF WholeInv, Indexed
  <2>3. QED
    BY <2>1, <2>2
<1>17. IndexLast'
  <2> SUFFICES ASSUME op'.at = "index"
               PROVE  Evidence(op'.adapter) /\ IdOf(op') \in unfinished' /\ Existing(IdOf(op))' # {}
    BY DEF IndexLast
  <2>1. last /\ ~ done /\ op'.adapter = op.adapter /\ IdOf(op') = id
    BY <1>14 DEF Idle
  <2>2. QED
    BY <1>4, <1>9, <2>1
<1>18. QED
  BY <1>12, <1>13, <1>15, <1>16, <1>17 DEF WholeInv

\* The index is rebuilt and the import is complete.
LEMMA WholeRebuild ==
  ASSUME WholeInv, RebuildIndex
  PROVE  WholeInv'
<1>1. /\ disk' = disk /\ parses' = parses /\ unfinished' = unfinished \ {IdOf(op)}
      /\ index' = IndexOf(disk.observations) /\ op.at = "index" /\ op' = Idle
  BY DEF RebuildIndex
<1>2. Existing(IdOf(op)) # {} /\ \A id : Existing(id)' = Existing(id)
  BY <1>1 DEF WholeInv, IndexLast, Existing
<1>3. RowsParsed'
  BY <1>1, <1>2 DEF WholeInv, RowsParsed
<1>4. ContentsCounted'
  BY <1>1 DEF WholeInv, ContentsCounted
<1>5. ContentsStaged' /\ Indexed' /\ IndexLast'
  BY <1>1 DEF ContentsStaged, Indexed, IndexLast, IndexOf, Idle
<1>6. QED
  BY <1>3, <1>4, <1>5 DEF WholeInv

\* An import dies, perhaps half way through the index: it is unfinished.
LEMMA WholeCrash ==
  ASSUME WholeInv, Crash
  PROVE  WholeInv'
<1>1. /\ disk' = disk /\ parses' = parses /\ unfinished' = unfinished /\ op' = Idle
      /\ op.at = "index" \/ index' = index
  BY DEF Crash
<1>2. CASE index' = index
  BY <1>1, <1>2, WholeQuiet DEF Idle
<1>3. CASE op.at = "index"
  <2>1. IdOf(op) \in unfinished' /\ Evidence(IdOf(op).adapter)
    BY <1>1, <1>3, IdOfFields DEF WholeInv, IndexLast
  <2>2. Indexed'
    BY <2>1 DEF Indexed
  <2>3. \A id : Existing(id)' = Existing(id)
    BY <1>1 DEF Existing
  <2>4. RowsParsed' /\ ContentsCounted'
    BY <1>1, <2>3 DEF WholeInv, RowsParsed, ContentsCounted
  <2>5. ContentsStaged' /\ IndexLast'
    BY <1>1 DEF ContentsStaged, IndexLast, Idle
  <2>6. QED
    BY <2>2, <2>4, <2>5 DEF WholeInv
<1>4. QED
  BY <1>1, <1>2, <1>3

\* Every step keeps it.
LEMMA WholeInductive == IInv /\ WholeInv /\ [Next]_vars => WholeInv'
<1> SUFFICES ASSUME IInv, WholeInv, [Next]_vars PROVE WholeInv'
  OBVIOUS
<1>1. op = Idle \/ op \in Operation
  BY DEF IInv, TypeOK
<1>2. ASSUME NEW a \in Adapters, NEW k \in ChunkSizes, NEW l \in Limits, Begin(a, k, l)
      PROVE  WholeInv'
  <2>1. /\ disk' = disk /\ parses' = parses /\ unfinished' = unfinished /\ index' = index
        /\ op'.at \notin {"append", "index"}
    BY <1>2 DEF Begin, written, Running
  <2>2. QED
    BY <2>1, WholeQuiet
<1>3. CASE ReadHead \/ ReadStatus \/ List \/ ReadFile \/ SkipFile
  <2>1. disk' = disk /\ parses' = parses /\ unfinished' = unfinished /\ index' = index
    BY <1>3 DEF ReadHead, ReadStatus, List, ReadFile, SkipFile, written
  <2>2. op \in Operation
    BY <1>1, <1>3, Running_ DEF ReadHead, ReadStatus, List, ReadFile, SkipFile
  <2>3. op'.at \notin {"append", "index"}
    <3>1. CASE ReadHead
      BY <2>2, <3>1 DEF ReadHead, Operation
    <3>2. CASE ReadStatus
      BY <2>2, <3>2 DEF ReadStatus, Operation
    <3>3. CASE List
      BY <2>2, <3>3 DEF List, Operation, Progress
    <3>4. CASE ReadFile
      BY <2>2, <3>4 DEF ReadFile, Operation, Progress
    <3>5. CASE SkipFile
      BY <2>2, <3>5 DEF SkipFile, Operation, Progress
    <3>6. QED
      BY <1>3, <3>1, <3>2, <3>3, <3>4, <3>5
  <2>4. QED
    BY <2>1, <2>3, WholeQuiet
<1>4. CASE CheckSource
  BY <1>4, WholeCheck
<1>5. CASE AppendRows
  BY <1>5, WholeAppend
<1>6. CASE Reject
  <2>1. /\ disk' = disk /\ parses' = parses /\ unfinished' = unfinished /\ index' = index
        /\ op'.at \notin {"append", "index"}
    BY <1>6 DEF Reject, written, Idle
  <2>2. QED
    BY <2>1, WholeQuiet
<1>7. CASE RebuildIndex
  BY <1>7, WholeRebuild
<1>8. CASE Crash
  BY <1>8, WholeCrash
<1>9. CASE Edit \/ Commit
  <2>1. disk' = disk /\ parses' = parses /\ unfinished' = unfinished /\ index' = index
    BY <1>9 DEF Edit, Commit, written
  <2>2. CASE Reading
    <3>1. op \in Operation
      BY <1>1, <2>2 DEF Reading, Idle
    <3>2. op'.at = op.at
      BY <1>9, <2>2, <3>1 DEF Edit, Commit, Operation
    <3>3. op'.at \notin {"append", "index"}
      BY <2>2, <3>2 DEF Reading
    <3>4. QED
      BY <2>1, <3>3, WholeQuiet
  <2>3. CASE ~ Reading
    <3>1. op' = op
      BY <1>9, <2>3 DEF Edit, Commit
    <3>2. QED
      BY <2>1, <3>1 DEF WholeInv, RowsParsed, ContentsCounted, ContentsStaged, Indexed, IndexLast,
         IndexOf, Existing
  <2>4. QED
    BY <2>2, <2>3
<1>10. CASE UNCHANGED vars
  BY <1>10 DEF vars, WholeInv, RowsParsed, ContentsCounted, ContentsStaged, Indexed, IndexLast,
     IndexOf, Existing
<1>11. QED
  BY <1>2, <1>3, <1>4, <1>5, <1>6, <1>7, <1>8, <1>9, <1>10 DEF Next

\* When nothing is unfinished and every id has one parse, both validators accept.
LEMMA WholeIsValid ==
  ASSUME IInv, WholeInv
  PROVE  ImportsValidate
<1> SUFFICES ASSUME unfinished = {}, OneParseEach
             PROVE  CoreValidates /\ EvidenceValidates
  BY DEF ImportsValidate
<1>1. UniqueReceipts /\ ReceiptsBacked /\ EvidenceResolves
  BY DEF IInv
<1>2. \A x \in disk.observations : \E r \in disk.receipts : r.id = x.receipt
  BY DEF WholeInv, RowsParsed, Existing
<1>3. ASSUME NEW p \in parses, p.rows \subseteq disk.observations
      PROVE  RowsUnder(p.id) = p.rows
  <2>1. \A x \in RowsUnder(p.id) : \E q \in parses : q.id = p.id /\ x \in q.rows
    BY DEF WholeInv, RowsParsed, RowsUnder
  <2>2. \A x \in RowsUnder(p.id) : x \in p.rows
    BY <2>1 DEF OneParseEach
  <2>3. \A x \in p.rows : x \in RowsUnder(p.id)
    BY <1>3 DEF WholeInv, RowsParsed, RowsUnder
  <2>4. QED
    BY <2>2, <2>3
<1>4. ASSUME NEW r \in disk.receipts
      PROVE  \E p \in parses : /\ p.id = r.id /\ p.rows = RowsUnder(r.id)
                               /\ r.count = Cardinality(p.rows)
  <2>1. PICK p \in parses : /\ p.id = r.id /\ p.rows \subseteq disk.observations
                            /\ r.count = IF Core(r.id.adapter) THEN p.listed
                                         ELSE Cardinality(p.rows)
    BY <1>1 DEF ReceiptsBacked
  <2>2. Core(p.id.adapter) => p.listed = Cardinality(p.rows)
    BY DEF OneParseEach
  <2>3. p.rows = RowsUnder(p.id)
    BY <1>3, <2>1
  <2>4. r.count = Cardinality(p.rows)
    BY <2>1, <2>2
  <2>5. QED
    BY <2>1, <2>3, <2>4
<1>5. \A r \in disk.receipts : r.count = Cardinality(RowsUnder(r.id))
  BY <1>4
<1>6. CoreValidates
  BY <1>1, <1>2, <1>5 DEF CoreValidates, UniqueReceipts, Existing
<1>7. ASSUME NEW r \in disk.receipts, Evidence(r.id.adapter)
      PROVE  /\ r.id.snapshot \in disk.snapshots
             /\ r.contents = Cardinality({ContentOf(x) : x \in RowsUnder(r.id)})
  <2>1. PICK p \in parses : p.id = r.id /\ r.contents = Cardinality(ContentsOf(p.rows))
    BY <1>7 DEF WholeInv, ContentsCounted
  <2>2. PICK q \in parses : q.id = r.id /\ q.rows = RowsUnder(r.id)
    BY <1>4
  <2>3. p = q
    BY <2>1, <2>2 DEF OneParseEach
  <2>4. ContentsOf(p.rows) = {ContentOf(x) : x \in RowsUnder(r.id)}
    BY <2>2, <2>3 DEF ContentsOf
  <2>5. QED
    BY <1>7, <2>1, <2>4 DEF WholeInv, ContentsCounted
<1>8. disk.contents # {} => index = IndexOf(disk.observations)
  BY DEF WholeInv, Indexed
<1>9. EvidenceValidates
  <2> DEFINE receipts == {r \in disk.receipts : Evidence(r.id.adapter)}
             observations == IndexOf(disk.observations)
  <2>1. \A r \in receipts : r.id.snapshot \in disk.snapshots
    BY <1>7
  <2>2. \A x \in observations : \E r \in receipts : r.id = x.receipt
    BY <1>2 DEF IndexOf
  <2>3. \A x \in observations :
          ContentOf(x) \in disk.contents /\ x.receipt.snapshot \in disk.snapshots
    BY <1>1 DEF EvidenceResolves
  <2>4. \A r \in receipts :
          /\ r.count = Cardinality(RowsUnder(r.id))
          /\ r.contents = Cardinality({ContentOf(x) : x \in RowsUnder(r.id)})
    BY <1>5, <1>7
  <2> HIDE DEF receipts, observations
  <2>5. QED
    BY <1>8, <2>1, <2>2, <2>3, <2>4 DEF EvidenceValidates, receipts, observations
<1>10. QED
  BY <1>6, <1>9

\* Once every import that was begun has been repeated to its end, both
\* validators accept the workspace, wherever earlier attempts died.
THEOREM CompletedImportsValidate == Spec => []ImportsValidate
<1>1. Init => WholeInv
  BY DEF Init, Idle, NoRows, WholeInv, RowsParsed, ContentsCounted, ContentsStaged, Indexed,
     IndexLast, IndexOf
<1>2. Spec => []WholeInv
  BY <1>1, InvariantInit, InvariantNext, WholeInductive, PTL DEF Spec
<1>3. IInv /\ WholeInv => ImportsValidate
  BY WholeIsValid
<1>4. QED
  BY <1>2, <1>3, Invariance, PTL

=============================================================================
