--------------------------- MODULE ArchivesProofs ---------------------------
(***************************************************************************)
(* Proofs about Archives, for every value of its constants: any number of  *)
(* paths, archives and processes, any imports and candidates, and archives *)
(* of any content brought from elsewhere.                                  *)
(***************************************************************************)
EXTENDS Archives, WellFoundedInduction, NaturalsInduction, TLAPS

-----------------------------------------------------------------------------
(* Names and files.                                                        *)

\* The file names of a workspace, listed.
LEMMA NameIs ==
  Name = {"curation temp", "applications", "candidates", "decisions", "mutations", "curation policy",
          "supersession", "enrichment", "memory temp", "memory", "policy",
          "receipts temp", "receipts", "snapshots",
          "staging temp", "index", "content", "observations"}
<1>1. DOMAIN Names = 1 .. 18
  BY Z3 DEF Names
<1>2. \A i \in 1 .. 18 : i = 1 \/ i = 2 \/ i = 3 \/ i = 4 \/ i = 5 \/ i = 6 \/ i = 7 \/ i = 8 \/ i = 9
        \/ i = 10 \/ i = 11 \/ i = 12 \/ i = 13 \/ i = 14 \/ i = 15 \/ i = 16 \/ i = 17
        \/ i = 18
  OBVIOUS
<1>3. /\ Names[1] = "curation temp" /\ Names[2] = "applications" /\ Names[3] = "candidates"
      /\ Names[4] = "decisions" /\ Names[5] = "mutations" /\ Names[6] = "curation policy"
      /\ Names[7] = "supersession" /\ Names[8] = "enrichment" /\ Names[9] = "memory temp"
      /\ Names[10] = "memory" /\ Names[11] = "policy" /\ Names[12] = "receipts temp"
      /\ Names[13] = "receipts" /\ Names[14] = "snapshots" /\ Names[15] = "staging temp"
      /\ Names[16] = "index" /\ Names[17] = "content" /\ Names[18] = "observations"
  BY DEF Names
<1> DEFINE all == {"curation temp", "applications", "candidates", "decisions", "mutations", "curation policy",
          "supersession", "enrichment", "memory temp", "memory", "policy",
          "receipts temp", "receipts", "snapshots",
          "staging temp", "index", "content", "observations"}
<1>4. \A i \in 1 .. 18 : Names[i] \in all
  BY <1>2, <1>3
<1>5. all \subseteq Name
  <2>1. \A i \in 1 .. 18 : Names[i] \in Name
    BY <1>1 DEF Name
  <2>2. /\ Names[1] \in Name /\ Names[2] \in Name /\ Names[3] \in Name /\ Names[4] \in Name
        /\ Names[5] \in Name /\ Names[6] \in Name /\ Names[7] \in Name /\ Names[8] \in Name
        /\ Names[9] \in Name /\ Names[10] \in Name /\ Names[11] \in Name /\ Names[12] \in Name
        /\ Names[13] \in Name /\ Names[14] \in Name /\ Names[15] \in Name /\ Names[16] \in Name
        /\ Names[17] \in Name /\ Names[18] \in Name
    BY <2>1
  <2>3. /\ "curation temp" \in Name /\ "applications" \in Name /\ "candidates" \in Name
        /\ "decisions" \in Name /\ "mutations" \in Name /\ "curation policy" \in Name
        /\ "supersession" \in Name /\ "enrichment" \in Name /\ "memory temp" \in Name /\ "memory" \in Name
        /\ "policy" \in Name /\ "receipts temp" \in Name /\ "receipts" \in Name
        /\ "snapshots" \in Name /\ "staging temp" \in Name /\ "index" \in Name
        /\ "content" \in Name /\ "observations" \in Name
    BY ONLY <1>3, <2>2
  <2>4. QED
    BY ONLY <2>3
<1> HIDE DEF all
<1>6. Name = all
  BY <1>1, <1>4, <1>5 DEF Name
<1>7. QED
  BY <1>6 DEF all

\* The groups of the two classes, listed.
LEMMA GroupsAre ==
  /\ Len(Groups("minimum")) = 4 /\ Len(Groups("full")) = 6
  /\ Groups("minimum")[1] = Base /\ Groups("full")[1] = Base
  /\ Groups("minimum")[2] = CurationTree /\ Groups("full")[5] = CurationTree
  /\ Groups("minimum")[3] = ReceiptsTree /\ Groups("full")[2] = ReceiptsTree
  /\ Groups("minimum")[4] = {"observations"}
  /\ Groups("full")[3] = {"staging temp", "index", "content", "observations"}
  /\ Groups("full")[4] = {"memory temp", "memory"} /\ Groups("full")[6] = {"enrichment"}
BY DEF Groups

LEMMA DomainOfGroups == \A class \in Classes : DOMAIN Groups(class) = 1 .. Len(Groups(class))
<1>1. DOMAIN Groups("minimum") = 1 .. Len(Groups("minimum"))
  BY DEF Groups
<1>2. DOMAIN Groups("full") = 1 .. Len(Groups("full"))
  BY DEF Groups
<1>3. QED
  BY <1>1, <1>2 DEF Classes

\* The parts that the groups are made of hold names of files.
LEMMA TreesOfNames ==
  /\ Base \subseteq Name /\ CurationTree \subseteq Name /\ ReceiptsTree \subseteq Name
  /\ {"observations"} \subseteq Name /\ {"enrichment"} \subseteq Name
  /\ {"staging temp", "index", "content", "observations"} \subseteq Name
  /\ {"memory temp", "memory"} \subseteq Name
<1>1. Base \subseteq Name
  BY NameIs DEF Base
<1>2. CurationTree \subseteq Name
  BY NameIs DEF CurationTree
<1>3. ReceiptsTree \subseteq Name
  BY NameIs DEF ReceiptsTree
<1>4. /\ {"observations"} \subseteq Name /\ {"enrichment"} \subseteq Name
      /\ {"staging temp", "index", "content", "observations"} \subseteq Name
      /\ {"memory temp", "memory"} \subseteq Name
  BY NameIs
<1>5. QED
  BY <1>1, <1>2, <1>3, <1>4

\* A group holds names of files.
LEMMA GroupsOfNames ==
  ASSUME NEW class \in Classes, NEW i \in 1 .. Len(Groups(class))
  PROVE  Groups(class)[i] \subseteq Name
<1>1. CASE class = "minimum"
  <2>1. i \in 1 .. 4
    BY <1>1, GroupsAre
  <2>2. i = 1 \/ i = 2 \/ i = 3 \/ i = 4
    BY <2>1
  <2>3. QED
    BY <1>1, <2>2, GroupsAre, TreesOfNames
<1>2. CASE class = "full"
  <2>1. i \in 1 .. 6
    BY <1>2, GroupsAre
  <2>2. i = 1 \/ i = 2 \/ i = 3 \/ i = 4 \/ i = 5 \/ i = 6
    BY <2>1
  <2>3. QED
    BY <1>2, <2>2, GroupsAre, TreesOfNames
<1>3. QED
  BY <1>1, <1>2 DEF Classes

\* What identifies a workspace is no file of a group.
LEMMA ShellApart == Shell \cap Name = {}
BY NameIs DEF Shell

\* What adding a file does to the files.
LEMMA WithIs ==
  ASSUME NEW files, NEW name, NEW rows
  PROVE  /\ DOMAIN With(files, name, rows) = DOMAIN files \cup {name}
         /\ With(files, name, rows)[name] = rows
         /\ \A n \in DOMAIN files \ {name} : With(files, name, rows)[n] = files[n]
         /\ With(files, name, rows) # Nothing
<1>1. DOMAIN With(files, name, rows) = DOMAIN files \cup {name}
  BY DEF With
<1>2. DOMAIN Nothing = {}
  BY DEF Nothing
<1>3. QED
  BY <1>1, <1>2 DEF With

\* Adding a file with rows of its kind gives files.
LEMMA WithType ==
  ASSUME NEW files, IsFiles(files), NEW name \in Name \cup Shell, NEW rows \in SUBSET RowIn(name)
  PROVE  IsFiles(With(files, name, rows))
<1>1. With(files, name, rows) = [n \in DOMAIN With(files, name, rows) |-> With(files, name, rows)[n]]
  BY DEF With
<1>2. DOMAIN files \subseteq Name \cup Shell /\ \A n \in DOMAIN files : files[n] \subseteq RowIn(n)
  BY DEF IsFiles
<1>3. DOMAIN With(files, name, rows) = DOMAIN files \cup {name}
  BY WithIs
<1> DEFINE w == With(files, name, rows)
<1>4. w[name] = rows /\ \A n \in DOMAIN files \ {name} : w[n] = files[n]
  BY DEF With
<1>5. ASSUME NEW n \in DOMAIN files \cup {name}
      PROVE  w[n] \subseteq RowIn(n)
  <2> HIDE DEF w
  <2>1. CASE n = name
    BY <1>4, <2>1
  <2>2. CASE n # name
    <3>1. n \in DOMAIN files \ {name}
      BY <1>3, <2>2
    <3>2. w[n] = files[n]
      BY <1>4, <3>1
    <3>3. QED
      BY <1>2, <3>1, <3>2
  <2>3. QED
    BY <2>1, <2>2
<1>6. QED
  BY <1>1, <1>2, <1>3, <1>5 DEF IsFiles

\* The rows of a file are of the file's kind.
LEMMA RowsType ==
  ASSUME NEW files, IsFiles(files), NEW name
  PROVE  Rows(files, name) \subseteq RowIn(name)
BY DEF Rows, IsFiles

LEMMA TempNames == \A n : TempOf(n) \in Name
BY NameIs DEF TempOf

LEMMA StagedNames == Staged \subseteq Name
BY TempNames DEF Staged

\* What a listing of a workspace sees.
LEMMA PresentNames ==
  ASSUME TypeOK, NEW path \in Paths
  PROVE  Present(path) \subseteq Name \cup Shell
<1>1. IsFiles(workspace[path])
  BY DEF TypeOK
<1>2. QED
  BY <1>1, StagedNames DEF Present, IsFiles

-----------------------------------------------------------------------------
(* What a running export or restore holds, by its stage.                   *)

\* What an export has at each stage of its group, names and rows.
ExportStaged(o) ==
  /\ o.group \in 1 .. Len(Groups(o.class)) + 1
  /\ o.at \in {"check", "count", "recheck"} => o.group = 1 /\ o.names = {} /\ o.read = Nothing
  /\ o.at = "list" => o.group \in 1 .. Len(Groups(o.class))
  /\ o.at = "read" => o.names # {}
  /\ o.at = "classify" => o.names = {} /\ o.group = Len(Groups(o.class)) + 1

\* What a restore that has passed its validation knows.
RestoreStaged(o) ==
  /\ o.at \in {"validate", "publish"} => Writable(o.archive)
  /\ o.at = "publish" => Governed(o.archive.listed, o.archive.class)

\* An operation: an export or a restore, at a stage it can have reached.
IsOp(o) ==
  o # Idle => IF "quiet" \in DOMAIN o THEN IsExport(o) /\ ExportStaged(o) ELSE IsRestore(o) /\ RestoreStaged(o)

\* What an export keeps from its beginning to its end.
Same(o, n) == n.path = o.path /\ n.class = o.class /\ n.extra = o.extra /\ n.quiet = o.quiet

\* Only an export keeps whether it was disturbed: the two kinds differ.
LEMMA Kinds ==
  ASSUME NEW o
  PROVE  /\ IsExport(o) => "quiet" \in DOMAIN o /\ o # Idle
         /\ IsRestore(o) => "quiet" \notin DOMAIN o /\ o # Idle
<1>1. IsExport(o) => DOMAIN o = {"at", "path", "output", "class", "extra", "group", "names", "read", "quiet"}
  BY DEF IsExport
<1>2. IsRestore(o) => DOMAIN o = {"at", "path", "output", "archive"}
  BY DEF IsRestore
<1>3. DOMAIN Idle = {"at"}
  BY DEF Idle
<1>4. QED
  BY <1>1, <1>2, <1>3

\* The stage tells the kind of an operation.
LEMMA StageTells ==
  ASSUME NEW o, IsOp(o)
  PROVE  /\ o.at \in ExportStages => IsExport(o) /\ ExportStaged(o)
         /\ o.at \in {"open", "write", "validate", "publish"} => IsRestore(o) /\ RestoreStaged(o)
<1>1. Idle.at = "idle"
  BY DEF Idle
<1>2. IsExport(o) => o.at \in ExportStages
  BY DEF IsExport
<1>3. IsRestore(o) => o.at \in {"open", "write", "validate", "publish"}
  BY DEF IsRestore
<1>4. QED
  BY <1>1, <1>2, <1>3 DEF IsOp, ExportStages

\* Either kind, at a stage it can have reached, is an operation.
LEMMA OpFromParts ==
  ASSUME NEW o
  PROVE  /\ IsExport(o) /\ ExportStaged(o) => IsOp(o)
         /\ IsRestore(o) /\ RestoreStaged(o) => IsOp(o)
BY Kinds DEF IsOp

\* An export that moves on to another stage.
LEMMA ExportTo ==
  ASSUME NEW o, IsExport(o), NEW stage \in ExportStages, NEW n, n = [o EXCEPT !.at = stage]
  PROVE  /\ IsExport(n) /\ n.at = stage
         /\ n.path = o.path /\ n.output = o.output /\ n.class = o.class /\ n.extra = o.extra
         /\ n.group = o.group /\ n.names = o.names /\ n.read = o.read /\ n.quiet = o.quiet
BY DEF IsExport

\* An export that lists a group.
LEMMA ExportLists ==
  ASSUME NEW o, IsExport(o), NEW stage, stage \in ExportStages, NEW names, names \subseteq Name,
         NEW group, group \in Nat, NEW n,
         n = [at |-> stage, path |-> o.path, output |-> o.output, class |-> o.class, extra |-> o.extra,
              group |-> group, names |-> names, read |-> o.read, quiet |-> o.quiet]
  PROVE  /\ IsExport(n) /\ n.at = stage
         /\ n.path = o.path /\ n.output = o.output /\ n.class = o.class /\ n.extra = o.extra
         /\ n.group = group /\ n.names = names /\ n.read = o.read /\ n.quiet = o.quiet
BY DEF IsExport

\* An export that reads a file.
LEMMA ExportReads ==
  ASSUME NEW o, IsExport(o), NEW stage, stage \in ExportStages, NEW names, names \subseteq Name,
         NEW read, IsFiles(read), NEW n,
         n = [at |-> stage, path |-> o.path, output |-> o.output, class |-> o.class, extra |-> o.extra,
              group |-> o.group, names |-> names, read |-> read, quiet |-> o.quiet]
  PROVE  /\ IsExport(n) /\ n.at = stage
         /\ n.path = o.path /\ n.output = o.output /\ n.class = o.class /\ n.extra = o.extra
         /\ n.group = o.group /\ n.names = names /\ n.read = read /\ n.quiet = o.quiet
BY DEF IsExport

\* An export whose workspace a command changed.
LEMMA ExportDisturbed ==
  ASSUME NEW o, IsExport(o), NEW n, n = [o EXCEPT !.quiet = FALSE]
  PROVE  /\ IsExport(n) /\ n.at = o.at
         /\ n.path = o.path /\ n.output = o.output /\ n.class = o.class /\ n.extra = o.extra
         /\ n.group = o.group /\ n.names = o.names /\ n.read = o.read /\ n.quiet = FALSE
BY DEF IsExport

\* A restore that moves on to another stage.
LEMMA RestoreTo ==
  ASSUME NEW o, IsRestore(o), o.at # "open", NEW stage \in {"write", "validate", "publish"},
         NEW n, n = [o EXCEPT !.at = stage]
  PROVE  IsRestore(n) /\ n.at = stage /\ n.archive = o.archive /\ n.path = o.path /\ n.output = o.output
BY DEF IsRestore

\* A restore that has read its archive.
LEMMA RestoreOpens ==
  ASSUME NEW o, IsRestore(o), NEW a, IsArchive(a), NEW n,
         n = [at |-> "write", path |-> o.path, output |-> o.output, archive |-> a]
  PROVE  IsRestore(n) /\ n.at = "write" /\ n.archive = a /\ n.path = o.path /\ n.output = o.output
BY DEF IsRestore

-----------------------------------------------------------------------------
(* The other commands.                                                     *)

\* The files a command writes.
WrittenBy(does) ==
  CASE does = "import" -> {"snapshots", "content", "observations", "receipts", "index"}
    [] does = "propose" -> {"curation policy", "candidates"}
    [] does = "review" -> {"decisions"}
    [] does \in {"apply", "mutate"} -> {"memory", "mutations", "supersession", "applications"}

Commands == {"import", "propose", "review", "apply", "mutate"}

\* A running command has only its own files left, in a workspace no longer counted as restored.
CommandInv ==
  command # Idle =>
    /\ workspace[command.path] # Nothing /\ origin[command.path] = None
    /\ command.does \in Commands /\ command.todo \in Seq(WrittenBy(command.does))

\* A command writes files.
LEMMA WrittenByNames == \A does \in Commands : WrittenBy(does) \subseteq Name
BY NameIs DEF WrittenBy, Commands

LEMMA UnlessType ==
  ASSUME NEW S, NEW files, NEW id, NEW name \in S
  PROVE  Unless(files, id, name) \in Seq(S)
BY DEF Unless

LEMMA OneRow == ASSUME NEW S, NEW x \in S PROVE <<x>> \in Seq(S)
OBVIOUS

\* A command that may run writes at least one file, of its own.
LEMMA OrderType ==
  ASSUME NEW files, IsFiles(files), NEW does \in Commands, NEW id, May(files, does, id)
  PROVE  Order(files, does, id) \in Seq(WrittenBy(does)) \ {<<>>}
<1> DEFINE S == WrittenBy(does)
<1>1. CASE does = "import"
  <2> DEFINE a == Unless(files, id, "snapshots")  b == Unless(files, id, "content")
             c == Unless(files, id, "observations")  d == Unless(files, id, "receipts")
  <2>1. {"snapshots", "content", "observations", "receipts", "index"} = S
    BY <1>1 DEF WrittenBy
  <2>2. a \in Seq(S) /\ b \in Seq(S) /\ c \in Seq(S) /\ d \in Seq(S) /\ <<"index">> \in Seq(S)
    <3> HIDE DEF S
    <3>1. "snapshots" \in S /\ "content" \in S /\ "observations" \in S /\ "receipts" \in S /\ "index" \in S
      BY <2>1
    <3>2. QED
      BY <3>1, UnlessType
  <2>3. CASE id \in EvidenceImports
    <3>1. Order(files, does, id) = a \o b \o c \o d \o <<"index">>
      BY <1>1, <2>3 DEF Order
    <3> HIDE DEF S, a, b, c, d
    <3>2. a \o b \o c \o d \in Seq(S)
      BY <2>2
    <3>3. a \o b \o c \o d \o <<"index">> \in Seq(S) \ {<<>>}
      BY <2>2, <3>2
    <3>4. QED
      BY <3>1, <3>3 DEF S
  <2>4. CASE id \notin EvidenceImports
    <3>1. Order(files, does, id) = c \o d
      BY <1>1, <2>4 DEF Order
    <3>2. d = <<"receipts">>
      BY <1>1, <2>4 DEF May, Unless
    <3> HIDE DEF S, c, d
    <3>3. c \o d \in Seq(S) \ {<<>>}
      BY <2>2, <3>2
    <3>4. QED
      BY <3>1, <3>3 DEF S
  <2>5. QED
    BY <2>3, <2>4
<1>2. CASE does = "propose"
  <2> DEFINE a == IF "curation policy" \in DOMAIN files THEN <<>> ELSE <<"curation policy">>
  <2>1. Order(files, does, id) = a \o <<"candidates">>
    BY <1>2 DEF Order
  <2>2. S = {"curation policy", "candidates"}
    BY <1>2 DEF WrittenBy
  <2> HIDE DEF S
  <2>3. <<>> \in Seq(S)
    OBVIOUS
  <2>9. "curation policy" \in S /\ "candidates" \in S
    BY <2>2
  <2>7. <<"curation policy">> \in Seq(S)
    BY <2>9, OneRow
  <2>8. <<"candidates">> \in Seq(S)
    BY <2>9, OneRow
  <2>6. a = <<>> \/ a = <<"curation policy">>
    OBVIOUS
  <2> HIDE DEF a
  <2>4. a \o <<"candidates">> \in Seq(S) \ {<<>>}
    <3>1. a \in Seq(S)
      BY <2>3, <2>6, <2>7
    <3>2. a \o <<"candidates">> \in Seq(S)
      BY <2>8, <3>1
    <3>3. Len(a \o <<"candidates">>) = Len(a) + 1 /\ Len(a) \in Nat
      BY <2>8, <3>1
    <3>4. QED
      BY <3>2, <3>3
  <2>5. QED
    BY <2>1, <2>4 DEF S
<1>3. CASE does = "review"
  <2>1. Order(files, does, id) = <<"decisions">> /\ S = {"decisions"}
    BY <1>3 DEF Order, WrittenBy
  <2> HIDE DEF S
  <2>2. QED
    BY <2>1 DEF S
<1>4. CASE does = "apply"
  <2>1. Order(files, does, id) = <<"memory", "mutations", "supersession", "applications">>
    BY <1>4 DEF Order
  <2>2. S = {"memory", "mutations", "supersession", "applications"}
    BY <1>4 DEF WrittenBy
  <2> HIDE DEF S
  <2>3. QED
    BY <2>1, <2>2 DEF S
<1>5. CASE does = "mutate"
  <2>1. Order(files, does, id) = <<"memory", "mutations">>
    BY <1>5 DEF Order
  <2>2. S = {"memory", "mutations", "supersession", "applications"}
    BY <1>5 DEF WrittenBy
  <2> HIDE DEF S
  <2>3. QED
    BY <2>1, <2>2 DEF S
<1>6. QED
  BY <1>1, <1>2, <1>3, <1>4, <1>5 DEF Commands

\* A command is about what it may be about.
LEMMA MayType ==
  ASSUME NEW files, IsFiles(files), NEW does \in Commands, NEW id, May(files, does, id)
  PROVE  /\ does = "import" => id \in Imports
         /\ does # "import" => id \in Candidates
         /\ does = "mutate" => VersionOf(files, id) \in Nat
<1>1. /\ Rows(files, "memory") \subseteq [id : Candidates, version : Nat]
      /\ Rows(files, "candidates") \subseteq Candidates /\ Rows(files, "decisions") \subseteq Candidates
  BY RowsType DEF RowIn
<1>2. does = "import" => id \in Imports
  BY DEF May
<1>3. CASE does \in {"propose", "review", "apply"}
  BY <1>1, <1>3 DEF May
<1>4. CASE does = "mutate"
  <2>1. \E r \in Rows(files, "memory") : r.id = id
    BY <1>4 DEF May
  <2>2. QED
    BY <1>1, <1>4, <2>1 DEF VersionOf
<1>5. QED
  BY <1>2, <1>3, <1>4 DEF Commands

-----------------------------------------------------------------------------
(* The inductive invariant.                                                *)

\* Workspaces, archives and origins are of their types, map by map.
DiskOK ==
  /\ workspace = [x \in Paths |-> workspace[x]] /\ \A x \in Paths : IsFiles(workspace[x])
  /\ archive = [x \in Outputs |-> archive[x]] /\ \A x \in Outputs : archive[x] # None => IsArchive(archive[x])
  /\ origin = [x \in Paths |-> origin[x]] /\ \A x \in Paths : origin[x] # None => IsArchive(origin[x])

\* Every process runs an operation, or none.
OpsInv == op = [p \in Procs |-> op[p]] /\ \A p \in Procs : IsOp(op[p])

\* The inductive invariant.
IInv ==
  /\ DiskOK /\ OpsInv /\ (command # Idle => IsCommand(command)) /\ CommandInv /\ RestoredGoverned

\* It gives the type invariant and that what was restored is governed.
LEMMA IInvMeans == IInv => TypeOK /\ RestoredGoverned
BY DEF IInv, DiskOK, OpsInv, IsOp, TypeOK

LEMMA EmptyFiles == IsFiles(Nothing)
BY DEF IsFiles, Nothing

\* It holds initially.
LEMMA InitInv == Init => IInv
<1> SUFFICES ASSUME Init PROVE IInv
  OBVIOUS
<1>1. PICK b \in Beginnings, path \in Paths, output \in Outputs :
        /\ workspace = [x \in Paths |-> IF x = path THEN b.files ELSE Nothing]
        /\ archive = [x \in Outputs |-> IF x = output THEN b.archive ELSE None]
  BY DEF Init
<1>2. IsFiles(b.files) /\ (b.archive # None => IsArchive(b.archive))
  BY ConstantsAssumption
<1>3. DiskOK
  BY <1>1, <1>2, EmptyFiles DEF DiskOK, Init
<1>4. OpsInv
  BY DEF OpsInv, Init, IsOp
<1>5. (command # Idle => IsCommand(command)) /\ CommandInv /\ RestoredGoverned
  BY DEF Init, CommandInv, RestoredGoverned
<1>6. QED
  BY <1>3, <1>4, <1>5 DEF IInv

\* A step of one process that changes no file but its own.
LEMMA OpStep ==
  ASSUME IInv, NEW p \in Procs, NEW next, IsOp(next), Go(p, next), UNCHANGED <<workspace, archive, command, origin>>
  PROVE  IInv'
<1>1. OpsInv'
  BY DEF IInv, OpsInv, Go
<1>2. QED
  BY <1>1 DEF IInv, DiskOK, CommandInv, RestoredGoverned

-----------------------------------------------------------------------------
(* Exporting.                                                              *)

\* One lemma for each action: it keeps the invariant, and what else it does to the export.
LEMMA BeginExportKeeps ==
  ASSUME IInv, NEW p \in Procs, NEW path \in Paths, NEW output \in Outputs, NEW request \in Requests,
         BeginExport(p, path, output, request)
  PROVE  IInv'
<1> DEFINE next == Exporting(path, output, request)
<1>1. request.class \in Classes /\ request.extra \in {None} \cup Enrichments
  BY ConstantsAssumption
<1>2. next.quiet \in BOOLEAN
  BY DEF Exporting
<1>3. IsExport(next)
  BY <1>1, <1>2, EmptyFiles DEF Exporting, IsExport, ExportStages, Nothing
<1>4. ExportStaged(next)
  <2>1. /\ next.at = "check" /\ next.class = request.class
        /\ next.group = 1 /\ next.names = {} /\ next.read = Nothing
    BY DEF Exporting, Nothing
  <2>2. Len(Groups(request.class)) = 4 \/ Len(Groups(request.class)) = 6
    BY <1>1, GroupsAre DEF Classes
  <2> HIDE DEF next
  <2>3. QED
    BY <2>1, <2>2 DEF ExportStaged
<1>5. IsOp(next)
  BY <1>3, <1>4, OpFromParts
<1>6. QED
  BY <1>5, OpStep DEF BeginExport

LEMMA CheckWorkspaceKeeps ==
  ASSUME IInv, NEW p \in Procs, CheckWorkspace(p)
  PROVE  IInv'
<1> DEFINE o == op[p]  next == [o EXCEPT !.at = "count"]
<1>1. IsExport(o) /\ ExportStaged(o) /\ o.at = "check"
  BY StageTells DEF IInv, OpsInv, CheckWorkspace, At, ExportStages
<1>2. IsOp(next)
  <2> HIDE DEF o
  <2>1. "count" \in ExportStages
    BY DEF ExportStages
  <2>2. IsExport(next) /\ next.at = "count" /\ next.class = o.class /\ next.group = o.group
        /\ next.names = o.names /\ next.read = o.read
    BY <1>1, <2>1, ExportTo
  <2> HIDE DEF next
  <2>3. ExportStaged(next)
    BY <1>1, <2>2 DEF ExportStaged
  <2>4. QED
    BY <2>2, <2>3, OpFromParts
<1>3. QED
  BY <1>2, OpStep DEF CheckWorkspace

LEMMA CountMembersKeeps ==
  ASSUME IInv, NEW p \in Procs, CountMembers(p)
  PROVE  IInv'
<1> DEFINE o == op[p]  next == [o EXCEPT !.at = "recheck"]
<1>1. IsExport(o) /\ ExportStaged(o) /\ o.at = "count"
  BY StageTells DEF IInv, OpsInv, CountMembers, At, ExportStages
<1>2. IsOp(next)
  <2> HIDE DEF o
  <2>1. "recheck" \in ExportStages
    BY DEF ExportStages
  <2>2. IsExport(next) /\ next.at = "recheck" /\ next.class = o.class /\ next.group = o.group
        /\ next.names = o.names /\ next.read = o.read
    BY <1>1, <2>1, ExportTo
  <2> HIDE DEF next
  <2>3. ExportStaged(next)
    BY <1>1, <2>2 DEF ExportStaged
  <2>4. QED
    BY <2>2, <2>3, OpFromParts
<1>3. QED
  BY <1>2, OpStep DEF CountMembers

LEMMA RecheckWorkspaceKeeps ==
  ASSUME IInv, NEW p \in Procs, RecheckWorkspace(p)
  PROVE  IInv'
<1> DEFINE o == op[p]  next == [o EXCEPT !.at = "list"]
<1>1. IsExport(o) /\ ExportStaged(o) /\ o.at = "recheck"
  BY StageTells DEF IInv, OpsInv, RecheckWorkspace, At, ExportStages
<1>2. IsOp(next)
  <2> HIDE DEF o
  <2>1. "list" \in ExportStages
    BY DEF ExportStages
  <2>2. IsExport(next) /\ next.at = "list" /\ next.class = o.class /\ next.group = o.group
        /\ next.names = o.names /\ next.read = o.read
    BY <1>1, <2>1, ExportTo
  <2>3. Len(Groups(o.class)) = 4 \/ Len(Groups(o.class)) = 6
    BY <1>1, GroupsAre DEF IsExport, Classes
  <2> HIDE DEF next
  <2>4. ExportStaged(next)
    <3>1. next.group = 1 /\ next.at = "list" /\ next.class = o.class
      BY <1>1, <2>2 DEF ExportStaged
    <3>2. Len(Groups(next.class)) = 4 \/ Len(Groups(next.class)) = 6
      BY <2>3, <3>1
    <3>3. next.group \in 1 .. Len(Groups(next.class)) + 1
      BY <3>1, <3>2
    <3>4. next.group \in 1 .. Len(Groups(next.class))
      <4>1. CASE Len(Groups(next.class)) = 4
        BY <3>1, <4>1
      <4>2. CASE Len(Groups(next.class)) = 6
        BY <3>1, <4>2
      <4>3. QED
        BY <3>2, <4>1, <4>2
    <3>5. QED
      BY <3>1, <3>3, <3>4 DEF ExportStaged
  <2>5. QED
    BY <2>2, <2>4, OpFromParts
<1>3. QED
  BY <1>2, OpStep DEF RecheckWorkspace

LEMMA LookForOutputKeeps ==
  ASSUME IInv, NEW p \in Procs, LookForOutput(p)
  PROVE  IInv'
<1> DEFINE o == op[p]  next == [o EXCEPT !.at = "save"]
<1>1. IsExport(o) /\ ExportStaged(o) /\ o.at = "look"
  BY StageTells DEF IInv, OpsInv, LookForOutput, At, ExportStages
<1>2. IsOp(next)
  <2> HIDE DEF o
  <2>1. "save" \in ExportStages
    BY DEF ExportStages
  <2>2. IsExport(next) /\ next.at = "save" /\ next.class = o.class /\ next.group = o.group
    BY <1>1, <2>1, ExportTo
  <2> HIDE DEF next
  <2>3. ExportStaged(next)
    BY <1>1, <2>2 DEF ExportStaged
  <2>4. QED
    BY <2>2, <2>3, OpFromParts
<1>3. QED
  BY <1>2, OpStep DEF LookForOutput

\* The next stage is right for what has been listed and read.
LEMMA OnwardStaged ==
  ASSUME NEW m, m.group \in 1 .. Len(Groups(m.class)) + 1, m.class \in Classes
  PROVE  /\ Onward(m) \in {"list", "read", "classify"}
         /\ Onward(m) = "list" => m.group \in 1 .. Len(Groups(m.class))
         /\ Onward(m) = "read" => m.names # {}
         /\ Onward(m) = "classify" => m.names = {} /\ m.group = Len(Groups(m.class)) + 1
<1>1. Len(Groups(m.class)) = 4 \/ Len(Groups(m.class)) = 6
  BY GroupsAre DEF Classes
<1>2. QED
  BY <1>1 DEF Onward

LEMMA ListGroupKeeps ==
  ASSUME IInv, NEW p \in Procs, ListGroup(p)
  PROVE  /\ IInv' /\ op[p].at = "list" /\ op'[p].at \in {"list", "read", "classify"} /\ Same(op[p], op'[p])
         /\ op'[p].read = op[p].read /\ op'[p].group = op[p].group + 1
         /\ op'[p].names = op[p].names \cup (Present(op[p].path) \cap Groups(op[p].class)[op[p].group])
                           \cup (IF "memory" \in Groups(op[p].class)[op[p].group] THEN {"memory"} ELSE {})
<1> DEFINE o == op[p]
           group == Groups(o.class)[o.group]
           found == (Present(o.path) \cap group) \cup (IF "memory" \in group THEN {"memory"} ELSE {})
           m == [o EXCEPT !.names = @ \cup found, !.group = @ + 1]
           next == [m EXCEPT !.at = Onward(m)]
<1>1. IsExport(o) /\ ExportStaged(o) /\ o.at = "list"
  BY StageTells DEF IInv, OpsInv, ListGroup, At, ExportStages
<1>2. o.class \in Classes /\ o.names \subseteq Name /\ o.path \in Paths
  BY <1>1 DEF IsExport
<1>3. Len(Groups(o.class)) = 4 \/ Len(Groups(o.class)) = 6
  BY <1>2, GroupsAre DEF Classes
<1>4. o.group \in 1 .. Len(Groups(o.class))
  BY <1>1, <1>3 DEF ExportStaged
<1>5. group \subseteq Name
  BY <1>2, <1>4, GroupsOfNames
<1> DEFINE names == o.names \cup found  onward == o.group + 1
<1>6. names \subseteq Name /\ onward \in Nat
  <2> HIDE DEF group, o
  <2>1. QED
    BY <1>2, <1>4, <1>5
<1>7. /\ IsOp(next) /\ next.at \in {"list", "read", "classify"} /\ Same(o, next)
      /\ next.read = o.read /\ next.group = onward /\ next.names = names
  <2> HIDE DEF found, group, o
  <2> DEFINE stage == Onward(m)
  <2>1. m = [at |-> o.at, path |-> o.path, output |-> o.output, class |-> o.class, extra |-> o.extra,
             group |-> onward, names |-> names, read |-> o.read, quiet |-> o.quiet]
    <3>1. m = [o EXCEPT !.names = names, !.group = onward]
      OBVIOUS
    <3>2. o = [at |-> o.at, path |-> o.path, output |-> o.output, class |-> o.class, extra |-> o.extra,
               group |-> o.group, names |-> o.names, read |-> o.read, quiet |-> o.quiet]
      BY <1>1 DEF IsExport
    <3> HIDE DEF m, names, onward
    <3>3. QED
      BY <3>1, <3>2
  <2>2. m.class = o.class /\ m.group = onward /\ m.names = names
    BY <1>1 DEF IsExport
  <2> HIDE DEF m
  <2>3. m.group \in 1 .. Len(Groups(m.class)) + 1
    BY <1>3, <1>4, <2>2
  <2>4. /\ stage \in {"list", "read", "classify"}
        /\ stage = "list" => m.group \in 1 .. Len(Groups(m.class))
        /\ stage = "read" => m.names # {}
        /\ stage = "classify" => m.names = {} /\ m.group = Len(Groups(m.class)) + 1
    BY <1>2, <2>2, <2>3, OnwardStaged
  <2> HIDE DEF stage
  <2>5. stage \in ExportStages
    BY <2>4 DEF ExportStages
  <2>6. next = [at |-> stage, path |-> o.path, output |-> o.output, class |-> o.class, extra |-> o.extra,
                group |-> onward, names |-> names, read |-> o.read, quiet |-> o.quiet]
    <3>1. next = [m EXCEPT !.at = stage]
      BY DEF stage
    <3> HIDE DEF next, names, onward
    <3>2. QED
      BY <2>1, <3>1
  <2> HIDE DEF next, names, onward
  <2>7. IsExport(next) /\ next.at = stage /\ next.class = o.class /\ next.group = onward
        /\ next.names = names /\ next.read = o.read /\ Same(o, next)
    BY <1>1, <1>6, <2>5, <2>6, ExportLists DEF Same
  <2>8. ExportStaged(next)
    BY <2>2, <2>3, <2>4, <2>7 DEF ExportStaged
  <2>9. QED
    BY <2>4, <2>7, <2>8, OpFromParts
<1>8. Go(p, next) /\ UNCHANGED <<workspace, archive, command, origin>>
  BY DEF ListGroup
<1> HIDE DEF next
<1>9. op'[p] = next
  BY <1>8 DEF IInv, OpsInv, Go
<1>10. names = o.names \cup (Present(o.path) \cap group) \cup (IF "memory" \in group THEN {"memory"} ELSE {})
  <2> HIDE DEF group, o
  <2>1. QED
    OBVIOUS
<1>11. IInv'
  BY <1>7, <1>8, OpStep
<1> HIDE DEF names, onward
<1>12. QED
  BY <1>1, <1>7, <1>9, <1>10, <1>11 DEF onward

LEMMA ReadFileKeeps ==
  ASSUME IInv, NEW p \in Procs, ReadFile(p)
  PROVE  /\ IInv' /\ op[p].at = "read" /\ op'[p].at \in {"list", "read", "classify"} /\ Same(op[p], op'[p])
         /\ op'[p].names = op[p].names \ {First(op[p].names)} /\ op'[p].group = op[p].group
         /\ op'[p].read = With(op[p].read, First(op[p].names), Rows(workspace[op[p].path], First(op[p].names)))
<1> DEFINE o == op[p]
           name == First(o.names)
           names == o.names \ {name}
           read == With(o.read, name, Rows(workspace[o.path], name))
           m == [o EXCEPT !.names = @ \ {name}, !.read = With(@, name, Rows(workspace[o.path], name))]
           next == [m EXCEPT !.at = Onward(m)]
<1>1. IsExport(o) /\ ExportStaged(o) /\ o.at = "read"
  BY StageTells DEF IInv, OpsInv, ReadFile, At, ExportStages
<1>2. o.class \in Classes /\ o.names \subseteq Name /\ o.path \in Paths /\ IsFiles(o.read)
  BY <1>1 DEF IsExport
<1>3. IsFiles(workspace[o.path])
  BY <1>2 DEF IInv, DiskOK
<1>4. name \in Name \cup Shell
  <2>1. name \in Present(o.path) \cup {"memory"}
    BY DEF ReadFile
  <2>2. Present(o.path) \subseteq Name \cup Shell
    BY <1>2, PresentNames, IInvMeans
  <2>3. QED
    BY <2>1, <2>2, NameIs
<1>5. IsFiles(read)
  <2> DEFINE rows == Rows(workspace[o.path], name)
  <2>1. rows \subseteq RowIn(name)
    BY <1>3, RowsType
  <2> HIDE DEF rows, name, o
  <2>2. QED
    BY <1>2, <1>4, <2>1, WithType DEF rows
<1>6. names \subseteq Name
  BY <1>2
<1>7. /\ IsOp(next) /\ next.at \in {"list", "read", "classify"} /\ Same(o, next)
      /\ next.read = read /\ next.group = o.group /\ next.names = names
  <2> DEFINE stage == Onward(m)
  <2>1. m = [at |-> o.at, path |-> o.path, output |-> o.output, class |-> o.class, extra |-> o.extra,
             group |-> o.group, names |-> names, read |-> read, quiet |-> o.quiet]
    <3>1. m = [o EXCEPT !.names = names, !.read = read]
      OBVIOUS
    <3>2. o = [at |-> o.at, path |-> o.path, output |-> o.output, class |-> o.class, extra |-> o.extra,
               group |-> o.group, names |-> o.names, read |-> o.read, quiet |-> o.quiet]
      BY <1>1 DEF IsExport
    <3> HIDE DEF m, names, read, o
    <3>3. QED
      BY <3>1, <3>2
  <2> HIDE DEF m, names, read, o
  <2>2. m.class = o.class /\ m.group = o.group /\ m.names = names
    BY <2>1
  <2>3. m.group \in 1 .. Len(Groups(m.class)) + 1
    BY <1>1, <2>2 DEF ExportStaged
  <2>4. /\ stage \in {"list", "read", "classify"}
        /\ stage = "list" => m.group \in 1 .. Len(Groups(m.class))
        /\ stage = "read" => m.names # {}
        /\ stage = "classify" => m.names = {} /\ m.group = Len(Groups(m.class)) + 1
    BY <1>2, <2>2, <2>3, OnwardStaged
  <2>5. stage \in ExportStages
    <3> HIDE DEF stage
    <3>1. QED
      BY <2>4 DEF ExportStages
  <2>6. next = [m EXCEPT !.at = stage]
    OBVIOUS
  <2> HIDE DEF stage, next
  <2>7. next = [at |-> stage, path |-> o.path, output |-> o.output, class |-> o.class, extra |-> o.extra,
                group |-> o.group, names |-> names, read |-> read, quiet |-> o.quiet]
    BY <2>1, <2>6
  <2>8. IsExport(next) /\ next.at = stage /\ next.class = o.class /\ next.group = o.group /\ next.names = names
        /\ next.read = read /\ Same(o, next)
    BY <1>1, <1>5, <1>6, <2>5, <2>7, ExportReads DEF Same
  <2>9. ExportStaged(next)
    BY <2>2, <2>3, <2>4, <2>8 DEF ExportStaged
  <2>10. QED
    <3>1. stage \in {"list", "read", "classify"}
      BY <2>4
    <3>2. QED
      BY <2>8, <2>9, <3>1, OpFromParts
<1>8. Go(p, next) /\ UNCHANGED <<workspace, archive, command, origin>>
  BY DEF ReadFile
<1> HIDE DEF next
<1>9. op'[p] = next
  BY <1>8 DEF IInv, OpsInv, Go
<1>10. IInv'
  BY <1>7, <1>8, OpStep
<1>11. QED
  BY <1>1, <1>7, <1>9, <1>10

\* A file that is left out is off the list, and nothing is read.
LEMMA SkipFileKeeps ==
  ASSUME IInv, NEW p \in Procs, SkipFile(p)
  PROVE  /\ IInv' /\ op[p].at = "read" /\ op'[p].at \in {"list", "read", "classify"} /\ Same(op[p], op'[p])
         /\ op'[p].names = op[p].names \ {First(op[p].names)} /\ op'[p].group = op[p].group
         /\ op'[p].read = op[p].read
<1> DEFINE o == op[p]
           name == First(o.names)
           names == o.names \ {name}
           m == [o EXCEPT !.names = @ \ {name}]
           next == [m EXCEPT !.at = Onward(m)]
<1>1. IsExport(o) /\ ExportStaged(o) /\ o.at = "read"
  BY StageTells DEF IInv, OpsInv, SkipFile, At, ExportStages
<1>2. o.class \in Classes /\ o.names \subseteq Name /\ o.path \in Paths /\ IsFiles(o.read)
  BY <1>1 DEF IsExport
<1>3. names \subseteq Name
  BY <1>2
<1>4. /\ IsOp(next) /\ next.at \in {"list", "read", "classify"} /\ Same(o, next)
      /\ next.read = o.read /\ next.group = o.group /\ next.names = names
  <2> DEFINE stage == Onward(m)  read == o.read
  <2>1. m = [at |-> o.at, path |-> o.path, output |-> o.output, class |-> o.class, extra |-> o.extra,
             group |-> o.group, names |-> names, read |-> read, quiet |-> o.quiet]
    <3>1. m = [o EXCEPT !.names = names]
      OBVIOUS
    <3>2. o = [at |-> o.at, path |-> o.path, output |-> o.output, class |-> o.class, extra |-> o.extra,
               group |-> o.group, names |-> o.names, read |-> o.read, quiet |-> o.quiet]
      BY <1>1 DEF IsExport
    <3> HIDE DEF m, names, o
    <3>3. QED
      BY <3>1, <3>2
  <2>0. IsFiles(read) /\ read = o.read
    BY <1>2
  <2> HIDE DEF m, names, read, o
  <2>2. m.class = o.class /\ m.group = o.group /\ m.names = names
    BY <2>1
  <2>3. m.group \in 1 .. Len(Groups(m.class)) + 1
    BY <1>1, <2>2 DEF ExportStaged
  <2>4. /\ stage \in {"list", "read", "classify"}
        /\ stage = "list" => m.group \in 1 .. Len(Groups(m.class))
        /\ stage = "read" => m.names # {}
        /\ stage = "classify" => m.names = {} /\ m.group = Len(Groups(m.class)) + 1
    BY <1>2, <2>2, <2>3, OnwardStaged
  <2>5. stage \in ExportStages
    <3> HIDE DEF stage
    <3>1. QED
      BY <2>4 DEF ExportStages
  <2>6. next = [m EXCEPT !.at = stage]
    OBVIOUS
  <2> HIDE DEF stage, next
  <2>7. next = [at |-> stage, path |-> o.path, output |-> o.output, class |-> o.class, extra |-> o.extra,
                group |-> o.group, names |-> names, read |-> read, quiet |-> o.quiet]
    BY <2>1, <2>6
  <2>8. IsExport(next) /\ next.at = stage /\ next.class = o.class /\ next.group = o.group /\ next.names = names
        /\ next.read = read /\ Same(o, next)
    BY <1>1, <1>3, <2>0, <2>5, <2>7, ExportReads DEF Same
  <2>9. ExportStaged(next)
    BY <2>2, <2>3, <2>4, <2>8 DEF ExportStaged
  <2>10. QED
    <3>1. stage \in {"list", "read", "classify"}
      BY <2>4
    <3>2. QED
      BY <2>0, <2>8, <2>9, <3>1, OpFromParts
<1>5. Go(p, next) /\ UNCHANGED <<workspace, archive, command, origin>>
  BY DEF SkipFile
<1> HIDE DEF next
<1>6. op'[p] = next
  BY <1>5 DEF IInv, OpsInv, Go
<1>7. IInv'
  BY <1>4, <1>5, OpStep
<1>8. QED
  BY <1>1, <1>4, <1>6, <1>7

LEMMA ClassifyKeeps ==
  ASSUME IInv, NEW p \in Procs, Classify(p)
  PROVE  /\ IInv' /\ op[p].at = "classify" /\ op'[p].at = "look" /\ Same(op[p], op'[p])
         /\ op'[p].read = IF op[p].extra = None THEN op[p].read ELSE With(op[p].read, "enrichment", {op[p].extra})
<1> DEFINE o == op[p]
           read == IF o.extra = None THEN o.read ELSE With(o.read, "enrichment", {o.extra})
           next == [o EXCEPT !.read = read, !.at = "look"]
<1>1. IsExport(o) /\ ExportStaged(o) /\ o.at = "classify"
  BY StageTells DEF IInv, OpsInv, Classify, At, ExportStages
<1>2. IsFiles(o.read) /\ o.extra \in {None} \cup Enrichments
  BY <1>1 DEF IsExport
<1>3. IsFiles(read)
  <2> HIDE DEF o
  <2>1. CASE o.extra = None
    BY <1>2, <2>1
  <2>2. CASE o.extra # None
    <3> DEFINE rows == {o.extra}
    <3>1. rows \subseteq RowIn("enrichment") /\ "enrichment" \in Name \cup Shell
      BY <1>2, <2>2, NameIs DEF RowIn
    <3>2. read = With(o.read, "enrichment", rows)
      BY <2>2
    <3> HIDE DEF rows
    <3>3. IsFiles(With(o.read, "enrichment", rows))
      BY <1>2, <3>1, WithType
    <3>4. QED
      BY <3>2, <3>3
  <2>3. QED
    BY <2>1, <2>2
<1>4. IsOp(next) /\ next.at = "look" /\ Same(o, next) /\ next.read = read
  <2>1. o = [at |-> o.at, path |-> o.path, output |-> o.output, class |-> o.class, extra |-> o.extra,
             group |-> o.group, names |-> o.names, read |-> o.read, quiet |-> o.quiet]
    BY <1>1 DEF IsExport
  <2>7. next = [o EXCEPT !.read = read, !.at = "look"]
    OBVIOUS
  <2> HIDE DEF o, read, next
  <2>2. next = [at |-> "look", path |-> o.path, output |-> o.output, class |-> o.class, extra |-> o.extra,
                group |-> o.group, names |-> o.names, read |-> read, quiet |-> o.quiet]
    BY <2>1, <2>7
  <2>3. "look" \in ExportStages /\ o.names \subseteq Name
    BY <1>1 DEF ExportStages, IsExport
  <2>4. IsExport(next) /\ next.at = "look" /\ next.class = o.class /\ next.group = o.group
        /\ next.read = read /\ Same(o, next)
    BY <1>1, <1>3, <2>2, <2>3, ExportReads DEF Same
  <2>5. ExportStaged(next)
    BY <1>1, <2>4 DEF ExportStaged
  <2>6. QED
    BY <2>4, <2>5, OpFromParts
<1>5. Go(p, next) /\ UNCHANGED <<workspace, archive, command, origin>>
  BY DEF Classify
<1> HIDE DEF next
<1>6. op'[p] = next
  BY <1>5 DEF IInv, OpsInv, Go
<1>7. IInv'
  BY <1>4, <1>5, OpStep
<1>8. QED
  BY <1>1, <1>4, <1>6, <1>7

LEMMA IdleIsOp == IsOp(Idle)
BY DEF IsOp

LEMMA SaveArchiveKeeps ==
  ASSUME IInv, NEW p \in Procs, SaveArchive(p)
  PROVE  IInv'
<1> DEFINE o == op[p]  a == ArchiveOf(o)
<1>1. IsExport(o)
  BY StageTells DEF IInv, OpsInv, SaveArchive, At, ExportStages
<1>2. IsArchive(a)
  <2>1. a.class = o.class /\ a.known = TRUE /\ a.listed = o.read /\ a.members = o.read
    BY DEF ArchiveOf
  <2>2. a = [class |-> a.class, known |-> a.known, listed |-> a.listed, members |-> a.members]
    BY DEF ArchiveOf
  <2>3. o.class \in Classes /\ IsFiles(o.read)
    BY <1>1 DEF IsExport
  <2> HIDE DEF a
  <2>4. QED
    BY <2>1, <2>2, <2>3 DEF IsArchive
<1>3. archive' = [archive EXCEPT ![o.output] = a] /\ UNCHANGED <<workspace, command, origin>> /\ Go(p, Idle)
  BY DEF SaveArchive
<1>4. DiskOK'
  <2> HIDE DEF a
  <2>1. archive = [x \in Outputs |-> archive[x]] /\ \A x \in Outputs : archive[x] # None => IsArchive(archive[x])
    BY DEF IInv, DiskOK
  <2>2. archive' = [x \in Outputs |-> archive'[x]]
    BY <1>3, <2>1
  <2>3. \A x \in Outputs : archive'[x] = a \/ archive'[x] = archive[x]
    BY <1>3, <2>1
  <2>4. \A x \in Outputs : archive'[x] # None => IsArchive(archive'[x])
    BY <1>2, <2>1, <2>3
  <2>5. QED
    BY <1>3, <2>2, <2>4 DEF IInv, DiskOK
<1>5. OpsInv'
  BY <1>3, IdleIsOp DEF IInv, OpsInv, Go
<1>6. QED
  BY <1>3, <1>4, <1>5 DEF IInv, CommandInv, RestoredGoverned

-----------------------------------------------------------------------------
(* Restoring.                                                              *)

LEMMA BeginRestoreKeeps ==
  ASSUME IInv, NEW p \in Procs, NEW output \in Outputs, NEW path \in Paths, BeginRestore(p, output, path)
  PROVE  IInv'
<1> DEFINE next == Restoring(output, path)
<1>1. IsRestore(next)
  BY DEF Restoring, IsRestore
<1>2. RestoreStaged(next)
  BY DEF Restoring, RestoreStaged
<1>3. IsOp(next)
  BY <1>1, <1>2, OpFromParts
<1>4. QED
  BY <1>3, OpStep DEF BeginRestore

LEMMA OpenArchiveKeeps ==
  ASSUME IInv, NEW p \in Procs, OpenArchive(p)
  PROVE  IInv'
<1> DEFINE o == op[p]  a == archive[o.output]  next == [o EXCEPT !.archive = a, !.at = "write"]
<1>1. IsRestore(o)
  BY StageTells DEF IInv, OpsInv, OpenArchive, At
<1>2. a # None /\ Go(p, next) /\ UNCHANGED <<workspace, archive, command, origin>>
  BY DEF OpenArchive
<1>3. IsArchive(a)
  BY <1>1, <1>2 DEF IInv, DiskOK, IsRestore
<1>4. IsOp(next)
  <2>4. o = [at |-> o.at, path |-> o.path, output |-> o.output, archive |-> o.archive]
    BY <1>1 DEF IsRestore
  <2>6. next = [o EXCEPT !.archive = a, !.at = "write"]
    OBVIOUS
  <2> HIDE DEF a, o, next
  <2>5. next = [at |-> "write", path |-> o.path, output |-> o.output, archive |-> a]
    BY <2>4, <2>6
  <2>1. IsRestore(next) /\ next.at = "write"
    BY <1>1, <1>3, <2>5, RestoreOpens
  <2>2. RestoreStaged(next)
    BY <2>1 DEF RestoreStaged
  <2>3. QED
    BY <2>1, <2>2, OpFromParts
<1> HIDE DEF next
<1>5. QED
  BY <1>2, <1>4, OpStep

LEMMA WriteFilesKeeps ==
  ASSUME IInv, NEW p \in Procs, WriteFiles(p)
  PROVE  IInv'
<1> DEFINE o == op[p]  next == [o EXCEPT !.at = "validate"]
<1>1. IsRestore(o) /\ o.at = "write"
  BY StageTells DEF IInv, OpsInv, WriteFiles, At
<1>2. Writable(o.archive) /\ Go(p, next) /\ UNCHANGED <<workspace, archive, command, origin>>
  BY DEF WriteFiles
<1>3. IsOp(next)
  <2> HIDE DEF o
  <2>1. IsRestore(next) /\ next.at = "validate" /\ next.archive = o.archive
    BY <1>1, RestoreTo
  <2> HIDE DEF next
  <2>2. RestoreStaged(next)
    BY <1>2, <2>1 DEF RestoreStaged
  <2>3. QED
    BY <2>1, <2>2, OpFromParts
<1> HIDE DEF next
<1>4. QED
  BY <1>2, <1>3, OpStep

LEMMA ValidateRestoredKeeps ==
  ASSUME IInv, NEW p \in Procs, ValidateRestored(p)
  PROVE  IInv'
<1> DEFINE o == op[p]  next == [o EXCEPT !.at = "publish"]
<1>1. IsRestore(o) /\ RestoreStaged(o) /\ o.at = "validate"
  BY StageTells DEF IInv, OpsInv, ValidateRestored, At
<1>2. /\ Governed(o.archive.listed, o.archive.class)
      /\ Go(p, next) /\ UNCHANGED <<workspace, archive, command, origin>>
  BY DEF ValidateRestored
<1>3. IsOp(next)
  <2> HIDE DEF o
  <2>1. IsRestore(next) /\ next.at = "publish" /\ next.archive = o.archive
    BY <1>1, RestoreTo
  <2> HIDE DEF next
  <2>2. RestoreStaged(next)
    BY <1>1, <1>2, <2>1 DEF RestoreStaged
  <2>3. QED
    BY <2>1, <2>2, OpFromParts
<1> HIDE DEF next
<1>4. QED
  BY <1>2, <1>3, OpStep

\* What is published is whole and governed, and no command runs there.
LEMMA PublishKeeps ==
  ASSUME IInv, NEW p \in Procs, Publish(p)
  PROVE  IInv'
<1> DEFINE o == op[p]
<1>1. IsRestore(o) /\ RestoreStaged(o) /\ o.at = "publish"
  BY StageTells DEF IInv, OpsInv, Publish, At
<1>2. o.path \in Paths /\ IsArchive(o.archive)
  BY <1>1 DEF IsRestore
<1>3. /\ o.archive.members = o.archive.listed /\ IsFiles(o.archive.members)
      /\ Governed(o.archive.listed, o.archive.class)
  BY <1>1, <1>2 DEF RestoreStaged, Writable, IsArchive
<1>4. /\ workspace[o.path] = Nothing
      /\ workspace' = [workspace EXCEPT ![o.path] = o.archive.members]
      /\ origin' = [origin EXCEPT ![o.path] = o.archive]
      /\ Go(p, Idle) /\ UNCHANGED <<archive, command>>
  BY DEF Publish, Free
<1>5. /\ workspace = [x \in Paths |-> workspace[x]] /\ origin = [x \in Paths |-> origin[x]]
      /\ \A x \in Paths : IsFiles(workspace[x]) /\ (origin[x] # None => IsArchive(origin[x]))
  BY DEF IInv, DiskOK
<1> HIDE DEF o
<1>6. /\ workspace' = [x \in Paths |-> workspace'[x]] /\ origin' = [x \in Paths |-> origin'[x]]
      /\ workspace'[o.path] = o.archive.members /\ origin'[o.path] = o.archive
      /\ \A x \in Paths : x # o.path => workspace'[x] = workspace[x] /\ origin'[x] = origin[x]
  BY <1>2, <1>4, <1>5
<1>7. DiskOK'
  BY <1>2, <1>3, <1>4, <1>5, <1>6 DEF IInv, DiskOK
<1>8. OpsInv'
  BY <1>4, IdleIsOp DEF IInv, OpsInv, Go
<1>9. CommandInv'
  <2>1. CASE command = Idle
    BY <1>4, <2>1 DEF CommandInv
  <2>2. CASE command # Idle
    <3>1. workspace[command.path] # Nothing /\ command.path \in Paths
      BY <2>2 DEF IInv, CommandInv, IsCommand
    <3>2. command.path # o.path
      BY <1>4, <3>1
    <3>3. QED
      BY <1>4, <1>6, <3>1, <3>2 DEF IInv, CommandInv
  <2>3. QED
    BY <2>1, <2>2
<1>10. RestoredGoverned'
  BY <1>3, <1>6 DEF IInv, RestoredGoverned
<1>11. QED
  BY <1>4, <1>7, <1>8, <1>9, <1>10 DEF IInv

LEMMA EndKeeps ==
  ASSUME IInv, NEW p \in Procs, Refuse(p) \/ Crash(p)
  PROVE  IInv'
BY IdleIsOp, OpStep DEF Refuse, Crash

-----------------------------------------------------------------------------
(* The other commands keep the invariant.                                  *)

LEMMA BeginCommandKeeps ==
  ASSUME IInv, NEW path \in Paths, NEW does \in Commands, NEW id \in Imports \cup Candidates,
         BeginCommand(path, does, id)
  PROVE  IInv'
<1> DEFINE files == workspace[path]
           todo == Order(files, does, id)
           version == IF does = "mutate" THEN VersionOf(files, id) + 1 ELSE 0
           next == [at |-> "stage", path |-> path, does |-> does, id |-> id, todo |-> todo, version |-> version]
<1>1. /\ command' = next /\ files # Nothing /\ May(files, does, id)
      /\ origin' = [origin EXCEPT ![path] = None] /\ UNCHANGED <<workspace, archive>>
      /\ op' = [p \in Procs |->
                   IF "quiet" \in DOMAIN op[p] /\ op[p].path = path THEN [op[p] EXCEPT !.quiet = FALSE] ELSE op[p]]
  BY DEF BeginCommand
<1>2. IsFiles(files)
  BY DEF IInv, DiskOK
<1>3. todo \in Seq(WrittenBy(does)) \ {<<>>}
  BY <1>1, <1>2, OrderType
<1>4. version \in Nat /\ (does = "import" => id \in Imports) /\ (does # "import" => id \in Candidates)
  <2> HIDE DEF files
  <2>1. /\ does = "import" => id \in Imports
        /\ does # "import" => id \in Candidates
        /\ does = "mutate" => VersionOf(files, id) \in Nat
    BY <1>1, <1>2, MayType
  <2>2. QED
    BY <2>1
<1>5. IsCommand(next)
  <2>1. todo \in Seq(Name) \ {<<>>}
    <3> HIDE DEF todo
    <3>1. QED
      BY <1>3, WrittenByNames
  <2> HIDE DEF todo, version
  <2>2. QED
    BY <1>4, <2>1 DEF IsCommand, Commands
<1>6. DiskOK'
  <2>1. origin' = [x \in Paths |-> IF x = path THEN None ELSE origin[x]]
    BY <1>1 DEF IInv, DiskOK
  <2>2. QED
    BY <1>1, <2>1 DEF IInv, DiskOK
<1>7. OpsInv'
  <2>1. ASSUME NEW p \in Procs PROVE IsOp(op'[p])
    <3>1. IsOp(op[p])
      BY DEF IInv, OpsInv
    <3>2. CASE "quiet" \in DOMAIN op[p] /\ op[p].path = path
      <4> DEFINE n == [op[p] EXCEPT !.quiet = FALSE]  o == op[p]
      <4>1. IsExport(o) /\ ExportStaged(o)
        BY <3>1, <3>2 DEF IsOp, Idle
      <4>2. n = [o EXCEPT !.quiet = FALSE] /\ op'[p] = n
        BY <1>1, <3>2
      <4> HIDE DEF n, o
      <4>3. IsExport(n) /\ n.at = o.at /\ n.class = o.class /\ n.group = o.group
            /\ n.names = o.names /\ n.read = o.read
        BY <4>1, <4>2, ExportDisturbed
      <4>4. ExportStaged(n)
        BY <4>1, <4>3 DEF ExportStaged
      <4>5. QED
        BY <4>2, <4>3, <4>4, OpFromParts
    <3>3. CASE ~ ("quiet" \in DOMAIN op[p] /\ op[p].path = path)
      BY <1>1, <3>1, <3>3
    <3>4. QED
      BY <3>2, <3>3
  <2>2. op' = [p \in Procs |-> op'[p]]
    BY <1>1
  <2>3. QED
    BY <2>1, <2>2 DEF OpsInv
<1>8. CommandInv'
  <2>1. command'.path = path /\ command'.does = does /\ command'.todo = todo
    BY <1>1
  <2>2. origin'[path] = None
    BY <1>1 DEF IInv, DiskOK
  <2> HIDE DEF todo
  <2>3. QED
    BY <1>1, <1>3, <2>1, <2>2 DEF CommandInv
<1>9. RestoredGoverned'
  <2>1. \A x \in Paths : origin'[x] # None => origin'[x] = origin[x]
    BY <1>1 DEF IInv, DiskOK
  <2>2. QED
    BY <1>1, <2>1 DEF IInv, RestoredGoverned
<1>10. QED
  <2> HIDE DEF next
  <2>1. QED
    BY <1>1, <1>5, <1>6, <1>7, <1>8, <1>9 DEF IInv

\* The files of one path change: with what may be there, and nothing restored.
LEMMA WorkspaceStep ==
  ASSUME IInv, NEW path \in Paths, NEW files, IsFiles(files), origin[path] = None,
         workspace' = [workspace EXCEPT ![path] = files], UNCHANGED <<archive, op, origin>>
  PROVE  DiskOK' /\ OpsInv' /\ RestoredGoverned' /\ workspace'[path] = files
<1>1. workspace' = [x \in Paths |-> IF x = path THEN files ELSE workspace[x]]
  BY DEF IInv, DiskOK
<1>2. DiskOK'
  BY <1>1 DEF IInv, DiskOK
<1>3. RestoredGoverned'
  BY <1>1 DEF IInv, RestoredGoverned
<1>4. QED
  BY <1>1, <1>2, <1>3 DEF IInv, OpsInv

\* A command that has its temporary file ready, or half of a file it writes in place.
LEMMA StageFileKeeps ==
  ASSUME IInv, StageFile
  PROVE  IInv'
<1> DEFINE c == command  name == Head(c.todo)
           files == IF name \in InPlace THEN With(workspace[c.path], name, {Torn}) ELSE workspace[c.path]
<1>1. /\ command' = [command EXCEPT !.at = "replace"]
      /\ workspace' = IF name \in InPlace
                        THEN [workspace EXCEPT ![c.path] = With(@, name, {Torn})] ELSE workspace
      /\ command # Idle /\ UNCHANGED <<archive, op, origin>>
  BY DEF StageFile, Idle
<1>2. IsCommand(command)
  BY <1>1 DEF IInv
<1>3. /\ IsCommand(command') /\ command'.path = command.path
      /\ command'.does = command.does /\ command'.todo = command.todo
  BY <1>1, <1>2 DEF IsCommand
<1>4. c.path \in Paths /\ origin[c.path] = None /\ workspace[c.path] # Nothing
  BY <1>1, <1>2 DEF IInv, IsCommand, CommandInv
<1>5. IsFiles(workspace[c.path])
  BY <1>4 DEF IInv, DiskOK
<1>6. workspace' = [workspace EXCEPT ![c.path] = files]
  BY <1>1, <1>4 DEF IInv, DiskOK
<1>7. IsFiles(files) /\ files # Nothing
  <2>1. CASE name \in InPlace
    <3> DEFINE rows == {Torn}  old == workspace[c.path]
    <3>1. name \in Name \cup Shell /\ rows \subseteq RowIn(name)
      BY <2>1, NameIs DEF InPlace, RowIn
    <3>2. files = With(old, name, rows)
      BY <2>1
    <3> HIDE DEF old, name, rows, files
    <3>3. IsFiles(files)
      BY <1>5, <3>1, <3>2, WithType DEF old
    <3>4. files # Nothing
      BY <3>2, WithIs
    <3>5. QED
      BY <3>3, <3>4
  <2>2. CASE name \notin InPlace
    BY <1>4, <1>5, <2>2
  <2>3. QED
    BY <2>1, <2>2
<1> HIDE DEF files
<1>8. DiskOK' /\ OpsInv' /\ RestoredGoverned' /\ workspace'[c.path] = files
  BY <1>1, <1>4, <1>6, <1>7, WorkspaceStep
<1>9. CommandInv'
  BY <1>1, <1>3, <1>7, <1>8 DEF IInv, CommandInv
<1>10. QED
  BY <1>3, <1>8, <1>9 DEF IInv

\* A command writes rows of the kind the file has.
LEMMA WrittenType ==
  ASSUME NEW files, IsFiles(files), IsCommand(command), command.does \in Commands,
         NEW name \in WrittenBy(command.does)
  PROVE  Written(files, name) \subseteq RowIn(name)
<1> DEFINE row == [id |-> command.id, version |-> command.version]
<1>1. /\ command.version \in Nat
      /\ command.does = "import" => command.id \in Imports
      /\ command.does # "import" => command.id \in Candidates
  BY DEF IsCommand, Commands
<1>2. \A n : Rows(files, n) \subseteq RowIn(n)
  BY RowsType
<1>3. CASE command.does \in {"apply", "mutate"}
  <2>1. row \in [id : Candidates, version : Nat]
    BY <1>1, <1>3
  <2>2. name \in {"memory", "mutations", "applications"} \/ name = "supersession"
    BY <1>3 DEF WrittenBy
  <2>3. CASE name \in {"memory", "mutations", "applications"}
    <3>1. RowIn(name) = [id : Candidates, version : Nat]
      BY <2>3 DEF RowIn
    <3>2. name = "memory" /\ (\E r \in Rows(files, name) : r.id = row.id) => files[name] = Rows(files, name)
      BY DEF Rows
    <3>3. Written(files, name) \subseteq Rows(files, name) \cup {row}
      BY <2>3, <3>2 DEF Written
    <3>4. QED
      BY <1>2, <2>1, <3>1, <3>3
  <2>4. CASE name = "supersession"
    <3>1. Written(files, name) = Rows(files, name)
      BY <2>4 DEF Written
    <3>2. QED
      BY <1>2, <3>1
  <2>5. QED
    BY <2>2, <2>3, <2>4
<1>4. CASE command.does \in {"propose", "review"}
  <2>1. name \in {"candidates", "decisions", "curation policy"}
    BY <1>4 DEF WrittenBy
  <2>2. CASE name = "curation policy"
    BY <2>2 DEF Written
  <2>3. CASE name \in {"candidates", "decisions"}
    <3>1. Written(files, name) = Rows(files, name) \cup {command.id}
      BY <1>4, <2>3 DEF Written
    <3>2. RowIn(name) = Candidates
      BY <2>3 DEF RowIn
    <3>3. QED
      BY <1>1, <1>2, <1>4, <3>1, <3>2
  <2>4. QED
    BY <2>1, <2>2, <2>3
<1>5. CASE command.does = "import"
  <2>1. name \in {"snapshots", "content", "observations", "receipts", "index"}
    BY <1>5 DEF WrittenBy
  <2>2. RowIn(name) = Imports \cup {Torn} /\ RowIn("observations") = Imports \cup {Torn}
    BY <2>1 DEF RowIn
  <2>3. CASE name = "index"
    <3>1. Written(files, name) = Rows(files, "observations") \cap EvidenceImports
      BY <1>5, <2>3 DEF Written
    <3>2. QED
      BY <1>2, <2>2, <3>1
  <2>4. CASE name # "index"
    <3>1. Written(files, name) = Rows(files, name) \cup {command.id}
      BY <1>5, <2>1, <2>4 DEF Written
    <3>2. QED
      BY <1>1, <1>2, <1>5, <2>2, <3>1
  <2>5. QED
    BY <2>3, <2>4
<1>6. QED
  BY <1>3, <1>4, <1>5 DEF Commands

LEMMA ReplaceFileKeeps ==
  ASSUME IInv, ReplaceFile
  PROVE  IInv'
<1> DEFINE c == command  name == Head(c.todo)  todo == Tail(c.todo)
           rows == Written(workspace[c.path], name)
           files == With(workspace[c.path], name, rows)
           stage == IF c.does = "apply" THEN "replace" ELSE "stage"
<1>1. /\ workspace' = [workspace EXCEPT ![c.path] = files]
      /\ command' = IF todo = <<>> THEN Idle ELSE [c EXCEPT !.todo = todo, !.at = stage]
      /\ c # Idle /\ UNCHANGED <<archive, op, origin>>
  BY DEF ReplaceFile, Idle
<1>2. IsCommand(c) /\ c.path \in Paths /\ c.todo \in Seq(Name) \ {<<>>}
  BY <1>1 DEF IInv, IsCommand
<1>3. /\ workspace[c.path] # Nothing /\ origin[c.path] = None
      /\ c.does \in Commands /\ c.todo \in Seq(WrittenBy(c.does))
  BY <1>1 DEF IInv, CommandInv
<1>4. /\ name \in Name /\ name \in WrittenBy(c.does)
      /\ todo \in Seq(Name) /\ todo \in Seq(WrittenBy(c.does))
  <2> DEFINE s == c.todo  A == WrittenBy(c.does)
  <2>1. s \in Seq(Name) /\ s \in Seq(A) /\ s # <<>>
    BY <1>2, <1>3
  <2> HIDE DEF A, s
  <2>2. Head(s) \in Name /\ Head(s) \in A /\ Tail(s) \in Seq(Name) /\ Tail(s) \in Seq(A)
    BY <2>1
  <2>3. QED
    BY <2>2 DEF A, s
<1>5. IsFiles(workspace[c.path])
  BY <1>2 DEF IInv, DiskOK
<1>6. IsFiles(files)
  <2>1. rows \subseteq RowIn(name)
    BY <1>2, <1>3, <1>4, <1>5, WrittenType
  <2> HIDE DEF rows, name
  <2>2. QED
    BY <1>4, <1>5, <2>1, WithType
<1>7. files # Nothing
  <2> HIDE DEF rows, name
  <2>1. DOMAIN files = DOMAIN workspace[c.path] \cup {name}
    BY DEF With
  <2>2. DOMAIN Nothing = {}
    BY DEF Nothing
  <2>3. QED
    BY <2>1, <2>2
<1> HIDE DEF files
<1>8. DiskOK' /\ OpsInv' /\ RestoredGoverned' /\ workspace'[c.path] = files
  BY <1>1, <1>2, <1>3, <1>6, WorkspaceStep
<1>9. CASE todo = <<>>
  BY <1>1, <1>8, <1>9 DEF IInv, CommandInv
<1>10. CASE todo # <<>>
  <2> DEFINE n == command'
  <2>1. c = [at |-> c.at, path |-> c.path, does |-> c.does, id |-> c.id, todo |-> c.todo, version |-> c.version]
    BY <1>2 DEF IsCommand
  <2> HIDE DEF todo, stage
  <2>2. n = [c EXCEPT !.todo = todo, !.at = stage]
    BY <1>1, <1>10
  <2> HIDE DEF n, c
  <2>3. n = [at |-> stage, path |-> c.path, does |-> c.does, id |-> c.id, todo |-> todo, version |-> c.version]
    BY <2>1, <2>2
  <2>4. stage \in {"stage", "replace"}
    BY DEF stage
  <2>5. IsCommand(n)
    BY <1>2, <1>4, <1>10, <2>3, <2>4 DEF IsCommand
  <2>6. CommandInv'
    BY <1>1, <1>3, <1>4, <1>7, <1>8, <2>3 DEF CommandInv, n, c
  <2>7. QED
    BY <1>8, <2>5, <2>6 DEF IInv, n
<1>11. QED
  BY <1>9, <1>10

LEMMA CrashCommandKeeps ==
  ASSUME IInv, CrashCommand
  PROVE  IInv'
<1> DEFINE c == command  old == workspace[c.path]
           left == [n \in DOMAIN old \cup Staged |-> IF n \in Staged THEN {} ELSE old[n]]
<1>1. /\ workspace' = [workspace EXCEPT ![c.path] = left]
      /\ command' = Idle /\ c # Idle /\ UNCHANGED <<archive, op, origin>>
  BY DEF CrashCommand
<1>2. c.path \in Paths /\ origin[c.path] = None
  BY <1>1 DEF IInv, IsCommand, CommandInv
<1>3. IsFiles(old)
  BY <1>2 DEF IInv, DiskOK
<1>4. IsFiles(left)
  <2>1. DOMAIN left = DOMAIN old \cup Staged
    OBVIOUS
  <2>2. DOMAIN left \subseteq Name \cup Shell
    BY <1>3, <2>1, StagedNames DEF IsFiles
  <2>3. \A n \in DOMAIN left : left[n] \subseteq RowIn(n)
    BY <1>3, <2>1 DEF IsFiles
  <2>4. QED
    BY <2>2, <2>3 DEF IsFiles
<1> HIDE DEF left
<1>5. DiskOK' /\ OpsInv' /\ RestoredGoverned'
  BY <1>1, <1>2, <1>4, WorkspaceStep
<1>6. QED
  BY <1>1, <1>5 DEF IInv, CommandInv

-----------------------------------------------------------------------------
(* The invariant is inductive.                                             *)

\* Every step keeps the invariant.
LEMMA StepKeeps == IInv /\ [Next]_vars => IInv'
<1> SUFFICES ASSUME IInv, [Next]_vars PROVE IInv'
  OBVIOUS
<1>1. CASE UNCHANGED vars
  BY <1>1 DEF vars, IInv, DiskOK, OpsInv, CommandInv, RestoredGoverned
<1>2. CASE Command
  BY <1>2, BeginCommandKeeps, StageFileKeeps, ReplaceFileKeeps, CrashCommandKeeps DEF Command, Commands
<1>3. ASSUME NEW p \in Procs,
             \/ \E path \in Paths, output \in Outputs, request \in Requests : BeginExport(p, path, output, request)
             \/ \E path \in Paths, output \in Outputs : BeginRestore(p, output, path)
             \/ Export(p) \/ Restore(p) \/ Refuse(p) \/ Crash(p)
      PROVE  IInv'
  <2>1. CASE Export(p)
    BY <2>1, CheckWorkspaceKeeps, CountMembersKeeps, RecheckWorkspaceKeeps, ListGroupKeeps, ReadFileKeeps,
       SkipFileKeeps, ClassifyKeeps, LookForOutputKeeps, SaveArchiveKeeps DEF Export
  <2>2. CASE Restore(p)
    BY <2>2, OpenArchiveKeeps, WriteFilesKeeps, ValidateRestoredKeeps, PublishKeeps DEF Restore
  <2>3. QED
    BY <1>3, <2>1, <2>2, BeginExportKeeps, BeginRestoreKeeps, EndKeeps
<1>4. QED
  BY <1>1, <1>2, <1>3 DEF Next

\* So it always holds.
LEMMA Inductive == Spec => []IInv
BY InitInv, StepKeeps, PTL DEF Spec

-----------------------------------------------------------------------------
(* Continuity classes are closed under what the validators look up.        *)

\* The member an enrichment that is given makes.
Added(extra) == IF extra = None THEN {} ELSE {"enrichment"}

\* The names a class takes wherever they are.
Taken(class) ==
  IF class = "full" THEN Name ELSE Name \ {"enrichment", "memory temp", "staging temp", "index", "content"}

\* A file a class takes is in the payload when it is there; the memory always is.
LEMMA PayloadOf ==
  ASSUME NEW class \in Classes, NEW names, NEW n \in Taken(class)
  PROVE  n \in Payload(class, names) <=> n \in names \cup {"memory"}
<1>1. \E i \in DOMAIN Groups(class) : n \in Groups(class)[i]
  <2>1. CASE class = "minimum"
    <3>0. DOMAIN Groups("minimum") = 1 .. 4
      BY GroupsAre, DomainOfGroups DEF Classes
    <3>1. 1 \in DOMAIN Groups(class) /\ 2 \in DOMAIN Groups(class) /\ 3 \in DOMAIN Groups(class) /\ 4 \in DOMAIN Groups(class)
      BY <2>1, <3>0
    <3>2. n \in Base \/ n \in CurationTree \/ n \in ReceiptsTree \/ n \in {"observations"}
      BY <2>1, NameIs DEF Base, CurationTree, ReceiptsTree, Taken
    <3>3. QED
      BY <2>1, <3>1, <3>2, GroupsAre
  <2>2. CASE class = "full"
    <3>0. DOMAIN Groups("full") = 1 .. 6
      BY GroupsAre, DomainOfGroups DEF Classes
    <3>1. /\ 1 \in DOMAIN Groups(class) /\ 2 \in DOMAIN Groups(class) /\ 3 \in DOMAIN Groups(class)
          /\ 4 \in DOMAIN Groups(class) /\ 5 \in DOMAIN Groups(class) /\ 6 \in DOMAIN Groups(class)
      BY <2>2, <3>0
    <3>2. \/ n \in Base \/ n \in CurationTree \/ n \in ReceiptsTree \/ n \in {"memory temp", "memory"}
          \/ n \in {"staging temp", "index", "content", "observations"} \/ n \in {"enrichment"}
      BY <2>2, NameIs DEF Base, CurationTree, ReceiptsTree, Taken
    <3>3. QED
      BY <2>2, <3>1, <3>2, GroupsAre
  <2>3. QED
    BY <2>1, <2>2 DEF Classes
<1>2. QED
  BY <1>1 DEF Payload

\* What has been collected of files that are governed is governed.
LEMMA CollectedGoverned ==
  ASSUME NEW class \in Classes, NEW files, Governed(files, class), NEW extra \in {None} \cup Enrichments,
         NEW read, DOMAIN read = Payload(class, DOMAIN files) \cup Added(extra),
         \A n \in DOMAIN read : read[n] = IF n \in Added(extra) THEN {extra} ELSE Rows(files, n)
  PROVE  Governed(read, class)
<1>1. ASSUME NEW n \in Taken(class), n # "enrichment"
      PROVE  /\ n \in DOMAIN read <=> n \in DOMAIN files \cup {"memory"}
             /\ Rows(read, n) = Rows(files, n)
  <2>1. n \notin Added(extra)
    BY <1>1 DEF Added
  <2>2. n \in DOMAIN read <=> n \in DOMAIN files \cup {"memory"}
    BY <2>1, PayloadOf
  <2>3. n \in DOMAIN read => read[n] = Rows(files, n)
    BY <2>1
  <2>4. n \in DOMAIN read => Rows(read, n) = Rows(files, n)
    BY <2>3 DEF Rows
  <2>5. n \notin DOMAIN read => Rows(read, n) = Rows(files, n)
    BY <2>2 DEF Rows
  <2>6. QED
    BY <2>2, <2>4, <2>5, Zenon
<1>2. \A n \in {"memory", "observations", "candidates", "decisions", "applications", "mutations",
               "curation policy", "policy"} : n \in Taken(class) /\ n # "enrichment"
  BY NameIs DEF Taken
<1>3. /\ Rows(read, "memory") = Rows(files, "memory")
      /\ Rows(read, "observations") = Rows(files, "observations")
      /\ Rows(read, "candidates") = Rows(files, "candidates")
      /\ Rows(read, "decisions") = Rows(files, "decisions")
      /\ Rows(read, "applications") = Rows(files, "applications")
      /\ Rows(read, "mutations") = Rows(files, "mutations")
      /\ Rows(read, "curation policy") = Rows(files, "curation policy")
  BY <1>1, <1>2
<1>4. "policy" \in DOMAIN files => "policy" \in DOMAIN read
  BY <1>1, <1>2
<1>5. "curation policy" \in DOMAIN read => "curation policy" \in DOMAIN files
  BY <1>1, <1>2
<1>6. MemoryValidates(read)
  BY <1>3, <1>4 DEF Governed, MemoryValidates
<1>7. CurationValidates(files) => CurationValidates(read)
  <2>1. \A id : Revisions(read, id) = Revisions(files, id)
    BY <1>3 DEF Revisions
  <2>2. QED
    BY <1>3, <2>1 DEF CurationValidates
<1>8. EnrichmentValidates(read)
  <2>1. CASE extra # None
    <3>1. "enrichment" \in Added(extra)
      BY <2>1 DEF Added
    <3>2. read["enrichment"] = {extra}
      BY <3>1
    <3>3. QED
      BY <2>1, <3>1, <3>2 DEF EnrichmentValidates, Rows
  <2>2. CASE extra = None
    <3>1. \A n \in DOMAIN read : read[n] = Rows(files, n)
      BY <2>2 DEF Added
    <3>2. Rows(read, "enrichment") \subseteq Rows(files, "enrichment")
      BY <3>1 DEF Rows
    <3>3. QED
      BY <3>2 DEF Governed, EnrichmentValidates
  <2>3. QED
    BY <2>1, <2>2
<1>9. ASSUME class = "full" PROVE EvidenceValidates(read)
  <2>1. \A n \in {"receipts", "observations", "content", "snapshots", "index"} : n \in Taken(class) /\ n # "enrichment" /\ n # "memory"
    BY <1>9, NameIs DEF Taken
  <2>2. /\ Rows(read, "receipts") = Rows(files, "receipts") /\ Rows(read, "observations") = Rows(files, "observations")
        /\ Rows(read, "content") = Rows(files, "content") /\ Rows(read, "snapshots") = Rows(files, "snapshots")
        /\ Rows(read, "index") = Rows(files, "index")
    BY <1>1, <1>9, <2>1
  <2>3. "index" \in DOMAIN files => "index" \in DOMAIN read /\ read["index"] = files["index"]
    <3>1. "index" \in DOMAIN files => "index" \in DOMAIN read
      BY <1>1, <1>9, <2>1
    <3>2. QED
      BY <2>2, <3>1 DEF Rows
  <2>4. EvidenceValidates(files)
    BY <1>9 DEF Governed
  <2>5. QED
    BY <2>2, <2>3, <2>4 DEF EvidenceValidates
<1>10. QED
  BY <1>5, <1>6, <1>7, <1>8, <1>9 DEF Governed

\* The first of some names is one of them.
LEMMA FirstIn ==
  ASSUME NEW names, names \subseteq Name, names # {}
  PROVE  First(names) \in names
<1> DEFINE below == OpToRel(<, Nat)  positions == {Position(n) : n \in names}
<1>1. \A n \in Name : Position(n) \in DOMAIN Names
  BY DEF Name, Position
<1>2. DOMAIN Names \subseteq Nat
  BY Z3 DEF Names
<1>3. positions \subseteq Nat /\ positions # {}
  BY <1>1, <1>2
<1>4. IsWellFoundedOn(below, Nat)
  BY NatLessThanWellFounded
<1>5. \A x, y \in Nat : y < x => <<y, x>> \in below
  BY DEF OpToRel
<1>6. PICK least \in positions : \A y \in positions : ~ (<<y, least>> \in below)
  <2> HIDE DEF below, positions
  <2>1. QED
    BY <1>3, <1>4, WFMin
<1>7. PICK n \in names : least = Position(n)
  BY <1>6
<1>8. ASSUME NEW m \in names PROVE Position(n) <= Position(m)
  <2>1. Position(m) \in positions /\ Position(m) \in Nat /\ Position(n) \in Nat
    BY <1>3, <1>7
  <2>2. ~ (Position(m) < Position(n))
    BY <1>5, <1>6, <1>7, <2>1
  <2>3. QED
    BY <2>1, <2>2
<1>9. QED
  BY <1>8 DEF First

-----------------------------------------------------------------------------
(* What an export has collected of a workspace that nothing else changes.  *)

\* The names an export has listed before the group g.
ListedBefore(class, g, names) ==
  (IF g = 1 THEN {} ELSE {"memory"}) \cup {n \in names : \E i \in 1 .. g - 1 : n \in Groups(class)[i]}

\* Before the first group nothing is listed.
LEMMA ListedNone ==
  ASSUME NEW class, NEW names
  PROVE  ListedBefore(class, 1, names) = {}
BY DEF ListedBefore

\* One group more.
LEMMA ListedNext ==
  ASSUME NEW class \in Classes, NEW names, NEW g \in 1 .. Len(Groups(class))
  PROVE  ListedBefore(class, g + 1, names) =
           ListedBefore(class, g, names) \cup (names \cap Groups(class)[g])
           \cup (IF "memory" \in Groups(class)[g] THEN {"memory"} ELSE {})
<1>1. Len(Groups(class)) = 4 \/ Len(Groups(class)) = 6
  BY GroupsAre DEF Classes
<1>2. g \in Nat /\ g + 1 # 1 /\ 1 .. (g + 1) - 1 = 1 .. g /\ 1 .. g = (1 .. g - 1) \cup {g}
  BY <1>1
<1>3. g = 1 => "memory" \in Groups(class)[g]
  BY GroupsAre DEF Classes, Base
<1> DEFINE groups == Groups(class)
<1>4. {n \in names : \E i \in 1 .. g : n \in groups[i]} =
        {n \in names : \E i \in 1 .. g - 1 : n \in groups[i]} \cup (names \cap groups[g])
  <2> HIDE DEF groups
  <2>1. QED
    BY <1>2
<1>5. ListedBefore(class, g + 1, names) = {"memory"} \cup {n \in names : \E i \in 1 .. g : n \in groups[i]}
  BY <1>2 DEF ListedBefore
<1>6. ListedBefore(class, g, names) =
        (IF g = 1 THEN {} ELSE {"memory"}) \cup {n \in names : \E i \in 1 .. g - 1 : n \in groups[i]}
  BY DEF ListedBefore
<1> HIDE DEF groups
<1>7. QED
  BY <1>3, <1>4, <1>5, <1>6 DEF groups

\* After the last group the payload is listed.
LEMMA ListedAll ==
  ASSUME NEW class \in Classes, NEW names
  PROVE  ListedBefore(class, Len(Groups(class)) + 1, names) = Payload(class, names)
<1>1. Len(Groups(class)) = 4 \/ Len(Groups(class)) = 6
  BY GroupsAre DEF Classes
<1> DEFINE l == Len(Groups(class))
<1>2. l + 1 # 1 /\ 1 .. (l + 1) - 1 = 1 .. l
  BY <1>1
<1>3. DOMAIN Groups(class) = 1 .. l
  BY DomainOfGroups
<1> HIDE DEF l
<1>4. ListedBefore(class, l + 1, names) = Payload(class, names)
  BY <1>2, <1>3 DEF ListedBefore, Payload
<1>5. QED
  BY <1>4 DEF l

\* What is listed was there, or is the memory.
LEMMA ListedIn ==
  ASSUME NEW class, NEW g, NEW names
  PROVE  ListedBefore(class, g, names) \subseteq names \cup {"memory"}
BY DEF ListedBefore

\* The members of an archive are as few as the reader allows.
Few(class, extra, names) == Cardinality(Payload(class, names) \cup Added(extra)) + 2 <= MaxMembers

\* What an export knows of the files of its workspace, by its stage.
Holds(o, files) ==
  /\ o.at # "check" => Governed(files, o.class)
  /\ o.at \notin {"check", "count"} => Few(o.class, o.extra, DOMAIN files)
  /\ o.at \in {"recheck", "list", "read", "classify"} =>
       /\ o.names \cup DOMAIN o.read = ListedBefore(o.class, o.group, DOMAIN files)
       /\ \A n \in DOMAIN o.read : o.read[n] = Rows(files, n)
  /\ o.at \in {"look", "save"} =>
       /\ DOMAIN o.read = Payload(o.class, DOMAIN files) \cup Added(o.extra)
       /\ \A n \in DOMAIN o.read : o.read[n] = IF n \in Added(o.extra) THEN {o.extra} ELSE Rows(files, n)

\* An undisturbed export: no command runs there, and what it holds is what the workspace holds.
Undisturbed(o) ==
  /\ command = Idle \/ command.path # o.path
  /\ workspace[o.path] # Nothing
  /\ Holds(o, workspace[o.path])

QuietInv == \A p \in Procs : IsExport(op[p]) /\ op[p].quiet => Undisturbed(op[p])

\* Nothing but what is there is seen.
LEMMA PresentQuiet ==
  ASSUME NEW o, Undisturbed(o)
  PROVE  Present(o.path) = DOMAIN workspace[o.path]
BY DEF Undisturbed, Present

\* For it, counting the members is counting the workspace's files.
LEMMA FitsQuiet ==
  ASSUME NEW o, Undisturbed(o)
  PROVE  Fits(o) <=> Few(o.class, o.extra, DOMAIN workspace[o.path])
BY PresentQuiet DEF Fits, Few, Added

\* One process moves, and the workspaces and the command stay.
LEMMA QuietGo ==
  ASSUME IInv, QuietInv, NEW p \in Procs, NEW n, Go(p, n), UNCHANGED <<workspace, command>>,
         IsExport(n) /\ n.quiet => Undisturbed(n)
  PROVE  QuietInv'
<1> SUFFICES ASSUME NEW q \in Procs, IsExport(op'[q]), op'[q].quiet PROVE Undisturbed(op[q])'
  BY DEF QuietInv
<1>1. op' = [x \in Procs |-> IF x = p THEN n ELSE op[x]]
  BY DEF IInv, OpsInv, Go
<1>2. Undisturbed(op'[q])
  <2>1. CASE q = p
    BY <1>1, <2>1
  <2>2. CASE q # p
    BY <1>1, <2>2 DEF QuietInv
  <2>3. QED
    BY <2>1, <2>2
<1>3. QED
  BY <1>2 DEF Undisturbed

LEMMA IdleNotExport == ~ IsExport(Idle)
BY Kinds

\* A process that ends, or restores, does not matter.
LEMMA QuietEnd ==
  ASSUME IInv, QuietInv, NEW p \in Procs, NEW n, Go(p, n), ~ IsExport(n), UNCHANGED <<workspace, command>>
  PROVE  QuietInv'
BY QuietGo

\* One lemma for each action of an export, and one for each other kind of step.
LEMMA QuietBeginExport ==
  ASSUME IInv, QuietInv, NEW p \in Procs, NEW path \in Paths, NEW output \in Outputs, NEW request \in Requests,
         BeginExport(p, path, output, request)
  PROVE  QuietInv'
<1> DEFINE n == Exporting(path, output, request)
<1>1. n.at = "check" /\ n.path = path /\ n.quiet = (command = Idle \/ command.path # path)
  BY DEF Exporting
<1>2. Go(p, n) /\ UNCHANGED <<workspace, command>> /\ workspace[path] # Nothing
  BY DEF BeginExport
<1> HIDE DEF n
<1>3. n.quiet => Undisturbed(n)
  BY <1>1, <1>2 DEF Undisturbed, Holds
<1>4. QED
  BY <1>2, <1>3, QuietGo

\* The steps that only go on to the next stage.
LEMMA QuietAdvance ==
  ASSUME IInv, QuietInv, NEW p \in Procs, NEW stage \in ExportStages,
         IsExport(op[p]), Go(p, [op[p] EXCEPT !.at = stage]), UNCHANGED <<workspace, command>>,
         Undisturbed(op[p]) => \A n : Same(op[p], n) /\ n.at = stage /\ n.group = op[p].group
                                        /\ n.names = op[p].names /\ n.read = op[p].read
                                        => Holds(n, workspace[op[p].path])
  PROVE  QuietInv'
<1> DEFINE o == op[p]  n == [o EXCEPT !.at = stage]
<1>1. n = [o EXCEPT !.at = stage] /\ Go(p, n)
  OBVIOUS
<1>2. IsExport(o)
  OBVIOUS
<1>3. o.quiet => Undisturbed(o)
  BY DEF QuietInv
<1>4. Undisturbed(o) => \A x : Same(o, x) /\ x.at = stage /\ x.group = o.group
                                 /\ x.names = o.names /\ x.read = o.read => Holds(x, workspace[o.path])
  OBVIOUS
<1> HIDE DEF o, n
<1>5. n.at = stage /\ Same(o, n) /\ n.group = o.group /\ n.names = o.names /\ n.read = o.read
  BY <1>1, <1>2, ExportTo DEF Same
<1>6. n.quiet => Undisturbed(n)
  BY <1>3, <1>4, <1>5 DEF Undisturbed, Same
<1>7. QED
  BY <1>1, <1>6, QuietGo

LEMMA QuietCheck ==
  ASSUME IInv, QuietInv, NEW p \in Procs, CheckWorkspace(p)
  PROVE  QuietInv'
<1> DEFINE o == op[p]  files == workspace[o.path]
<1>1. IsExport(o) /\ Governed(files, o.class)
  BY StageTells DEF IInv, OpsInv, CheckWorkspace, At, ExportStages
<1>2. Go(p, [o EXCEPT !.at = "count"]) /\ UNCHANGED <<workspace, command>> /\ "count" \in ExportStages
  BY DEF CheckWorkspace, ExportStages
<1>3. \A n : Same(o, n) /\ n.at = "count" => Holds(n, files)
  BY <1>1 DEF Same, Holds
<1>4. QED
  BY <1>1, <1>2, <1>3, QuietAdvance

LEMMA QuietCount ==
  ASSUME IInv, QuietInv, NEW p \in Procs, CountMembers(p)
  PROVE  QuietInv'
<1> DEFINE o == op[p]  files == workspace[o.path]
<1>1. IsExport(o) /\ ExportStaged(o) /\ Fits(o) /\ o.at = "count"
  BY StageTells DEF IInv, OpsInv, CountMembers, At, ExportStages
<1>2. Go(p, [o EXCEPT !.at = "recheck"]) /\ UNCHANGED <<workspace, command>> /\ "recheck" \in ExportStages
  BY DEF CountMembers, ExportStages
<1>3. o.group = 1 /\ o.names = {} /\ DOMAIN o.read = {}
  <2>1. DOMAIN Nothing = {}
    BY DEF Nothing
  <2>2. QED
    BY <1>1, <2>1 DEF ExportStaged
<1>4. ASSUME Undisturbed(o), NEW n, Same(o, n), n.at = "recheck", n.group = o.group, n.names = o.names, n.read = o.read
      PROVE  Holds(n, files)
  <2>1. Governed(files, n.class) /\ Few(n.class, n.extra, DOMAIN files)
    BY <1>1, <1>4, FitsQuiet DEF Undisturbed, Holds, Same
  <2>2. n.names \cup DOMAIN n.read = ListedBefore(n.class, n.group, DOMAIN files)
    BY <1>3, <1>4, ListedNone
  <2>3. \A x \in DOMAIN n.read : n.read[x] = Rows(files, x)
    BY <1>3, <1>4
  <2>4. QED
    BY <1>4, <2>1, <2>2, <2>3 DEF Holds
<1>5. QED
  BY <1>1, <1>2, <1>4, QuietAdvance

LEMMA QuietRecheck ==
  ASSUME IInv, QuietInv, NEW p \in Procs, RecheckWorkspace(p)
  PROVE  QuietInv'
<1> DEFINE o == op[p]  files == workspace[o.path]
<1>1. IsExport(o) /\ o.at = "recheck"
  BY StageTells DEF IInv, OpsInv, RecheckWorkspace, At, ExportStages
<1>2. Go(p, [o EXCEPT !.at = "list"]) /\ UNCHANGED <<workspace, command>> /\ "list" \in ExportStages
  BY DEF RecheckWorkspace, ExportStages
<1>3. ASSUME Undisturbed(o), NEW n, Same(o, n), n.at = "list", n.group = o.group, n.names = o.names, n.read = o.read
      PROVE  Holds(n, files)
  BY <1>1, <1>3 DEF Undisturbed, Holds, Same
<1>4. QED
  BY <1>1, <1>2, <1>3, QuietAdvance

LEMMA QuietLook ==
  ASSUME IInv, QuietInv, NEW p \in Procs, LookForOutput(p)
  PROVE  QuietInv'
<1> DEFINE o == op[p]  files == workspace[o.path]
<1>1. IsExport(o) /\ o.at = "look"
  BY StageTells DEF IInv, OpsInv, LookForOutput, At, ExportStages
<1>2. Go(p, [o EXCEPT !.at = "save"]) /\ UNCHANGED <<workspace, command>> /\ "save" \in ExportStages
  BY DEF LookForOutput, ExportStages
<1>3. ASSUME Undisturbed(o), NEW n, Same(o, n), n.at = "save", n.group = o.group, n.names = o.names, n.read = o.read
      PROVE  Holds(n, files)
  BY <1>1, <1>3 DEF Undisturbed, Holds, Same
<1>4. QED
  BY <1>1, <1>2, <1>3, QuietAdvance

LEMMA QuietList ==
  ASSUME IInv, QuietInv, NEW p \in Procs, ListGroup(p)
  PROVE  QuietInv'
<1> DEFINE o == op[p]  n == op'[p]  files == workspace[o.path]  group == Groups(o.class)[o.group]
<1>1. /\ o.at = "list" /\ n.at \in {"list", "read", "classify"} /\ Same(o, n)
      /\ n.read = o.read /\ n.group = o.group + 1
      /\ n.names = o.names \cup (Present(o.path) \cap group) \cup (IF "memory" \in group THEN {"memory"} ELSE {})
  BY ListGroupKeeps
<1>2. IsExport(o) /\ ExportStaged(o)
  BY <1>1, StageTells DEF IInv, OpsInv, ExportStages
<1>3. o.class \in Classes /\ o.group \in 1 .. Len(Groups(o.class))
  BY <1>1, <1>2 DEF IsExport, ExportStaged
<1>4. Go(p, n) /\ UNCHANGED <<workspace, command>>
  BY DEF ListGroup, Go, IInv, OpsInv
<1> HIDE DEF n
<1>5. ASSUME Undisturbed(o) PROVE Holds(n, files)
  <2>1. /\ o.names \cup DOMAIN o.read = ListedBefore(o.class, o.group, DOMAIN files)
        /\ \A x \in DOMAIN o.read : o.read[x] = Rows(files, x)
        /\ Governed(files, o.class) /\ Few(o.class, o.extra, DOMAIN files)
    BY <1>1, <1>5 DEF Undisturbed, Holds
  <2>2. Present(o.path) = DOMAIN files
    BY <1>5, PresentQuiet
  <2>3. ListedBefore(o.class, o.group + 1, DOMAIN files) =
          ListedBefore(o.class, o.group, DOMAIN files) \cup (DOMAIN files \cap group)
          \cup (IF "memory" \in group THEN {"memory"} ELSE {})
    BY <1>3, ListedNext
  <2> HIDE DEF o, files, group
  <2>4. n.names \cup DOMAIN n.read = ListedBefore(n.class, n.group, DOMAIN files)
    BY <1>1, <2>1, <2>2, <2>3 DEF Same
  <2>5. QED
    BY <1>1, <2>1, <2>4 DEF Holds, Same
<1>6. n.quiet => Undisturbed(n)
  BY <1>1, <1>2, <1>5 DEF QuietInv, Undisturbed, Same
<1>7. QED
  BY <1>4, <1>6, QuietGo

LEMMA QuietRead ==
  ASSUME IInv, QuietInv, NEW p \in Procs, ReadFile(p)
  PROVE  QuietInv'
<1> DEFINE o == op[p]  n == op'[p]  files == workspace[o.path]  name == First(o.names)
<1>1. /\ o.at = "read" /\ n.at \in {"list", "read", "classify"} /\ Same(o, n)
      /\ n.names = o.names \ {name} /\ n.group = o.group
      /\ n.read = With(o.read, name, Rows(files, name))
  BY ReadFileKeeps
<1>2. IsExport(o) /\ ExportStaged(o)
  BY <1>1, StageTells DEF IInv, OpsInv, ExportStages
<1>3. name \in o.names
  BY <1>1, <1>2, FirstIn DEF IsExport, ExportStaged
<1>4. Go(p, n) /\ UNCHANGED <<workspace, command>>
  BY DEF ReadFile, Go, IInv, OpsInv
<1> HIDE DEF n
<1>5. ASSUME Undisturbed(o) PROVE Holds(n, files)
  <2>1. /\ o.names \cup DOMAIN o.read = ListedBefore(o.class, o.group, DOMAIN files)
        /\ \A x \in DOMAIN o.read : o.read[x] = Rows(files, x)
        /\ Governed(files, o.class) /\ Few(o.class, o.extra, DOMAIN files)
    BY <1>1, <1>5 DEF Undisturbed, Holds
  <2> HIDE DEF o, files, name
  <2>2. DOMAIN n.read = DOMAIN o.read \cup {name}
    BY <1>1 DEF With
  <2>3. \A x \in DOMAIN n.read : n.read[x] = Rows(files, x)
    BY <1>1, <2>1, <2>2 DEF With
  <2>4. n.names \cup DOMAIN n.read = ListedBefore(n.class, n.group, DOMAIN files)
    BY <1>1, <1>3, <2>1, <2>2 DEF Same
  <2>5. QED
    BY <1>1, <2>1, <2>3, <2>4 DEF Holds, Same
<1>6. n.quiet => Undisturbed(n)
  BY <1>1, <1>2, <1>5 DEF QuietInv, Undisturbed, Same
<1>7. QED
  BY <1>4, <1>6, QuietGo

\* What a quiet export has listed is there: it leaves nothing out.
LEMMA QuietSkip ==
  ASSUME IInv, QuietInv, NEW p \in Procs, SkipFile(p)
  PROVE  QuietInv'
<1> DEFINE o == op[p]  n == op'[p]  files == workspace[o.path]  name == First(o.names)
<1>1. o.at = "read" /\ Same(o, n)
  BY SkipFileKeeps
<1>2. IsExport(o) /\ ExportStaged(o)
  BY <1>1, StageTells DEF IInv, OpsInv, ExportStages
<1>3. name \in o.names
  BY <1>1, <1>2, FirstIn DEF IsExport, ExportStaged
<1>4. name \notin Present(o.path) /\ name # "memory"
  BY DEF SkipFile, CurationTree, ReceiptsTree
<1>5. Go(p, n) /\ UNCHANGED <<workspace, command>>
  BY DEF SkipFile, Go, IInv, OpsInv
<1>6. Undisturbed(o) => FALSE
  <2> SUFFICES ASSUME Undisturbed(o) PROVE FALSE
    OBVIOUS
  <2>1. o.names \cup DOMAIN o.read \subseteq DOMAIN files \cup {"memory"}
    BY <1>1, ListedIn DEF Undisturbed, Holds
  <2>2. Present(o.path) = DOMAIN files
    BY PresentQuiet
  <2>3. QED
    BY <1>3, <1>4, <2>1, <2>2
<1>7. ~ n.quiet
  BY <1>1, <1>2, <1>6 DEF QuietInv, Same
<1>8. QED
  BY <1>5, <1>7, QuietGo

LEMMA QuietClassify ==
  ASSUME IInv, QuietInv, NEW p \in Procs, Classify(p)
  PROVE  QuietInv'
<1> DEFINE o == op[p]  n == op'[p]  files == workspace[o.path]
<1>1. /\ o.at = "classify" /\ n.at = "look" /\ Same(o, n)
      /\ n.read = IF o.extra = None THEN o.read ELSE With(o.read, "enrichment", {o.extra})
  BY ClassifyKeeps
<1>2. IsExport(o) /\ ExportStaged(o)
  BY <1>1, StageTells DEF IInv, OpsInv, ExportStages
<1>3. o.class \in Classes /\ o.names = {} /\ o.group = Len(Groups(o.class)) + 1
  BY <1>1, <1>2 DEF IsExport, ExportStaged
<1>4. Go(p, n) /\ UNCHANGED <<workspace, command>>
  BY DEF Classify, Go, IInv, OpsInv
<1> HIDE DEF n
<1>5. ASSUME Undisturbed(o) PROVE Holds(n, files)
  <2>1. /\ o.names \cup DOMAIN o.read = ListedBefore(o.class, o.group, DOMAIN files)
        /\ \A x \in DOMAIN o.read : o.read[x] = Rows(files, x)
        /\ Governed(files, o.class) /\ Few(o.class, o.extra, DOMAIN files)
    BY <1>1, <1>5 DEF Undisturbed, Holds
  <2>2. DOMAIN o.read = Payload(o.class, DOMAIN files)
    BY <1>3, <2>1, ListedAll
  <2> HIDE DEF o, files
  <2>3. DOMAIN n.read = Payload(o.class, DOMAIN files) \cup Added(o.extra)
    BY <1>1, <2>2 DEF Added, With
  <2>4. \A x \in DOMAIN n.read : n.read[x] = IF x \in Added(o.extra) THEN {o.extra} ELSE Rows(files, x)
    <3>1. CASE o.extra = None
      BY <1>1, <2>1, <3>1 DEF Added
    <3>2. CASE o.extra # None
      BY <1>1, <2>1, <3>2 DEF Added, With
    <3>3. QED
      BY <3>1, <3>2
  <2>5. QED
    BY <1>1, <2>1, <2>3, <2>4 DEF Holds, Same
<1>6. n.quiet => Undisturbed(n)
  BY <1>1, <1>2, <1>5 DEF QuietInv, Undisturbed, Same
<1>7. QED
  BY <1>4, <1>6, QuietGo

\* What a command or a restore changes is not the workspace of a quiet export.
LEMMA QuietWorkspace ==
  ASSUME IInv, QuietInv, NEW path,
         (command # Idle /\ command.path = path) \/ workspace[path] = Nothing,
         \A x \in Paths : x # path => workspace'[x] = workspace[x],
         \A q \in Procs : op'[q] = op[q] \/ ~ IsExport(op'[q]),
         command' = Idle \/ (command # Idle /\ command'.path = command.path)
  PROVE  QuietInv'
<1> SUFFICES ASSUME NEW q \in Procs, IsExport(op'[q]), op'[q].quiet PROVE Undisturbed(op[q])'
  BY DEF QuietInv
<1>1. op'[q] = op[q] /\ Undisturbed(op[q]) /\ op[q].path \in Paths
  BY DEF QuietInv, IsExport
<1>2. workspace'[op[q].path] = workspace[op[q].path]
  BY <1>1 DEF Undisturbed
<1>3. QED
  BY <1>1, <1>2 DEF Undisturbed

LEMMA QuietCommand ==
  ASSUME IInv, QuietInv, Command
  PROVE  QuietInv'
<1>1. ASSUME NEW path \in Paths, NEW does, NEW id, BeginCommand(path, does, id)
      PROVE  QuietInv'
  <2> SUFFICES ASSUME NEW q \in Procs, IsExport(op'[q]), op'[q].quiet PROVE Undisturbed(op[q])'
    BY DEF QuietInv
  <2>1. /\ command'.path = path /\ UNCHANGED workspace
        /\ op'[q] = IF "quiet" \in DOMAIN op[q] /\ op[q].path = path THEN [op[q] EXCEPT !.quiet = FALSE] ELSE op[q]
    BY <1>1 DEF BeginCommand
  <2>2. "quiet" \in DOMAIN op'[q]
    BY Kinds
  <2>3. op'[q] = op[q] /\ ~ ("quiet" \in DOMAIN op[q] /\ op[q].path = path)
    BY <2>1
  <2>4. op[q].path # path /\ Undisturbed(op[q])
    BY <2>2, <2>3 DEF QuietInv
  <2>5. QED
    BY <2>1, <2>3, <2>4 DEF Undisturbed
<1>2. CASE StageFile
  <2>1. /\ command # Idle /\ command' = [command EXCEPT !.at = "replace"] /\ UNCHANGED op
        /\ \A x \in Paths : x # command.path => workspace'[x] = workspace[x]
    BY <1>2 DEF StageFile, Idle, IInv, DiskOK
  <2>2. command'.path = command.path
    BY <2>1 DEF IInv, IsCommand
  <2>3. QED
    BY <2>1, <2>2, QuietWorkspace
<1>3. CASE ReplaceFile
  <2>1. /\ command # Idle /\ UNCHANGED op
        /\ \A x \in Paths : x # command.path => workspace'[x] = workspace[x]
    BY <1>3 DEF ReplaceFile, Idle, IInv, DiskOK
  <2>2. command' = Idle \/ command'.path = command.path
    <3>1. DOMAIN command = {"at", "path", "does", "id", "todo", "version"}
      BY <2>1 DEF IInv, IsCommand
    <3>2. QED
      BY <1>3, <3>1 DEF ReplaceFile
  <2>3. QED
    BY <2>1, <2>2, QuietWorkspace
<1>4. CASE CrashCommand
  <2>1. /\ command # Idle /\ UNCHANGED op /\ command' = Idle
        /\ \A x \in Paths : x # command.path => workspace'[x] = workspace[x]
    BY <1>4 DEF CrashCommand, IInv, DiskOK
  <2>2. QED
    BY <2>1, QuietWorkspace
<1>5. QED
  BY <1>1, <1>2, <1>3, <1>4 DEF Command

LEMMA QuietRestore ==
  ASSUME IInv, QuietInv, NEW p \in Procs,
         Restore(p) \/ \E path \in Paths, output \in Outputs : BeginRestore(p, output, path)
  PROVE  QuietInv'
<1>1. CASE Publish(p)
  <2> DEFINE path == op[p].path
  <2>1. workspace[path] = Nothing /\ \A x \in Paths : x # path => workspace'[x] = workspace[x]
    BY <1>1 DEF Publish, Free, IInv, DiskOK
  <2>2. \A q \in Procs : op'[q] = op[q] \/ ~ IsExport(op'[q])
    BY <1>1, IdleNotExport DEF Publish, Go, IInv, OpsInv
  <2>3. command' = command
    BY <1>1 DEF Publish
  <2>4. command' = Idle \/ (command # Idle /\ command'.path = command.path)
    BY <2>3
  <2> HIDE DEF path
  <2>5. QED
    BY <2>1, <2>2, <2>4, QuietWorkspace
<1>2. CASE ~ Publish(p)
  <2>1. PICK n : Go(p, n) /\ "quiet" \notin DOMAIN n /\ UNCHANGED <<workspace, command>>
    <3>1. ASSUME NEW path \in Paths, NEW output \in Outputs, BeginRestore(p, output, path)
          PROVE  \E n : Go(p, n) /\ "quiet" \notin DOMAIN n /\ UNCHANGED <<workspace, command>>
      BY <3>1 DEF BeginRestore, Restoring
    <3>2. CASE OpenArchive(p) \/ WriteFiles(p) \/ ValidateRestored(p)
      <4>1. IsRestore(op[p])
        BY <3>2, StageTells DEF IInv, OpsInv, OpenArchive, WriteFiles, ValidateRestored, At
      <4>2. "quiet" \notin DOMAIN op[p]
        BY <4>1, Kinds
      <4>3. QED
        BY <3>2, <4>2 DEF OpenArchive, WriteFiles, ValidateRestored
    <3>3. QED
      BY <1>2, <3>1, <3>2 DEF Restore
  <2>2. ~ IsExport(n)
    BY <2>1, Kinds
  <2>3. QED
    BY <2>1, <2>2, QuietEnd
<1>3. QED
  BY <1>1, <1>2

\* Every step keeps it.
LEMMA QuietStep == IInv /\ QuietInv /\ [Next]_vars => QuietInv'
<1> SUFFICES ASSUME IInv, QuietInv, [Next]_vars PROVE QuietInv'
  OBVIOUS
<1>1. CASE UNCHANGED vars
  BY <1>1 DEF vars, QuietInv, Undisturbed
<1>2. CASE Command
  BY <1>2, QuietCommand
<1>3. ASSUME NEW p \in Procs,
             \/ \E path \in Paths, output \in Outputs, request \in Requests : BeginExport(p, path, output, request)
             \/ \E path \in Paths, output \in Outputs : BeginRestore(p, output, path)
             \/ Export(p) \/ Restore(p) \/ Refuse(p) \/ Crash(p)
      PROVE  QuietInv'
  <2>1. CASE SaveArchive(p) \/ Refuse(p) \/ Crash(p)
    BY <2>1, IdleNotExport, QuietEnd DEF SaveArchive, Refuse, Crash
  <2>2. CASE Export(p)
    BY <2>1, <2>2, QuietCheck, QuietCount, QuietRecheck, QuietList, QuietRead, QuietSkip, QuietClassify,
       QuietLook DEF Export
  <2>3. QED
    BY <1>3, <2>1, <2>2, QuietBeginExport, QuietRestore
<1>4. QED
  BY <1>1, <1>2, <1>3 DEF Next

LEMMA QuietInit == Init => QuietInv
BY IdleNotExport DEF Init, QuietInv

\* So both always hold.
LEMMA QuietInductive == Spec => [](IInv /\ QuietInv)
BY InitInv, QuietInit, StepKeeps, QuietStep, PTL DEF Spec

\* What a quiet export has collected makes an archive that restores.
LEMMA CollectedRestores == IInv /\ QuietInv => QuietExportRestores
<1> SUFFICES ASSUME IInv, QuietInv, NEW p \in Procs, Collected(p) PROVE Restorable(ArchiveOf(op[p]))
  BY DEF QuietExportRestores
<1> DEFINE o == op[p]  files == workspace[o.path]  a == ArchiveOf(o)
<1>1. IsExport(o) /\ o.quiet /\ o.at \in {"look", "save"}
  BY StageTells DEF IInv, OpsInv, Collected, ExportStages
<1>2. o.class \in Classes /\ o.extra \in {None} \cup Enrichments
  BY <1>1 DEF IsExport
<1>3. /\ Governed(files, o.class) /\ Few(o.class, o.extra, DOMAIN files)
      /\ DOMAIN o.read = Payload(o.class, DOMAIN files) \cup Added(o.extra)
      /\ \A n \in DOMAIN o.read : o.read[n] = IF n \in Added(o.extra) THEN {o.extra} ELSE Rows(files, n)
  BY <1>1 DEF QuietInv, Undisturbed, Holds
<1>4. a.class = o.class /\ a.known = TRUE /\ a.listed = o.read /\ a.members = o.read
  BY DEF ArchiveOf
<1> HIDE DEF o, files, a
<1>5. Governed(o.read, o.class)
  BY <1>2, <1>3, CollectedGoverned
<1>6. {"policy", "memory"} \subseteq DOMAIN o.read
  <2>1. "policy" \in DOMAIN files
    BY <1>3 DEF Governed, MemoryValidates
  <2>2. "policy" \in Taken(o.class) /\ "memory" \in Taken(o.class)
    BY NameIs DEF Taken
  <2>3. QED
    BY <1>2, <1>3, <2>1, <2>2, PayloadOf
<1>7. DOMAIN o.read \cap Shell = {}
  <2>1. Payload(o.class, DOMAIN files) \subseteq Name
    <3>1. \A i \in DOMAIN Groups(o.class) : Groups(o.class)[i] \subseteq Name
      BY <1>2, DomainOfGroups, GroupsOfNames
    <3>2. QED
      BY <3>1, NameIs DEF Payload
  <2>2. Added(o.extra) \subseteq Name
    BY NameIs DEF Added
  <2>3. QED
    BY <1>3, <2>1, <2>2, ShellApart
<1>8. Cardinality(DOMAIN o.read) + 2 <= MaxMembers
  BY <1>3 DEF Few
<1>9. MetadataValidates(a)
  BY <1>4, <1>6, <1>8 DEF MetadataValidates
<1>10. Restorable(a)
  BY <1>4, <1>5, <1>7, <1>9 DEF Restorable, Writable
<1>11. QED
  BY <1>10 DEF a, o

\* No check of a quiet export fails but those it begins with.
LEMMA QuietAccepted == IInv /\ QuietInv => QuietExportAccepted
<1> SUFFICES ASSUME IInv, QuietInv, NEW p \in Procs,
                    op[p].at \in {"recheck", "list", "read", "classify"}, op[p].quiet,
                    "memory temp" \notin DOMAIN workspace[op[p].path], Refused(p)
             PROVE  FALSE
  BY DEF QuietExportAccepted
<1> DEFINE o == op[p]  files == workspace[o.path]
<1>1. IsExport(o) /\ ExportStaged(o) /\ Undisturbed(o)
  BY StageTells DEF IInv, OpsInv, ExportStages, QuietInv
<1>2. /\ Governed(files, o.class)
      /\ o.names \cup DOMAIN o.read \subseteq DOMAIN files \cup {"memory"}
  BY <1>1, ListedIn DEF Undisturbed, Holds
<1>3. o.at = "read" => First(o.names) \in Present(o.path) \cup {"memory"}
  BY <1>1, <1>2, FirstIn, PresentQuiet DEF IsExport, ExportStaged
<1>4. Classified(o)
  BY <1>2 DEF Classified
<1>5. QED
  BY <1>2, <1>3, <1>4 DEF Refused, At

-----------------------------------------------------------------------------
(* An archive holds the files of its class, and is exported as it is.      *)

ClassNames(class) == Taken(class) \cup {"enrichment"}

\* An archive whose files are those its class takes.
OfItsClass(a) == DOMAIN a.listed \subseteq ClassNames(a.class)

\* An archive that can be restored has the files of its class.
Meant(a) == Restorable(a) => OfItsClass(a)

\* What can be restored of the archives that are there to begin with is of the
\* kind this program makes: the reader does not compare paths with the class.
ClassesMeantFirst == \A b \in Beginnings : b.archive # None => Meant(b.archive)

\* An export lists and reads only its class; a restore past the opening read such an archive.
ClassOp(o) ==
  /\ IsExport(o) => o.names \cup DOMAIN o.read \subseteq ClassNames(o.class)
  /\ IsRestore(o) /\ o.at # "open" => Meant(o.archive) /\ MetadataValidates(o.archive)

\* Archives, origins and running operations keep to the classes.
ClassInv ==
  /\ \A x \in Outputs : archive[x] # None => Meant(archive[x])
  /\ \A x \in Paths : origin[x] # None => OfItsClass(origin[x]) /\ MetadataValidates(origin[x])
  /\ \A p \in Procs : ClassOp(op[p])

LEMMA ClassIdle == ClassOp(Idle)
BY Kinds DEF ClassOp

\* Whatever is listed is of the class.
LEMMA GroupOfClass ==
  ASSUME NEW class \in Classes, NEW i \in 1 .. Len(Groups(class))
  PROVE  Groups(class)[i] \subseteq ClassNames(class)
<1>1. CASE class = "minimum"
  <2>1. i = 1 \/ i = 2 \/ i = 3 \/ i = 4
    <3>1. i \in 1 .. 4
      BY <1>1, GroupsAre
    <3>2. QED
      BY <3>1
  <2>2. /\ Base \subseteq Taken("minimum") /\ CurationTree \subseteq Taken("minimum")
        /\ ReceiptsTree \subseteq Taken("minimum") /\ {"observations"} \subseteq Taken("minimum")
    BY NameIs DEF Base, CurationTree, ReceiptsTree, Taken
  <2>3. QED
    BY <1>1, <2>1, <2>2, GroupsAre DEF ClassNames
<1>2. CASE class = "full"
  <2>1. i \in DOMAIN Groups(class)
    BY DomainOfGroups
  <2>2. QED
    BY <1>2, <2>1, GroupsOfNames DEF ClassNames, Taken
<1>3. QED
  BY <1>1, <1>2 DEF Classes

LEMMA MemoryOfClass == \A class : "memory" \in ClassNames(class)
BY NameIs DEF ClassNames, Taken

\* One process moves; the archives and where workspaces came from stay.
LEMMA ClassGo ==
  ASSUME IInv, ClassInv, NEW p \in Procs, NEW n, Go(p, n), ClassOp(n), UNCHANGED <<archive, origin>>
  PROVE  ClassInv'
<1>1. op' = [x \in Procs |-> IF x = p THEN n ELSE op[x]]
  BY DEF IInv, OpsInv, Go
<1>2. \A q \in Procs : ClassOp(op'[q])
  BY <1>1 DEF ClassInv
<1>3. QED
  BY <1>2 DEF ClassInv

\* An export goes on with what it has listed and read.
LEMMA ClassExportGoes ==
  ASSUME IInv, ClassInv, NEW p \in Procs, NEW stage \in ExportStages, op[p].at \in ExportStages,
         Go(p, [op[p] EXCEPT !.at = stage]), UNCHANGED <<archive, origin>>
  PROVE  ClassInv'
<1> DEFINE o == op[p]  n == [o EXCEPT !.at = stage]
<1>1. IsExport(o) /\ ClassOp(o)
  BY StageTells DEF IInv, OpsInv, ClassInv
<1>2. Go(p, n)
  OBVIOUS
<1>3. IsExport(n) /\ n.class = o.class /\ n.names = o.names /\ n.read = o.read
  BY <1>1, ExportTo
<1> HIDE DEF n, o
<1>4. ClassOp(n)
  BY <1>1, <1>3, Kinds DEF ClassOp
<1>5. QED
  BY <1>2, <1>4, ClassGo

\* An export lists or reads names of its class.
LEMMA ClassExportTakes ==
  ASSUME IInv, IInv', ClassInv, NEW p \in Procs, UNCHANGED <<archive, origin>>,
         \A q \in Procs : q # p => op'[q] = op[q],
         op[p].at \in ExportStages, op'[p].at \in ExportStages, op'[p].class = op[p].class,
         op'[p].names \cup DOMAIN op'[p].read \subseteq op[p].names \cup DOMAIN op[p].read \cup ClassNames(op[p].class)
  PROVE  ClassInv'
<1>1. IsExport(op[p]) /\ IsExport(op'[p])
  BY StageTells DEF IInv, OpsInv
<1>2. ClassOp(op'[p])
  <2>1. op[p].names \cup DOMAIN op[p].read \subseteq ClassNames(op[p].class)
    BY <1>1 DEF ClassInv, ClassOp
  <2>2. QED
    BY <1>1, <2>1, Kinds DEF ClassOp
<1>3. \A q \in Procs : ClassOp(op'[q])
  BY <1>2 DEF ClassInv
<1>4. QED
  BY <1>3 DEF ClassInv

\* An action of a process leaves the other processes alone.
LEMMA OneMoves ==
  ASSUME IInv, NEW p \in Procs, NEW n, Go(p, n)
  PROVE  \A q \in Procs : q # p => op'[q] = op[q]
BY DEF IInv, OpsInv, Go

\* Exports, overlapped ones included, make archives of their class.
LEMMA ClassExport ==
  ASSUME IInv, ClassInv, NEW p \in Procs, Export(p)
  PROVE  ClassInv'
<1>1. CASE CheckWorkspace(p)
  BY <1>1, ClassExportGoes DEF CheckWorkspace, At, ExportStages
<1>2. CASE CountMembers(p)
  BY <1>2, ClassExportGoes DEF CountMembers, At, ExportStages
<1>3. CASE RecheckWorkspace(p)
  BY <1>3, ClassExportGoes DEF RecheckWorkspace, At, ExportStages
<1>4. CASE LookForOutput(p)
  BY <1>4, ClassExportGoes DEF LookForOutput, At, ExportStages
<1>5. CASE ListGroup(p)
  <2> DEFINE o == op[p]  group == Groups(o.class)[o.group]
  <2>1. o.at = "list"
    BY <1>5 DEF ListGroup, At
  <2>2. IsExport(o) /\ ExportStaged(o)
    BY <2>1, StageTells DEF IInv, OpsInv, ExportStages
  <2>3. o.class \in Classes /\ o.group \in 1 .. Len(Groups(o.class))
    BY <2>1, <2>2 DEF IsExport, ExportStaged
  <2> HIDE DEF o
  <2>4. group \subseteq ClassNames(o.class)
    BY <2>3, GroupOfClass
  <2>5. /\ IInv' /\ op'[p].at \in {"list", "read", "classify"} /\ op'[p].class = o.class
        /\ op'[p].read = o.read
        /\ op'[p].names = o.names \cup (Present(o.path) \cap group) \cup (IF "memory" \in group THEN {"memory"} ELSE {})
    BY <1>5, ListGroupKeeps DEF Same, o
  <2> HIDE DEF group
  <2>6. op'[p].names \cup DOMAIN op'[p].read \subseteq o.names \cup DOMAIN o.read \cup ClassNames(o.class)
    BY <2>4, <2>5, MemoryOfClass
  <2>7. UNCHANGED <<archive, origin>> /\ \A q \in Procs : q # p => op'[q] = op[q]
    BY <1>5, OneMoves DEF ListGroup
  <2>8. QED
    BY <2>1, <2>5, <2>6, <2>7, ClassExportTakes DEF ExportStages, o
<1>6. CASE ReadFile(p)
  <2> DEFINE o == op[p]  name == First(o.names)
  <2>1. o.at = "read"
    BY <1>6 DEF ReadFile, At
  <2>2. IsExport(o) /\ ExportStaged(o)
    BY <2>1, StageTells DEF IInv, OpsInv, ExportStages
  <2>3. name \in o.names
    BY <2>1, <2>2, FirstIn DEF IsExport, ExportStaged
  <2>4. /\ IInv' /\ op'[p].at \in {"list", "read", "classify"} /\ op'[p].class = o.class
        /\ op'[p].names = o.names \ {name} /\ op'[p].read = With(o.read, name, Rows(workspace[o.path], name))
    BY <1>6, ReadFileKeeps DEF Same
  <2> HIDE DEF name
  <2>5. DOMAIN op'[p].read = DOMAIN o.read \cup {name}
    <3>1. DOMAIN With(o.read, name, Rows(workspace[o.path], name)) = DOMAIN o.read \cup {name}
      BY WithIs
    <3>2. QED
      BY <2>4, <3>1
  <2>6. op'[p].names \cup DOMAIN op'[p].read \subseteq o.names \cup DOMAIN o.read \cup ClassNames(o.class)
    BY <2>3, <2>4, <2>5
  <2>7. UNCHANGED <<archive, origin>> /\ \A q \in Procs : q # p => op'[q] = op[q]
    BY <1>6, OneMoves DEF ReadFile
  <2>8. QED
    BY <2>1, <2>4, <2>6, <2>7, ClassExportTakes DEF ExportStages
<1>7. CASE Classify(p)
  <2> DEFINE o == op[p]
  <2>1. o.at = "classify"
    BY <1>7 DEF Classify, At
  <2>2. /\ IInv' /\ op'[p].at = "look" /\ op'[p].class = o.class
        /\ op'[p].read = IF o.extra = None THEN o.read ELSE With(o.read, "enrichment", {o.extra})
    BY <1>7, ClassifyKeeps DEF Same
  <2>3. op'[p].names = o.names
    <3>1. IsExport(o)
      BY <2>1, StageTells DEF IInv, OpsInv, ExportStages
    <3>2. QED
      BY <1>7, <3>1 DEF Classify, Go, IInv, OpsInv, IsExport
  <2>4. DOMAIN op'[p].read \subseteq DOMAIN o.read \cup {"enrichment"}
    <3>1. DOMAIN With(o.read, "enrichment", {o.extra}) = DOMAIN o.read \cup {"enrichment"}
      BY WithIs
    <3>2. QED
      BY <2>2, <3>1
  <2>5. op'[p].names \cup DOMAIN op'[p].read \subseteq o.names \cup DOMAIN o.read \cup ClassNames(o.class)
    BY <2>3, <2>4 DEF ClassNames
  <2>6. UNCHANGED <<archive, origin>> /\ \A q \in Procs : q # p => op'[q] = op[q]
    BY <1>7, OneMoves DEF Classify
  <2>7. QED
    BY <2>1, <2>2, <2>5, <2>6, ClassExportTakes DEF ExportStages
<1>8. CASE SaveArchive(p)
  <2> DEFINE o == op[p]  a == ArchiveOf(o)
  <2>1. IsExport(o)
    BY <1>8, StageTells DEF IInv, OpsInv, SaveArchive, At, ExportStages
  <2>2. Meant(a)
    BY <2>1 DEF ClassInv, ClassOp, OfItsClass, ArchiveOf, Meant
  <2> HIDE DEF a
  <2>3. archive' = [archive EXCEPT ![o.output] = a] /\ UNCHANGED origin /\ Go(p, Idle)
    BY <1>8 DEF SaveArchive, a
  <2>4. \A x \in Outputs : archive'[x] = archive[x] \/ archive'[x] = a
    BY <2>3 DEF IInv, DiskOK
  <2>5. \A q \in Procs : ClassOp(op'[q])
    BY <2>3, ClassIdle DEF ClassInv, Go, IInv, OpsInv
  <2>6. QED
    BY <2>2, <2>3, <2>4, <2>5 DEF ClassInv
<1>9. CASE SkipFile(p)
  <2>1. op[p].at = "read"
    BY <1>9 DEF SkipFile, At
  <2>2. /\ IInv' /\ op'[p].at \in {"list", "read", "classify"} /\ op'[p].class = op[p].class
        /\ op'[p].names = op[p].names \ {First(op[p].names)} /\ op'[p].read = op[p].read
    BY <1>9, SkipFileKeeps DEF Same
  <2>3. UNCHANGED <<archive, origin>> /\ \A q \in Procs : q # p => op'[q] = op[q]
    BY <1>9, OneMoves DEF SkipFile
  <2>4. QED
    BY <2>1, <2>2, <2>3, ClassExportTakes DEF ExportStages
<1>10. QED
  BY <1>1, <1>2, <1>3, <1>4, <1>5, <1>6, <1>7, <1>8, <1>9 DEF Export

\* A restore starts from an archive of its class.
LEMMA ClassRestore ==
  ASSUME IInv, ClassInv, NEW p \in Procs, Restore(p)
  PROVE  ClassInv'
<1> DEFINE o == op[p]
<1>1. IsRestore(o) /\ ClassOp(o)
  BY StageTells DEF IInv, OpsInv, ClassInv, Restore, OpenArchive, WriteFiles, ValidateRestored, Publish, At
<1>2. CASE OpenArchive(p)
  <2> DEFINE a == archive[o.output]  n == [o EXCEPT !.archive = a, !.at = "write"]
  <2>1. a # None /\ MetadataValidates(a) /\ Go(p, n) /\ UNCHANGED <<archive, origin>>
    BY <1>2 DEF OpenArchive
  <2>2. Meant(a) /\ MetadataValidates(a)
    BY <1>1, <2>1 DEF ClassInv, IsRestore
  <2>3. n = [at |-> "write", path |-> o.path, output |-> o.output, archive |-> a]
    <3>1. o = [at |-> o.at, path |-> o.path, output |-> o.output, archive |-> o.archive]
      BY <1>1 DEF IsRestore
    <3>2. n = [o EXCEPT !.archive = a, !.at = "write"]
      OBVIOUS
    <3> HIDE DEF a, o, n
    <3>3. QED
      BY <3>1, <3>2
  <2>4. DOMAIN n = {"at", "path", "output", "archive"} /\ n.archive = a
    BY <2>3
  <2> HIDE DEF n, a
  <2>5. ClassOp(n)
    BY <2>2, <2>4, Kinds DEF ClassOp
  <2>6. QED
    BY <2>1, <2>5, ClassGo
<1>3. ASSUME NEW stage \in {"write", "validate", "publish"}, o.at # "open", Go(p, [o EXCEPT !.at = stage]),
             UNCHANGED <<archive, origin>>
      PROVE  ClassInv'
  <2> DEFINE n == [o EXCEPT !.at = stage]
  <2>1. IsRestore(n) /\ n.archive = o.archive
    BY <1>1, <1>3, RestoreTo
  <2> HIDE DEF n
  <2>2. ClassOp(n)
    BY <1>1, <1>3, <2>1, Kinds DEF ClassOp
  <2>3. QED
    BY <1>3, <2>2, ClassGo DEF n
<1>4. CASE WriteFiles(p)
  BY <1>3, <1>4 DEF WriteFiles, At
<1>5. CASE ValidateRestored(p)
  BY <1>3, <1>5 DEF ValidateRestored, At
<1>6. CASE Publish(p)
  <2>1. /\ origin' = [origin EXCEPT ![o.path] = o.archive] /\ UNCHANGED archive /\ Go(p, Idle)
        /\ o.at = "publish"
    BY <1>6 DEF Publish, At
  <2>2. OfItsClass(o.archive) /\ MetadataValidates(o.archive)
    BY <1>1, <2>1, StageTells DEF ClassOp, Meant, Restorable, RestoreStaged, IInv, OpsInv
  <2>3. \A x \in Paths : origin'[x] = origin[x] \/ origin'[x] = o.archive
    BY <2>1 DEF IInv, DiskOK
  <2>4. \A q \in Procs : ClassOp(op'[q])
    BY <2>1, ClassIdle DEF ClassInv, Go, IInv, OpsInv
  <2>5. QED
    BY <2>1, <2>2, <2>3, <2>4 DEF ClassInv
<1>7. QED
  BY <1>2, <1>4, <1>5, <1>6 DEF Restore

\* Commands touch no archive.
LEMMA ClassCommand ==
  ASSUME IInv, ClassInv, Command
  PROVE  ClassInv'
<1>1. ASSUME NEW path \in Paths, NEW does, NEW id, BeginCommand(path, does, id)
      PROVE  ClassInv'
  <2>1. ASSUME NEW q \in Procs PROVE ClassOp(op'[q])
    <3>1. op'[q] = IF "quiet" \in DOMAIN op[q] /\ op[q].path = path THEN [op[q] EXCEPT !.quiet = FALSE] ELSE op[q]
      BY <1>1 DEF BeginCommand
    <3>2. CASE op'[q] = op[q]
      BY <3>2 DEF ClassInv
    <3>3. CASE "quiet" \in DOMAIN op[q] /\ op'[q] = [op[q] EXCEPT !.quiet = FALSE]
      <4> DEFINE o == op[q]  n == op'[q]
      <4>1. IsExport(o) /\ ClassOp(o)
        BY <3>3, Kinds DEF IInv, OpsInv, IsOp, Idle, ClassInv
      <4>2. IsExport(n) /\ n.class = o.class /\ n.names = o.names /\ n.read = o.read
        BY <3>3, <4>1, ExportDisturbed
      <4> HIDE DEF n, o
      <4>3. ClassOp(n)
        BY <4>1, <4>2, Kinds DEF ClassOp
      <4>4. QED
        BY <4>3 DEF n
    <3>4. QED
      BY <3>1, <3>2, <3>3
  <2>2. UNCHANGED archive /\ \A x \in Paths : origin'[x] = origin[x] \/ origin'[x] = None
    BY <1>1 DEF BeginCommand, IInv, DiskOK
  <2>3. QED
    BY <2>1, <2>2 DEF ClassInv
<1>2. CASE StageFile \/ ReplaceFile \/ CrashCommand
  BY <1>2 DEF StageFile, ReplaceFile, CrashCommand, ClassInv
<1>3. QED
  BY <1>1, <1>2 DEF Command

\* Every step keeps it.
LEMMA ClassStep == IInv /\ ClassInv /\ [Next]_vars => ClassInv'
<1> SUFFICES ASSUME IInv, ClassInv, [Next]_vars PROVE ClassInv'
  OBVIOUS
<1>1. CASE UNCHANGED vars
  BY <1>1 DEF vars, ClassInv
<1>2. CASE Command
  BY <1>2, ClassCommand
<1>3. ASSUME NEW p \in Procs, NEW path \in Paths, NEW output \in Outputs, NEW request \in Requests,
             BeginExport(p, path, output, request)
      PROVE  ClassInv'
  <2> DEFINE n == Exporting(path, output, request)
  <2>1. "quiet" \in DOMAIN n /\ n.names = {} /\ DOMAIN n.read = {}
    BY DEF Exporting
  <2>2. Go(p, n) /\ UNCHANGED <<archive, origin>>
    BY <1>3 DEF BeginExport
  <2> HIDE DEF n
  <2>3. ClassOp(n)
    BY <2>1, Kinds DEF ClassOp
  <2>4. QED
    BY <2>2, <2>3, ClassGo
<1>4. ASSUME NEW p \in Procs, NEW path \in Paths, NEW output \in Outputs, BeginRestore(p, output, path)
      PROVE  ClassInv'
  <2> DEFINE n == Restoring(output, path)
  <2>1. "quiet" \notin DOMAIN n /\ n.at = "open"
    BY DEF Restoring
  <2>2. Go(p, n) /\ UNCHANGED <<archive, origin>>
    BY <1>4 DEF BeginRestore
  <2> HIDE DEF n
  <2>3. ClassOp(n)
    BY <2>1, Kinds DEF ClassOp
  <2>4. QED
    BY <2>2, <2>3, ClassGo
<1>5. ASSUME NEW p \in Procs, Refuse(p) \/ Crash(p) PROVE ClassInv'
  BY <1>5, ClassIdle, ClassGo DEF Refuse, Crash
<1>6. QED
  BY <1>1, <1>2, <1>3, <1>4, <1>5, ClassExport, ClassRestore DEF Next

\* It holds initially, when the archives made elsewhere are of their class.
LEMMA ClassInit == ClassesMeantFirst /\ Init => ClassInv
BY ClassIdle DEF Init, ClassesMeantFirst, ClassInv

\* An undisturbed export of what was restored takes what the archive held.
LEMMA ReexportsSame == IInv /\ QuietInv /\ ClassInv => ReexportSame
<1> SUFFICES ASSUME IInv, QuietInv, ClassInv, NEW p \in Procs, Collected(p), op[p].extra = None,
                    origin[op[p].path] # None, op[p].class = origin[op[p].path].class
             PROVE  LET a == origin[op[p].path]
                        kept == DOMAIN a.listed \ (IF a.class = "minimum" THEN {"enrichment"} ELSE {})
                    IN  op[p].read = [n \in kept |-> a.listed[n]]
  BY DEF ReexportSame
<1> DEFINE o == op[p]  a == origin[o.path]  files == a.listed
           kept == DOMAIN files \ (IF a.class = "minimum" THEN {"enrichment"} ELSE {})
<1>1. IsExport(o) /\ o.quiet /\ o.at \in {"look", "save"}
  BY StageTells DEF IInv, OpsInv, Collected, ExportStages
<1>2. o.class \in Classes /\ o.path \in Paths /\ IsFiles(o.read)
  BY <1>1 DEF IsExport
<1>3. workspace[o.path] = files /\ OfItsClass(a) /\ MetadataValidates(a)
  BY <1>2 DEF IInv, RestoredGoverned, ClassInv
<1>4. /\ DOMAIN o.read = Payload(o.class, DOMAIN files)
      /\ \A n \in DOMAIN o.read : o.read[n] = Rows(files, n)
  <2>1. Undisturbed(o)
    BY <1>1 DEF QuietInv
  <2>2. Holds(o, files)
    BY <1>3, <2>1 DEF Undisturbed
  <2>3. Added(o.extra) = {}
    BY DEF Added
  <2> HIDE DEF o, a, files
  <2>4. QED
    BY <1>1, <2>2, <2>3 DEF Holds
<1> HIDE DEF o, a, files
<1>5. "memory" \in DOMAIN files /\ DOMAIN files \subseteq ClassNames(o.class)
  BY <1>3 DEF MetadataValidates, OfItsClass, files, o, a
<1>6. Payload(o.class, DOMAIN files) = kept
  <2>1. ASSUME NEW n \in Taken(o.class) PROVE n \in Payload(o.class, DOMAIN files) <=> n \in DOMAIN files
    BY <1>2, <1>5, <2>1, PayloadOf
  <2>2. Payload(o.class, DOMAIN files) \subseteq DOMAIN files
    BY <1>5 DEF Payload
  <2>3. CASE o.class = "full"
    <3>1. ClassNames(o.class) = Taken(o.class)
      BY <2>3, NameIs DEF ClassNames, Taken
    <3>2. a.class # "minimum"
      BY <2>3 DEF o, a
    <3>3. QED
      BY <1>5, <2>1, <2>2, <3>1, <3>2
  <2>4. CASE o.class = "minimum"
    <3>1. "enrichment" \notin Payload(o.class, DOMAIN files)
      <4>1. DOMAIN Groups("minimum") = 1 .. 4
        BY GroupsAre, DomainOfGroups DEF Classes
      <4>2. ASSUME NEW i \in 1 .. 4 PROVE "enrichment" \notin Groups("minimum")[i]
        <5>1. i = 1 \/ i = 2 \/ i = 3 \/ i = 4
          OBVIOUS
        <5>2. /\ "enrichment" \notin Base /\ "enrichment" \notin CurationTree
              /\ "enrichment" \notin ReceiptsTree /\ "enrichment" \notin {"observations"}
          BY DEF Base, CurationTree, ReceiptsTree
        <5>3. \/ Groups("minimum")[i] = Base \/ Groups("minimum")[i] = CurationTree
              \/ Groups("minimum")[i] = ReceiptsTree \/ Groups("minimum")[i] = {"observations"}
          BY <5>1, GroupsAre
        <5>4. QED
          BY <5>2, <5>3
      <4>3. QED
        BY <2>4, <4>1, <4>2 DEF Payload
    <3>2. a.class = "minimum"
      BY <2>4 DEF o, a
    <3>3. kept = DOMAIN files \ {"enrichment"}
      BY <3>2
    <3>4. \A n \in kept : n \in Taken(o.class)
      BY <1>5, <3>3 DEF ClassNames
    <3>5. QED
      BY <2>1, <2>2, <3>1, <3>3, <3>4
  <2>5. QED
    BY <1>2, <2>3, <2>4 DEF Classes
<1>7. \A n \in kept : o.read[n] = files[n]
  BY <1>4, <1>6 DEF Rows
<1>8. o.read = [n \in DOMAIN o.read |-> o.read[n]]
  BY <1>2 DEF IsFiles
<1>9. o.read = [n \in kept |-> files[n]]
  BY <1>4, <1>6, <1>7, <1>8
<1>10. QED
  BY <1>9 DEF o, a, files

-----------------------------------------------------------------------------
(* The theorems.                                                           *)

\* Every workspace, archive and running operation is of its kind, for every
\* archive that is brought from elsewhere.
THEOREM ArchivesTypeCorrect == Spec => []TypeOK
BY Inductive, IInvMeans, PTL

\* A restored workspace is whole and governed whatever archive it came from:
\* what restore_archive publishes is what it wrote and validated.
THEOREM ArchivesRestoredGoverned == Spec => []RestoredGoverned
BY Inductive, IInvMeans, PTL

\* No restore changes a workspace that is there.
THEOREM ArchivesDestinationsKept == Spec => DestinationsKept
<1>1. ASSUME IInv, [Next]_vars, NEW path \in Paths, workspace[path] # Nothing, workspace'[path] # workspace[path]
      PROVE  command # Idle /\ command.path = path
  <2>1. workspace = [x \in Paths |-> workspace[x]]
    BY <1>1 DEF IInv, DiskOK
  <2>2. CASE UNCHANGED workspace
    BY <1>1, <2>2
  <2>3. CASE ReplaceFile
    BY <1>1, <2>1, <2>3 DEF ReplaceFile, Idle
  <2>4. CASE CrashCommand
    BY <1>1, <2>1, <2>4 DEF CrashCommand
  <2>5. ASSUME NEW p \in Procs, Publish(p) PROVE FALSE
    BY <1>1, <2>1, <2>5 DEF Publish, Free
  <2>6. CASE StageFile
    BY <1>1, <2>1, <2>6 DEF StageFile, Idle
  <2>7. UNCHANGED workspace \/ StageFile \/ ReplaceFile \/ CrashCommand \/ \E p \in Procs : Publish(p)
    BY <1>1 DEF Next, vars, Command, Export, Restore, BeginCommand, BeginExport, CheckWorkspace,
       CountMembers, RecheckWorkspace, ListGroup, ReadFile, SkipFile, Classify, LookForOutput, SaveArchive, BeginRestore,
       OpenArchive, WriteFiles, ValidateRestored, Refuse, Crash
  <2>8. QED
    BY <2>2, <2>3, <2>4, <2>5, <2>6, <2>7
<1>2. IInv /\ [Next]_vars =>
        [\A path \in Paths : workspace[path] # Nothing /\ workspace'[path] # workspace[path] =>
           command # Idle /\ command.path = path]_vars
  BY <1>1
<1>3. QED
  BY <1>2, Inductive, PTL DEF Spec, DestinationsKept

\* An export that no command overlaps makes an archive that restores, whatever
\* the workspace holds and whatever other exports and restores run.
THEOREM ArchivesQuietExportRestores == Spec => []QuietExportRestores
BY QuietInductive, CollectedRestores, PTL

\* An export that no command overlaps is not refused once it has been checked,
\* unless a dead command has left a file under memory/.
THEOREM ArchivesQuietExportAccepted == Spec => []QuietExportAccepted
BY QuietInductive, QuietAccepted, PTL

\* Restoring and exporting again in the same class loses nothing and adds
\* nothing but for the enrichment of a minimum export, whatever other exports,
\* restores and commands run and die, if what can be restored of the archives
\* that are brought has the files of its class, as what this program makes has.
THEOREM ArchivesReexportSame == ASSUME ClassesMeantFirst PROVE Spec => []ReexportSame
<1>1. Init => ClassInv
  BY ClassInit
<1>2. QED
  BY <1>1, QuietInductive, ClassStep, ReexportsSame, PTL DEF Spec

=============================================================================
