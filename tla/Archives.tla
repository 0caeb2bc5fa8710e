------------------------------ MODULE Archives ------------------------------
(***************************************************************************)
(* Portable archives of AI-CONTEXT (tools/restore.py over                  *)
(* tools/restore_legacy.py): exporting a workspace to an archive and       *)
(* restoring an archive to a new workspace, while commands change the      *)
(* workspaces.                                                             *)
(*                                                                         *)
(* An export checks the workspace, lists its directories and reads its     *)
(* files one after the other, and saves the archive by rename.  A restore  *)
(* fills a private directory, validates it and renames it to the           *)
(* destination.  No lock is taken.  Any number of exports and restores     *)
(* overlap each other and one other command (how other commands overlap    *)
(* each other is not of this module), and each may die between two steps.  *)
(*                                                                         *)
(* A workspace is a function from the names of its files to the rows in    *)
(* them; a file that is not there is not in its domain.  What is imported  *)
(* is one row, named alike in every file that tells of it; a memory is its *)
(* candidate and a version; a hash is the hashed rows.                     *)
(***************************************************************************)
EXTENDS Integers, Sequences, FiniteSets

CONSTANTS
  Paths,            \* where a workspace can be
  Outputs,          \* names of archives
  Procs,            \* processes that export and restore
  Imports,          \* what can be imported
  EvidenceImports,  \* those imported as evidence
  Candidates,       \* what can become a memory
  Cites,            \* the import a candidate cites: [Candidates -> Imports]
  Enrichments,      \* style and culture, with no factual authority
  Requests,         \* exports that are asked for: [class, extra]
  Beginnings,       \* to begin with: [files, archive], one made elsewhere
  Torn,             \* the rows of a file that is half written
  None,             \* no archive, no enrichment
  MaxMembers,       \* restore_legacy.MAX_ARCHIVE_MEMBERS
  MaxVersion,       \* bound on mutations of a memory
  MaxCommands,      \* bound on other commands
  MaxTransfers,     \* bound on exports and restores
  MaxFaults         \* bound on crashes of other commands

Classes == {"minimum", "full"}

\* The names of a workspace's files, in the order of their paths.  No command
\* here changes a policy or a profile: policy stands for policy.json, the
\* profiles and routing/policy.json.  A dead command leaves a temp in a
\* directory: .<file>.<random>.tmp or .txn.
Names == <<"curation temp", "applications", "candidates", "decisions", "mutations", "curation policy",
           "supersession", "enrichment", "memory temp", "memory", "policy",
           "receipts temp", "receipts", "snapshots",
           "staging temp", "index", "content", "observations">>
Name == {Names[i] : i \in DOMAIN Names}

\* What restore itself writes into a workspace.
Shell == {".gitignore", "README.txt"}

Base == {"curation policy", "memory", "policy"}
CurationTree == {"curation temp", "applications", "candidates", "decisions", "mutations", "curation policy",
                 "supersession"}
ReceiptsTree == {"receipts temp", "receipts", "snapshots"}

\* Mutant: what the first version took; a minimum export is memory alone and
\* a full one leaves the enrichment.
GroupsAtFirst(class) ==
  IF class = "full"
    THEN <<Base, ReceiptsTree, {"staging temp", "index", "content", "observations"},
           {"memory temp", "memory"}, CurationTree>>
    ELSE <<Base>>

\* What an export lists, in the order of the code; in a minimum export the
\* files of each group are read before the next is listed.
Groups(class) ==
  IF class = "full"
    THEN <<Base, ReceiptsTree, {"staging temp", "index", "content", "observations"},
           {"memory temp", "memory"}, CurationTree, {"enrichment"}>>
    ELSE <<Base, CurationTree, ReceiptsTree, {"observations"}>>

\* The names an export of class takes of those that are there.
Payload(class, names) ==
  {"memory"} \cup {n \in names : \E i \in DOMAIN Groups(class) : n \in Groups(class)[i]}

\* The rows a file may have: what is torn is one row, an enrichment may be
\* one that claims a fact; nothing here is superseded.
RowIn(name) ==
  CASE name \in {"candidates", "decisions"} -> Candidates
    [] name \in {"memory", "applications", "mutations"} -> [id : Candidates, version : Nat]
    [] name = "supersession" -> {}
    [] name = "enrichment" -> Enrichments \cup Candidates
    [] OTHER -> Imports \cup {Torn}

IsFiles(files) ==
  /\ files = [n \in DOMAIN files |-> files[n]]
  /\ DOMAIN files \subseteq Name \cup Shell
  /\ \A n \in DOMAIN files : files[n] \subseteq RowIn(n)

IsArchive(a) ==
  /\ a = [class |-> a.class, known |-> a.known, listed |-> a.listed, members |-> a.members]
  /\ a.class \in Classes /\ a.known \in BOOLEAN /\ IsFiles(a.listed) /\ IsFiles(a.members)

\* The files of a workspace that is not there.
Nothing == <<>>

With(files, name, rows) == [n \in DOMAIN files \cup {name} |-> IF n = name THEN rows ELSE files[n]]

ASSUME ConstantsAssumption ==
  /\ EvidenceImports \subseteq Imports /\ Cites \in [Candidates -> Imports]
  /\ Requests \subseteq [class : Classes, extra : {None} \cup Enrichments]
  /\ \A b \in Beginnings : IsFiles(b.files) /\ (b.archive # None => IsArchive(b.archive))
  /\ {MaxMembers, MaxVersion, MaxCommands, MaxTransfers, MaxFaults} \subseteq Nat

-----------------------------------------------------------------------------
(* The validators, as far as they relate one file to another.              *)

Rows(files, name) == IF name \in DOMAIN files THEN files[name] ELSE {}

\* core.validate_memory_record of each record, and the policies.
MemoryValidates(files) ==
  /\ "policy" \in DOMAIN files
  /\ \A r, s \in Rows(files, "memory") : Cites[r.id] \in Rows(files, "observations") /\ (r.id = s.id => r = s)
  /\ Torn \notin Rows(files, "curation policy")

Revisions(files, id) == {m.version : m \in {x \in Rows(files, "mutations") : x.id = id}}

\* validate_curation.py
CurationValidates(files) ==
  LET memory == Rows(files, "memory")
  IN  /\ \A c \in Rows(files, "candidates") : Cites[c] \in Rows(files, "observations")
      /\ Rows(files, "decisions") \subseteq Rows(files, "candidates")
      /\ \A a \in Rows(files, "applications") :
           /\ a.id \in Rows(files, "decisions")
           /\ \E r \in memory : r.id = a.id /\ (Revisions(files, a.id) = {} => r.version = a.version)
      /\ \A m \in Rows(files, "mutations") :
           \E r \in memory : r.id = m.id /\ Revisions(files, m.id) = 1 .. r.version

\* validate_evidence.py
EvidenceValidates(files) ==
  LET receipts == Rows(files, "receipts") \cap EvidenceImports
      observations == Rows(files, "observations") \cap EvidenceImports
  IN  /\ observations \subseteq Rows(files, "content") /\ observations \subseteq Rows(files, "snapshots")
      /\ observations = receipts
      /\ Rows(files, "content") # {} => "index" \in DOMAIN files /\ files["index"] = observations

EnrichmentValidates(files) == Rows(files, "enrichment") \subseteq Enrichments

\* _preflight_workspace and validate_restored_workspace
Governed(files, class) ==
  /\ MemoryValidates(files) /\ EnrichmentValidates(files)
  /\ "curation policy" \in DOMAIN files => CurationValidates(files)
  /\ class = "full" => EvidenceValidates(files)

\* _validate_manifest, _safe_zip_members, _load_archive_metadata
MetadataValidates(a) ==
  /\ a.known
  /\ {"policy", "memory"} \subseteq DOMAIN a.listed
  /\ DOMAIN a.members = DOMAIN a.listed
  /\ Cardinality(DOMAIN a.members) + 2 <= MaxMembers

\* Mutant: the hashes of what is written are not compared.
Unhashed(a) == DOMAIN a.listed \cap Shell = {}

\* The bytes have their hashes, and no file is one of restore's own.
Writable(a) == a.members = a.listed /\ DOMAIN a.listed \cap Shell = {}

\* validate_archive: it reconstructs a governed workspace.
Restorable(a) == MetadataValidates(a) /\ Writable(a) /\ Governed(a.listed, a.class)

-----------------------------------------------------------------------------
VARIABLES
  workspace,  \* the files of the workspace at each path
  archive,    \* the archive under each name, or None
  op,         \* volatile: the running export or restore of each process
  command,    \* volatile: the one other command
  origin,     \* the archive a workspace was restored from, until a command
              \* changes it (observation only)
  commands,   \* other commands begun (bounded by MaxCommands)
  transfers,  \* exports and restores begun (bounded by MaxTransfers)
  faults      \* crashes of other commands (bounded by MaxFaults)

vars == <<workspace, archive, op, command, origin, commands, transfers, faults>>

Idle == [at |-> "idle"]

\* quiet: no other command has run here since it began (observation only).
Exporting(path, output, request) ==
  [at |-> "check", path |-> path, output |-> output, class |-> request.class, extra |-> request.extra,
   group |-> 1, names |-> {}, read |-> <<>>, quiet |-> command = Idle \/ command.path # path]

Restoring(output, path) == [at |-> "open", path |-> path, output |-> output, archive |-> None]

Init ==
  /\ \E b \in Beginnings, path \in Paths, output \in Outputs :
       /\ workspace = [x \in Paths |-> IF x = path THEN b.files ELSE Nothing]
       /\ archive = [x \in Outputs |-> IF x = output THEN b.archive ELSE None]
  /\ op = [p \in Procs |-> Idle] /\ command = Idle /\ origin = [p \in Paths |-> None]
  /\ commands = 0 /\ transfers = 0 /\ faults = 0

At(p, stage) == op[p].at = stage
Go(p, next) == op' = [op EXCEPT ![p] = next]

-----------------------------------------------------------------------------
(* The other commands: one file after the other, each by rename from a     *)
(* temporary file beside it, but for two that are written in place.        *)

InPlace == {"index", "curation policy"}

TempOf(name) ==
  CASE name \in CurationTree -> "curation temp"
    [] name \in ReceiptsTree -> "receipts temp"
    [] name = "memory" -> "memory temp"
    [] OTHER -> "staging temp"

\* Rows that are there are not appended again.
Unless(files, id, name) == IF id \in Rows(files, name) THEN <<>> ELSE <<name>>

\* The files a command writes, in order.
Order(files, does, id) ==
  CASE does = "import" /\ id \in EvidenceImports ->
         Unless(files, id, "snapshots") \o Unless(files, id, "content") \o Unless(files, id, "observations")
         \o Unless(files, id, "receipts") \o <<"index">>
    [] does = "import" /\ id \notin EvidenceImports ->
         Unless(files, id, "observations") \o Unless(files, id, "receipts")
    [] does = "propose" ->
         (IF "curation policy" \in DOMAIN files THEN <<>> ELSE <<"curation policy">>) \o <<"candidates">>
    [] does = "review" -> <<"decisions">>
    [] does = "apply" -> <<"memory", "mutations", "supersession", "applications">>
    [] does = "mutate" -> <<"memory", "mutations">>

VersionOf(files, id) == (CHOOSE r \in Rows(files, "memory") : r.id = id).version

May(files, does, id) ==
  CASE does = "import" ->
         /\ id \in Imports
         /\ id \in EvidenceImports => Rows(files, "index") # Rows(files, "observations") \cap EvidenceImports
                                      \/ id \notin Rows(files, "receipts")
         /\ id \notin EvidenceImports => id \notin Rows(files, "receipts")
    [] does = "propose" -> id \in Candidates \ Rows(files, "candidates") /\ Cites[id] \in Rows(files, "observations")
    [] does = "review" -> id \in Rows(files, "candidates") \ Rows(files, "decisions")
    [] does = "apply" -> /\ id \in Rows(files, "decisions") \ {a.id : a \in Rows(files, "applications")}
                         /\ Torn \notin Rows(files, "curation policy")
                         /\ \A r \in Rows(files, "memory") : r.id = id => r.version = 0
    [] does = "mutate" -> \E r \in Rows(files, "memory") : r.id = id /\ r.version < MaxVersion

BeginCommand(path, does, id) ==
  /\ command = Idle /\ commands < MaxCommands /\ commands' = commands + 1
  /\ workspace[path] # Nothing /\ May(workspace[path], does, id)
  /\ command' = [at |-> "stage", path |-> path, does |-> does, id |-> id, todo |-> Order(workspace[path], does, id),
                 version |-> IF does = "mutate" THEN VersionOf(workspace[path], id) + 1 ELSE 0]
  /\ op' = [p \in Procs |->
              IF "quiet" \in DOMAIN op[p] /\ op[p].path = path THEN [op[p] EXCEPT !.quiet = FALSE] ELSE op[p]]
  /\ origin' = [origin EXCEPT ![path] = None]
  /\ UNCHANGED <<workspace, archive, transfers, faults>>

\* An apply writes all its temporary files before it renames the first.  A file
\* that is written in place is half written, for everybody to see.
StageFile ==
  /\ command.at = "stage"
  /\ command' = [command EXCEPT !.at = "replace"]
  /\ LET path == command.path  name == Head(command.todo)
     IN  workspace' = IF name \in InPlace
                        THEN [workspace EXCEPT ![path] = With(@, name, {Torn})] ELSE workspace
  /\ UNCHANGED <<archive, op, origin, commands, transfers, faults>>

\* The rows of a file after the command has written it.
Written(files, name) ==
  LET row == [id |-> command.id, version |-> command.version]
  IN  CASE name \in {"applications"} \/ (name = "mutations" /\ command.does = "mutate") -> Rows(files, name) \cup {row}
        [] name = "memory" /\ command.does = "apply" /\ (\E r \in Rows(files, name) : r.id = row.id) -> files[name]
        [] name = "memory" -> {r \in Rows(files, name) : r.id # row.id} \cup {row}
        [] name = "index" -> Rows(files, "observations") \cap EvidenceImports
        [] name = "curation policy" -> {}
        [] name \in {"mutations", "supersession"} -> Rows(files, name)
        [] OTHER -> Rows(files, name) \cup {command.id}

ReplaceFile ==
  /\ command.at = "replace"
  /\ LET path == command.path  name == Head(command.todo)  todo == Tail(command.todo)
         files == workspace[path]
     IN  /\ workspace' = [workspace EXCEPT ![path] = With(files, name, Written(files, name))]
         /\ command' = IF todo = <<>> THEN Idle
                       ELSE [command EXCEPT !.todo = todo,
                                            !.at = IF command.does = "apply" THEN "replace" ELSE "stage"]
  /\ UNCHANGED <<archive, op, origin, commands, transfers, faults>>

\* The temporary files of the running command.
Staged ==
  IF command.at # "replace" THEN {}
  ELSE {TempOf(n) : n \in (IF command.does = "apply" THEN {command.todo[i] : i \in DOMAIN command.todo}
                           ELSE {Head(command.todo)}) \ InPlace}

\* What dies leaves its temporary files, or a file half written.
CrashCommand ==
  /\ command # Idle /\ faults < MaxFaults /\ faults' = faults + 1
  /\ LET path == command.path  files == workspace[path]
     IN  workspace' = [workspace EXCEPT ![path] =
                         [n \in DOMAIN files \cup Staged |-> IF n \in Staged THEN {} ELSE files[n]]]
  /\ command' = Idle
  /\ UNCHANGED <<archive, op, origin, commands, transfers>>

-----------------------------------------------------------------------------
(* Exporting.                                                              *)

BeginExport(p, path, output, request) ==
  /\ At(p, "idle") /\ workspace[path] # Nothing
  /\ transfers < MaxTransfers /\ transfers' = transfers + 1
  /\ Go(p, Exporting(path, output, request))
  /\ UNCHANGED <<workspace, archive, command, origin, commands, faults>>

\* What is in the workspace, the temporary files of a running command too.
Present(path) ==
  DOMAIN workspace[path]
  \cup (IF command # Idle /\ command.path = path THEN Staged ELSE {})

\* With manifest.json, migration.json and the enrichment that is given.
Fits(o) ==
  Cardinality(Payload(o.class, Present(o.path)) \cup (IF o.extra = None THEN {} ELSE {"enrichment"})) + 2
    <= MaxMembers

\* restore.export_restore: the workspace is checked and its files are read
\* only to be counted ...
CheckWorkspace(p) ==
  /\ At(p, "check") /\ Governed(workspace[op[p].path], op[p].class)
  /\ Go(p, [op[p] EXCEPT !.at = "count"])
  /\ UNCHANGED <<workspace, archive, command, origin, commands, transfers, faults>>

CountMembers(p) ==
  /\ At(p, "count") /\ Fits(op[p])
  /\ Go(p, [op[p] EXCEPT !.at = "recheck"])
  /\ UNCHANGED <<workspace, archive, command, origin, commands, transfers, faults>>

\* ... and restore_legacy.export_restore does both again.
RecheckWorkspace(p) ==
  /\ At(p, "recheck") /\ Governed(workspace[op[p].path], op[p].class)
  /\ Go(p, [op[p] EXCEPT !.at = "list"])
  /\ UNCHANGED <<workspace, archive, command, origin, commands, transfers, faults>>

\* The stage of an export that has listed and read so much.
Onward(o) ==
  IF o.group <= Len(Groups(o.class)) /\ (o.names = {} \/ o.class = "full") THEN "list"
  ELSE IF o.names # {} THEN "read" ELSE "classify"

ListGroup(p) ==
  /\ At(p, "list")
  /\ LET found == (Present(op[p].path) \cap Groups(op[p].class)[op[p].group])
                  \cup (IF "memory" \in Groups(op[p].class)[op[p].group] THEN {"memory"} ELSE {})
         next == [op[p] EXCEPT !.names = @ \cup found, !.group = @ + 1]
     IN  Go(p, [next EXCEPT !.at = Onward(next)])
  /\ UNCHANGED <<workspace, archive, command, origin, commands, transfers, faults>>

Position(name) == CHOOSE i \in DOMAIN Names : Names[i] = name
First(names) == CHOOSE n \in names : \A m \in names : Position(n) <= Position(m)

\* A file that was listed is read; a missing memory is an empty one.
ReadFile(p) ==
  /\ At(p, "read")
  /\ LET name == First(op[p].names)
         next == [op[p] EXCEPT !.names = @ \ {name},
                               !.read = With(@, name, Rows(workspace[op[p].path], name))]
     IN  /\ name \in Present(op[p].path) \cup {"memory"}
         /\ Go(p, [next EXCEPT !.at = Onward(next)])
  /\ UNCHANGED <<workspace, archive, command, origin, commands, transfers, faults>>

\* A temporary file that was listed is gone: a minimum export leaves it out when
\* it is not there to be looked at (_add_tree); gone before it is read, and in a
\* full export, it is an error.
SkipFile(p) ==
  /\ At(p, "read") /\ op[p].class = "minimum"
  /\ LET name == First(op[p].names)
         next == [op[p] EXCEPT !.names = @ \ {name}]
     IN  /\ name \in CurationTree \cup ReceiptsTree /\ name \notin Present(op[p].path)
         /\ Go(p, [next EXCEPT !.at = Onward(next)])
  /\ UNCHANGED <<workspace, archive, command, origin, commands, transfers, faults>>

\* Mutant: it knows one file under curation/ only too.
ClassifiedStrictly(o) == {"memory temp", "curation temp"} \cap DOMAIN o.read = {}

\* _artifact_class knows one file under memory/ only.
Classified(o) == "memory temp" \notin DOMAIN o.read

Classify(p) ==
  /\ At(p, "classify") /\ Classified(op[p])
  /\ Go(p, [op[p] EXCEPT !.read = IF op[p].extra = None THEN @ ELSE With(@, "enrichment", {op[p].extra}),
                         !.at = "look"])
  /\ UNCHANGED <<workspace, archive, command, origin, commands, transfers, faults>>

LookForOutput(p) ==
  /\ At(p, "look") /\ archive[op[p].output] = None
  /\ Go(p, [op[p] EXCEPT !.at = "save"])
  /\ UNCHANGED <<workspace, archive, command, origin, commands, transfers, faults>>

ArchiveOf(o) == [class |-> o.class, known |-> TRUE, listed |-> o.read, members |-> o.read]

\* os.replace(temp, output)
SaveArchive(p) ==
  /\ At(p, "save")
  /\ archive' = [archive EXCEPT ![op[p].output] = ArchiveOf(op[p])]
  /\ Go(p, Idle)
  /\ UNCHANGED <<workspace, command, origin, commands, transfers, faults>>

-----------------------------------------------------------------------------
(* Restoring.  Validating an archive is restoring it to a directory that   *)
(* is thrown away.                                                         *)

BeginRestore(p, output, path) ==
  /\ At(p, "idle") /\ workspace[path] = Nothing
  /\ transfers < MaxTransfers /\ transfers' = transfers + 1
  /\ Go(p, Restoring(output, path))
  /\ UNCHANGED <<workspace, archive, command, origin, commands, faults>>

\* The archive that is open stays what it is.
OpenArchive(p) ==
  /\ At(p, "open")
  /\ LET a == archive[op[p].output]
     IN  a # None /\ MetadataValidates(a) /\ Go(p, [op[p] EXCEPT !.archive = a, !.at = "write"])
  /\ UNCHANGED <<workspace, archive, command, origin, commands, transfers, faults>>

WriteFiles(p) ==
  /\ At(p, "write") /\ Writable(op[p].archive)
  /\ Go(p, [op[p] EXCEPT !.at = "validate"])
  /\ UNCHANGED <<workspace, archive, command, origin, commands, transfers, faults>>

ValidateRestored(p) ==
  /\ At(p, "validate") /\ Governed(op[p].archive.listed, op[p].archive.class)
  /\ Go(p, [op[p] EXCEPT !.at = "publish"])
  /\ UNCHANGED <<workspace, archive, command, origin, commands, transfers, faults>>

\* Mutant: what is at the destination is replaced.
Anywhere(path) == TRUE

\* os.replace does not replace a workspace.
Free(path) == workspace[path] = Nothing

Publish(p) ==
  /\ At(p, "publish") /\ Free(op[p].path)
  /\ workspace' = [workspace EXCEPT ![op[p].path] = op[p].archive.members]
  /\ origin' = [origin EXCEPT ![op[p].path] = op[p].archive]
  /\ Go(p, Idle)
  /\ UNCHANGED <<archive, command, commands, transfers, faults>>

-----------------------------------------------------------------------------

\* A check that fails.
Refused(p) ==
  \/ op[p].at \in {"check", "recheck"} /\ ~ Governed(workspace[op[p].path], op[p].class)
  \/ At(p, "count") /\ ~ Fits(op[p])
  \/ At(p, "read") /\ First(op[p].names) \notin Present(op[p].path) \cup {"memory"}
  \/ At(p, "classify") /\ ~ Classified(op[p])
  \/ At(p, "look") /\ archive[op[p].output] # None
  \/ At(p, "open") /\ (IF archive[op[p].output] = None THEN TRUE ELSE ~ MetadataValidates(archive[op[p].output]))
  \/ At(p, "write") /\ ~ Writable(op[p].archive)
  \/ At(p, "validate") /\ ~ Governed(op[p].archive.listed, op[p].archive.class)
  \/ At(p, "publish") /\ ~ Free(op[p].path)

\* Whatever was written so far is removed.
Refuse(p) ==
  /\ Refused(p)
  /\ Go(p, Idle)
  /\ UNCHANGED <<workspace, archive, command, origin, commands, transfers, faults>>

\* A private directory or file is left that nothing looks at.
Crash(p) ==
  /\ ~ At(p, "idle")
  /\ Go(p, Idle)
  /\ UNCHANGED <<workspace, archive, command, origin, commands, transfers, faults>>

Export(p) ==
  \/ CheckWorkspace(p) \/ CountMembers(p) \/ RecheckWorkspace(p) \/ ListGroup(p) \/ ReadFile(p)
  \/ SkipFile(p) \/ Classify(p) \/ LookForOutput(p) \/ SaveArchive(p)

Restore(p) == OpenArchive(p) \/ WriteFiles(p) \/ ValidateRestored(p) \/ Publish(p)

Command ==
  \/ \E path \in Paths, does \in {"import", "propose", "review", "apply", "mutate"}, id \in Imports \cup Candidates :
       BeginCommand(path, does, id)
  \/ StageFile \/ ReplaceFile \/ CrashCommand

Next ==
  \/ Command
  \/ \E p \in Procs :
       \/ \E path \in Paths, output \in Outputs, request \in Requests : BeginExport(p, path, output, request)
       \/ \E path \in Paths, output \in Outputs : BeginRestore(p, output, path)
       \/ Export(p) \/ Restore(p) \/ Refuse(p) \/ Crash(p)

Spec == Init /\ [][Next]_vars

-----------------------------------------------------------------------------
(* Properties.                                                             *)

ExportStages == {"check", "count", "recheck", "list", "read", "classify", "look", "save"}

IsExport(o) ==
  /\ o = [at |-> o.at, path |-> o.path, output |-> o.output, class |-> o.class, extra |-> o.extra,
          group |-> o.group, names |-> o.names, read |-> o.read, quiet |-> o.quiet]
  /\ o.at \in ExportStages /\ o.path \in Paths /\ o.output \in Outputs /\ o.class \in Classes
  /\ o.extra \in {None} \cup Enrichments /\ o.group \in Nat /\ o.names \subseteq Name
  /\ IsFiles(o.read) /\ o.quiet \in BOOLEAN

IsRestore(o) ==
  /\ o = [at |-> o.at, path |-> o.path, output |-> o.output, archive |-> o.archive]
  /\ o.at \in {"open", "write", "validate", "publish"} /\ o.path \in Paths /\ o.output \in Outputs
  /\ o.at # "open" => IsArchive(o.archive)

IsCommand(c) ==
  /\ c = [at |-> c.at, path |-> c.path, does |-> c.does, id |-> c.id, todo |-> c.todo, version |-> c.version]
  /\ c.at \in {"stage", "replace"} /\ c.path \in Paths /\ c.todo \in Seq(Name) \ {<<>>} /\ c.version \in Nat
  /\ c.id \in (CASE c.does = "import" -> Imports
                [] c.does \in {"propose", "review", "apply", "mutate"} -> Candidates)

\* Type invariant: what a workspace, an archive and a running operation hold.
TypeOK ==
  /\ workspace = [x \in Paths |-> workspace[x]] /\ \A x \in Paths : IsFiles(workspace[x])
  /\ archive = [x \in Outputs |-> archive[x]] /\ \A x \in Outputs : archive[x] # None => IsArchive(archive[x])
  /\ op = [p \in Procs |-> op[p]]
  /\ \A p \in Procs : op[p] # Idle => IF "quiet" \in DOMAIN op[p] THEN IsExport(op[p]) ELSE IsRestore(op[p])
  /\ command # Idle => IsCommand(command)
  /\ origin = [x \in Paths |-> origin[x]] /\ \A x \in Paths : origin[x] # None => IsArchive(origin[x])

\* What has been read of a workspace that nothing else changed.
Collected(p) == op[p].at \in {"look", "save"} /\ op[p].quiet

\* An export that no command overlaps makes an archive that restores: the
\* files a class takes are closed under what its validators look up, and the
\* members are as few as the reader allows (restore._collect_workspace_artifacts,
\* "Minimum continuity is dependency-closed").
QuietExportRestores == \A p \in Procs : Collected(p) => Restorable(ArchiveOf(op[p]))

\* An archive restored and exported again in the same class holds the same
\* files, but for an enrichment, which a minimum export leaves (restore.py,
\* "A full restore-export-restore cycle must not silently discard").
ReexportSame ==
  \A p \in Procs : Collected(p) /\ op[p].extra = None /\ origin[op[p].path] # None =>
    LET a == origin[op[p].path]
        kept == DOMAIN a.listed \ (IF a.class = "minimum" THEN {"enrichment"} ELSE {})
    IN  op[p].class = a.class => op[p].read = [n \in kept |-> a.listed[n]]

\* A workspace that validates is exported whenever no command overlaps, if it
\* fits and no dead command has left a file under memory/
\* (restore_legacy._artifact_class).
QuietExportAccepted ==
  \A p \in Procs :
    op[p].at \in {"recheck", "list", "read", "classify"} /\ op[p].quiet
      /\ "memory temp" \notin DOMAIN workspace[op[p].path] => ~ Refused(p)

\* A restored workspace is whole and governed, whatever the archive came from:
\* an export that a command overlapped, or another program
\* (validate_restored_workspace, restore_archive).
RestoredGoverned ==
  \A path \in Paths : origin[path] # None =>
    /\ workspace[path] = origin[path].listed
    /\ Governed(workspace[path], origin[path].class)

\* No restore changes a workspace that is there: only a command does
\* (restore_archive, "refusing to restore over existing path").
DestinationsKept ==
  [][\A path \in Paths : workspace[path] # Nothing /\ workspace'[path] # workspace[path] =>
       command # Idle /\ command.path = path]_vars

=============================================================================
