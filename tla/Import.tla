------------------------------- MODULE Import -------------------------------
(***************************************************************************)
(* The importers of AI-CONTEXT: the core importer (tools/                  *)
(* ai_context_legacy.py), the provider importer (tools/provider_import.py) *)
(* and the evidence importer (tools/evidence_import.py over tools/         *)
(* evidence_adapters.py), with the two validators of what they write.      *)
(*                                                                         *)
(* An import hashes its source, parses it, hashes it again and, when the   *)
(* hashes agree, appends rows to the workspace's files one file after the  *)
(* other (append_jsonl_unique replaces a whole file).  The source belongs  *)
(* to somebody else, who edits it, commits it and renames it at any time;  *)
(* the import may die between any two steps and be repeated.  Imports do   *)
(* not overlap each other.                                                 *)
(*                                                                         *)
(* A hash is the hashed value.  A file is a sequence of lines; in a chat   *)
(* or mail file a line is a message, and a message listed twice, under one *)
(* id, is the same line twice.                                             *)
(***************************************************************************)
EXTENDS Integers, Sequences, FiniteSets

CONSTANTS
  Sources,     \* the states the source may be in: a subset of Source
  Names,       \* names of sources
  Paths,       \* paths of files inside a source
  DrivePaths,  \* those under a Drive/ or Google Drive/ root
  Lines,       \* lines
  Adapters,    \* values of --adapter given in this instance
  ChunkSizes,  \* values of --chunk-lines
  Limits,      \* values of max_repo_file_bytes in policy.json, in lines
  Times,       \* clock readings
  None,        \* no name, no commit, no snapshot
  NoIndex,     \* content-index.json does not exist
  TornIndex,   \* half of it was written
  MaxReceipts, \* bound on receipts
  MaxEdits,    \* bound on edits and commits
  MaxFaults    \* bound on crashes and refusals

CoreAdapters == {"auto", "repo"}
\* "gemini" stands for the adapters that read one file: gemini, grok, plugin.
ProviderAdapters == {"browser-chat", "gemini"}
EvidenceAdapters == {"evidence:repo", "evidence:document",
                     "evidence:drive-export", "evidence:email"}

Body == Seq(Lines)
\* chat: a conversation export, mail: a mailbox, binary: not UTF-8 text.
Kinds == {"text", "chat", "mail", "binary"}
Member == [path : Paths, kind : Kinds, body : Body, ignored : BOOLEAN]
Layouts == {"file", "tree", "zip"}
Source == [name : Names, layout : Layouts, members : SUBSET Member]

ASSUME ConstantsAssumption ==
  /\ Sources \subseteq Source /\ DrivePaths \subseteq Paths
  \* A path of a directory names one file.
  /\ \A s \in Sources : s.layout = "tree" =>
       \A m, n \in s.members : m.path = n.path => m = n
  /\ None \notin Names \cup Paths
  /\ Adapters \subseteq CoreAdapters \cup ProviderAdapters \cup EvidenceAdapters
  /\ ChunkSizes \subseteq Nat \ {0} /\ Limits \subseteq Nat
  /\ MaxReceipts \in Nat /\ MaxEdits \in Nat /\ MaxFaults \in Nat

-----------------------------------------------------------------------------
(* Identities.                                                             *)

\* source_identity: the bytes of a file, whatever its name; the relative
\* paths and bytes of a tree, whatever its name and its .git.
Identity(s) ==
  [layout |-> s.layout,
   members |-> IF s.layout = "file" THEN {[m EXCEPT !.path = None] : m \in s.members}
                                    ELSE s.members]

\* The files a commit of the source holds.
Tracked(s) == {m \in s.members : ~ m.ignored}

\* A parsed item: where it was found and what it says.
Item(path, first, last, kind, body) ==
  [path |-> path, first |-> first, last |-> last, kind |-> kind, body |-> body]

\* receipt_id_for: the name of the source, the chunk size and the policy are
\* not hashed.
ReceiptId(hash, adapter, snapshot) ==
  [hash |-> hash, adapter |-> adapter, snapshot |-> snapshot]

VARIABLES
  source,      \* the source at the path given to the importers
  head,        \* the files of the commit its .git names, or None
  disk,        \* the workspace's JSONL files
  index,       \* staging/content-index.json
  op,          \* volatile: the running import
  parses,      \* what imports have begun to write (observation only)
  unfinished,  \* ids of imports begun and not completed (observation only)
  edits,       \* edits and commits (bounded by MaxEdits)
  faults       \* crashes and refusals (bounded by MaxFaults)

outside == <<source, head>>
written == <<disk, index, parses, unfinished>>
vars == <<source, head, disk, index, op, parses, unfinished, edits, faults>>

Stages == {"idle", "git-head", "git-status", "list", "read", "check", "append", "index"}

NoRows == [snapshots |-> {}, contents |-> {}, observations |-> {}, receipts |-> {}]

\* The record of an import; at, and what it has read and staged so far.
Running(stage, adapter, size, most, s) ==
  [at |-> stage, adapter |-> adapter, size |-> size, most |-> most,
   name |-> s.name, layout |-> s.layout, hash |-> Identity(s),
   head |-> None, clean |-> FALSE,        \* what git said
   unread |-> {}, items |-> {}, listed |-> 0, warned |-> FALSE,
   rows |-> NoRows, todo |-> <<>>,
   edits |-> 0, committed |-> FALSE]      \* observation only

Idle == [at |-> "idle"]

Init ==
  /\ source \in Sources
  /\ head \in {None} \cup {Tracked(s) : s \in {t \in Sources : {t.layout, source.layout} = {"tree"}}}
  /\ disk = NoRows
  /\ index = NoIndex /\ op = Idle
  /\ parses = {} /\ unfinished = {} /\ edits = 0 /\ faults = 0

-----------------------------------------------------------------------------
(* The world outside.  op.edits and op.committed note what happened to the *)
(* source while an import was reading it.                                  *)

Reading == op.at \in {"git-head", "git-status", "list", "read", "check"}

Edit ==
  /\ edits < MaxEdits /\ edits' = edits + 1
  /\ \E s \in Sources \ {source} : source' = s
  /\ op' = IF Reading THEN [op EXCEPT !.edits = @ + 1] ELSE op
  /\ UNCHANGED <<head, written, faults>>

\* git commit -a, with the ignored files left out.
Commit ==
  /\ edits < MaxEdits /\ edits' = edits + 1
  /\ source.layout = "tree" /\ head # Tracked(source)
  /\ head' = Tracked(source)
  /\ op' = IF Reading THEN [op EXCEPT !.committed = TRUE] ELSE op
  /\ UNCHANGED <<source, written, faults>>

-----------------------------------------------------------------------------
(* What an adapter makes of a source.                                      *)

Core(adapter) == adapter \in CoreAdapters
Evidence(adapter) == adapter \in EvidenceAdapters

\* The adapter and the layout go together: anything else is an error.
Accepts(adapter, layout) ==
  CASE adapter \in {"repo", "evidence:drive-export"} -> layout # "file"
    [] adapter = "evidence:repo" -> layout = "tree"
    [] OTHER -> TRUE

\* The kinds of files the adapter parses.
ParsedKinds(adapter) ==
  CASE Core(adapter) -> {"text", "chat"}
    [] adapter \in ProviderAdapters -> {"chat"}
    [] adapter = "evidence:email" -> {"mail"}
    [] adapter = "evidence:drive-export" -> Kinds
    [] OTHER -> {"text", "chat", "binary"}

\* The kinds of files it looks at: the core importer warns of binary ones.
SelectedKinds(adapter) ==
  IF Core(adapter) THEN {"text", "chat", "binary"} ELSE ParsedKinds(adapter)

\* What a directory is searched for.
Seen(adapter, s, tracked) ==
  {m \in s.members : m.kind \in SelectedKinds(adapter) /\ m.path \in tracked}

\* The conversations of an archive.
Conversations(members) == {m \in members : m.kind = "chat"}

\* What lies below a Drive root.
UnderDrive(members) == {m \in members : m.path \in DrivePaths}

\* An archive of a conversation export is that export; a Drive export is
\* what lies below its root; a clean checkout is what git tracks.
Selected(adapter, s, tracked) ==
  LET seen == Seen(adapter, s, tracked)
  IN  CASE adapter = "auto" /\ s.layout = "zip" /\ Conversations(seen) # {} ->
             {CHOOSE m \in Conversations(seen) : TRUE}
        [] adapter = "evidence:drive-export" /\ UnderDrive(seen) # {} -> UnderDrive(seen)
        [] OTHER -> seen

\* The whole export is less than the adapter was told to expect.
NoDriveRoot(adapter, s) ==
  adapter = "evidence:drive-export" /\ UnderDrive(s.members) = {}

Oversized(m, layout, most) == layout = "tree" /\ Len(m.body) > most

\* One item for each message, in the order of the export.
Messages(m, path) == [i \in DOMAIN m.body |-> Item(path, 0, 0, "text", <<m.body[i]>>)]

Chunks(m, size) ==
  LET Chunk(i) == LET first == (i - 1) * size + 1
                      last == IF i * size < Len(m.body) THEN i * size ELSE Len(m.body)
                  IN  Item(m.path, first, last, "text", SubSeq(m.body, first, last))
  IN  [i \in 1 .. (Len(m.body) + size - 1) \div size |-> Chunk(i)]

\* A file the core importer keeps whole.
WholeFile(m) == <<Item(m.path, 0, 0, "text", m.body)>>

\* Bytes that are not extracted: a reference to them.
Reference(m) == <<Item(m.path, 0, 0, "binary", m.body)>>

\* chatgpt, claude: a message has no file.
Conversation(m) == Messages(m, None)

\* gemini, and the others of one file.
Takeout(m) == Messages(m, None)

\* A saved page or transcript, one of many.
Transcript(m) == Messages(m, m.path)

\* A mailbox.
Mail(m) == Messages(m, m.path)

CoreItems(adapter, m, layout) ==
  IF adapter = "auto" /\ m.kind = "chat" /\ layout # "tree" THEN Conversation(m) ELSE WholeFile(m)

EvidenceItems(adapter, m, size) ==
  IF adapter = "evidence:email" /\ m.kind = "mail" THEN Mail(m)
  ELSE IF m.kind \in {"mail", "binary"} THEN Reference(m) ELSE Chunks(m, size)

\* The items of one file, as a list.
ItemsOf(adapter, m, layout, size) ==
  CASE adapter = "browser-chat" -> Transcript(m)
    [] adapter = "gemini" -> Takeout(m)
    [] Core(adapter) -> CoreItems(adapter, m, layout)
    [] OTHER -> EvidenceItems(adapter, m, size)

\* Mutant: nothing is said of a file that is too large.
WarnsOfBinary(adapter, m, layout, most) == m.kind = "binary"

\* A file that is skipped, or kept as a reference to its bytes.
WarnsOf(adapter, m, layout, most) ==
  m.kind = "binary" \/ Oversized(m, layout, most)

Parsed(adapter, m, layout, most) ==
  m.kind \in ParsedKinds(adapter) /\ ~ Oversized(m, layout, most)

-----------------------------------------------------------------------------
(* An import reads.                                                        *)

Begin(adapter, size, most) ==
  /\ op.at = "idle"
  /\ Accepts(adapter, source.layout)
  /\ \/ Cardinality({p.id : p \in parses}) < MaxReceipts
     \/ \E p \in parses : p.id.adapter = adapter /\ p.id.hash = Identity(source)
  /\ op' = Running(IF adapter = "evidence:repo" THEN "git-head" ELSE "list",
                   adapter, size, most, source)
  /\ UNCHANGED <<outside, written, edits, faults>>

\* git rev-parse HEAD
ReadHead ==
  /\ op.at = "git-head"
  /\ op' = [op EXCEPT !.head = head, !.at = IF head = None THEN "list" ELSE "git-status"]
  /\ UNCHANGED <<outside, written, edits, faults>>

\* Mutant: a worktree with local changes passes for the commit.
AssumedClean(s, commit) == TRUE

\* git status: the files git knows and the new ones against HEAD as it is now.
Clean(s, commit) == Tracked(s) = commit

ReadStatus ==
  /\ op.at = "git-status"
  /\ op' = [op EXCEPT !.clean = Clean(source, head), !.at = "list"]
  /\ UNCHANGED <<outside, written, edits, faults>>

Present == source.name = op.name /\ source.layout = op.layout

\* git ls-files, for a clean checkout: the files of HEAD as it is now.
TrackedPaths == IF op.clean THEN {m.path : m \in head} ELSE Paths

Progress(unread) == IF unread = {} THEN "check" ELSE "read"

List ==
  /\ op.at = "list" /\ Present
  /\ LET found == Selected(op.adapter, source, TrackedPaths) IN
       op' = [op EXCEPT !.unread = found, !.at = Progress(found),
                        !.warned = NoDriveRoot(op.adapter, source)]
  /\ UNCHANGED <<outside, written, edits, faults>>

\* The file as it is when it is read; an archive was opened when it was listed.
Now(m) ==
  IF op.layout = "zip" THEN {m}
  ELSE {x \in source.members : Present /\ x.path = m.path}

ReadFile ==
  /\ op.at = "read"
  /\ \E listed \in op.unread : \E m \in Now(listed) :
       LET items == IF Parsed(op.adapter, m, op.layout, op.most)
                      THEN ItemsOf(op.adapter, m, op.layout, op.size) ELSE <<>>
           unread == op.unread \ {listed}
       IN  op' = [op EXCEPT !.items = @ \cup {items[i] : i \in DOMAIN items},
                            !.listed = @ + Len(items),
                            !.warned = @ \/ WarnsOf(op.adapter, m, op.layout, op.most),
                            !.unread = unread, !.at = Progress(unread)]
  /\ UNCHANGED <<outside, written, edits, faults>>

\* The adapters that look whether a file is there just before they read it; the
\* others look at every file first.
LooksFirst(adapter) == Core(adapter) \/ adapter \in {"browser-chat", "evidence:document", "evidence:email"}

\* A listed file is gone when it is looked at, and nothing is said of it; gone
\* after that, it is an error.
SkipFile ==
  /\ op.at = "read" /\ op.layout = "tree" /\ LooksFirst(op.adapter)
  /\ \E listed \in op.unread :
       LET unread == op.unread \ {listed}
       IN  Now(listed) = {} /\ op' = [op EXCEPT !.unread = unread, !.at = Progress(unread)]
  /\ UNCHANGED <<outside, written, edits, faults>>

\* A tree, an archive or a conversation may have nothing to import.
EmptyAllowed ==
  \/ Core(op.adapter) /\ (op.layout # "file" \/ Conversations(op.hash.members) # {})
  \/ op.adapter \in {"evidence:repo", "evidence:drive-export"} /\ op.layout = "tree"

\* gemini needs the one file it reads.
OneFile == Cardinality(Selected("gemini", source, Paths)) = 1 /\ ~ op.warned

Suitable == (op.items # {} \/ EmptyAllowed) /\ (op.adapter = "gemini" => OneFile)

-----------------------------------------------------------------------------
(* An import writes.                                                       *)

\* Mutant: the source is not hashed a second time.
NeverRehashed == TRUE

\* The source was hashed again and is what it was.
Unchanged == Identity(source) = op.hash

\* snapshot_core: the commit and whether the worktree was clean.
SnapshotOf(o) ==
  [hash |-> o.hash, adapter |-> o.adapter, head |-> o.head, clean |-> o.clean]

IdOf(o) ==
  ReceiptId(o.hash, o.adapter, IF Evidence(o.adapter) THEN SnapshotOf(o) ELSE None)

\* repository_root is part of the observations of a core import of a tree.
Observation(o, item) ==
  [receipt |-> IdOf(o), item |-> item,
   root |-> IF Core(o.adapter) /\ o.layout = "tree" THEN o.name ELSE None]

ContentOf(obs) == [kind |-> obs.item.kind, body |-> obs.item.body]

Generic(o) ==
  Core(o.adapter) /\ o.layout # "tree"
  /\ (o.adapter = "repo" \/ \A m \in o.hash.members : m.kind # "chat")

StatusOf(o) ==
  CASE Generic(o) -> "generic" [] o.warned -> "partial" [] OTHER -> "exact"

\* Mutant: rows are counted as they are listed.
CountListed(o, observations) == o.listed

\* The core importer counts a row twice that is listed twice.
CountOf(o, observations) ==
  IF Core(o.adapter) THEN o.listed ELSE Cardinality(observations)

NewReceipt(o, observations, time) ==
  [id |-> IdOf(o), status |-> StatusOf(o), time |-> time,
   count |-> CountOf(o, observations),
   contents |-> IF Evidence(o.adapter) THEN Cardinality({ContentOf(x) : x \in observations}) ELSE 0]

\* Mutant: a repeated import makes a receipt of its own.
NoneExisting(id) == {}

\* The receipts there are for the id.
Existing(id) == {r \in disk.receipts : r.id = id}

RowsOf(o, time) ==
  LET observations == {Observation(o, item) : item \in o.items}
      existing == Existing(IdOf(o))
  IN  [snapshots |-> IF Evidence(o.adapter) THEN {SnapshotOf(o)} ELSE {},
       contents |-> IF Evidence(o.adapter) THEN {ContentOf(x) : x \in observations} ELSE {},
       observations |-> observations,
       receipts |-> IF existing = {} THEN {NewReceipt(o, observations, time)} ELSE existing]

\* Mutant: the receipt is written first.
ReceiptFirst(adapter) ==
  IF Evidence(adapter) THEN <<"receipts", "snapshots", "contents", "observations">>
                       ELSE <<"receipts", "observations">>

\* Mutant: the observations are written before what they refer to.
ObservationsFirst(adapter) ==
  IF Evidence(adapter) THEN <<"observations", "receipts", "snapshots", "contents">>
                       ELSE <<"observations", "receipts">>

\* The files an import appends to, in this order.
Order(adapter) ==
  IF Evidence(adapter) THEN <<"snapshots", "contents", "observations", "receipts">>
                       ELSE <<"observations", "receipts">>

CheckSource ==
  /\ op.at = "check" /\ Present /\ Unchanged /\ Suitable
  /\ \E t \in Times :
       op' = [op EXCEPT !.rows = RowsOf(op, t), !.todo = Order(op.adapter), !.at = "append"]
  /\ UNCHANGED <<outside, written, edits, faults>>

\* An id that is there with another payload.
Collides == \E r \in op.rows.receipts, q \in disk.receipts : q.id = r.id /\ q # r

\* The command ends with an error.
Unusable ==
  \/ op.at = "list" /\ ~ Present
  \/ op.at = "read" /\ \E m \in op.unread : Now(m) = {}
  \/ op.at = "check" /\ ~ (Present /\ Unchanged /\ Suitable)
  \/ op.at = "append" /\ Collides

Reject ==
  /\ Unusable
  /\ op' = Idle
  /\ UNCHANGED <<outside, written, edits, faults>>

Parse == [id |-> IdOf(op), rows |-> op.rows.observations, listed |-> op.listed]

\* append_jsonl_unique replaces one file by itself and the rows it lacks.
AppendRows ==
  /\ op.at = "append" /\ op.todo # <<>> /\ ~ Collides
  /\ LET file == Head(op.todo)
         last == Tail(op.todo) = <<>>
         done == last /\ ~ Evidence(op.adapter)
     IN  /\ disk' = [disk EXCEPT ![file] = @ \cup op.rows[file]]
         /\ unfinished' = IF done THEN unfinished \ {IdOf(op)} ELSE unfinished \cup {IdOf(op)}
         /\ op' = IF done THEN Idle
                  ELSE [op EXCEPT !.at = IF last THEN "index" ELSE "append", !.todo = Tail(@)]
  /\ parses' = parses \cup {Parse}
  /\ UNCHANGED <<outside, index, edits, faults>>

\* The content index: which observations each content object has.
IndexOf(observations) == {x \in observations : Evidence(x.receipt.adapter)}

RebuildIndex ==
  /\ op.at = "index"
  /\ index' = IndexOf(disk.observations)
  /\ unfinished' = unfinished \ {IdOf(op)}
  /\ op' = Idle
  /\ UNCHANGED <<outside, disk, parses, edits, faults>>

\* content-index.json is written in place.
Crash ==
  /\ op.at # "idle"
  /\ faults < MaxFaults /\ faults' = faults + 1
  /\ op' = Idle
  /\ index' \in {index} \cup (IF op.at = "index" THEN {TornIndex} ELSE {})
  /\ UNCHANGED <<outside, disk, parses, unfinished, edits>>

Next ==
  \/ \E a \in Adapters, k \in ChunkSizes, l \in Limits : Begin(a, k, l)
  \/ ReadHead \/ ReadStatus \/ List \/ ReadFile \/ SkipFile
  \/ CheckSource \/ Reject \/ AppendRows \/ RebuildIndex
  \/ Edit \/ Commit \/ Crash

Spec == Init /\ [][Next]_vars

-----------------------------------------------------------------------------
(* The validators.                                                         *)

RowsUnder(id) == {x \in disk.observations : x.receipt = id}

\* ai_context.py validate
CoreValidates ==
  /\ \A r, q \in disk.receipts : r.id = q.id => r = q
  /\ \A x \in disk.observations : Existing(x.receipt) # {}
  /\ \A r \in disk.receipts : r.count = Cardinality(RowsUnder(r.id))

\* validate_evidence.py
EvidenceValidates ==
  LET receipts == {r \in disk.receipts : Evidence(r.id.adapter)}
      observations == IndexOf(disk.observations)
  IN  /\ \A r \in receipts : r.id.snapshot \in disk.snapshots
      /\ \A x \in observations :
           /\ ContentOf(x) \in disk.contents
           /\ x.receipt.snapshot \in disk.snapshots
           /\ \E r \in receipts : r.id = x.receipt
      /\ \A r \in receipts :
           /\ r.count = Cardinality(RowsUnder(r.id))
           /\ r.contents = Cardinality({ContentOf(x) : x \in RowsUnder(r.id)})
      /\ disk.contents # {} => index = observations

-----------------------------------------------------------------------------
(* Properties.                                                             *)

Hash == [layout : Layouts,
         members : SUBSET [path : Paths \cup {None}, kind : Kinds, body : Body, ignored : BOOLEAN]]
Snapshot == [hash : Hash, adapter : Adapters, head : {None} \cup SUBSET Member, clean : BOOLEAN]
Id == [hash : Hash, adapter : Adapters, snapshot : {None} \cup Snapshot]
Items == [path : Paths \cup {None}, first : Nat, last : Nat, kind : {"text", "binary"}, body : Body]
Row == [receipt : Id, item : Items, root : Names \cup {None}]
Receipt == [id : Id, status : {"exact", "partial", "generic"}, time : Times,
            count : Nat, contents : Nat]
Files == [snapshots : SUBSET Snapshot, contents : SUBSET [kind : {"text", "binary"}, body : Body],
          observations : SUBSET Row, receipts : SUBSET Receipt]

Operation ==
  [at : Stages \ {"idle"}, adapter : Adapters, size : ChunkSizes, most : Limits,
   name : Names, layout : Layouts, hash : Hash,
   head : {None} \cup SUBSET Member, clean : BOOLEAN,
   unread : SUBSET Member, items : SUBSET Items, listed : Nat, warned : BOOLEAN,
   rows : Files, todo : Seq({"snapshots", "contents", "observations", "receipts"}),
   edits : Nat, committed : BOOLEAN]

\* The files hold rows of their kinds (schemas/receipt, schemas/observation),
\* whatever is imported, edited or interrupted.
TypeOK ==
  /\ source \in Sources /\ head \in {None} \cup SUBSET Member
  /\ disk \in Files
  /\ index \in {NoIndex, TornIndex} \cup SUBSET Row
  /\ op = Idle \/ op \in Operation
  /\ parses \subseteq [id : Id, rows : SUBSET Row, listed : Nat]
  /\ unfinished \subseteq Id
  /\ edits \in 0 .. MaxEdits /\ faults \in 0 .. MaxFaults

\* A receipt is the last thing an import writes of what it saw: the rows it
\* counts are there, whenever the process dies and whatever was imported
\* before or after (cmd_import, append_jsonl_unique).
ReceiptsBacked ==
  \A r \in disk.receipts : \E p \in parses :
    /\ p.id = r.id /\ p.rows \subseteq disk.observations
    /\ r.count = IF Core(r.id.adapter) THEN p.listed ELSE Cardinality(p.rows)

\* What an evidence observation refers to, its content and the snapshot of
\* its source, is there at any moment, also between two appends and after a
\* crash (evidence_import.cmd_import).
EvidenceResolves ==
  \A x \in IndexOf(disk.observations) :
    ContentOf(x) \in disk.contents /\ x.receipt.snapshot \in disk.snapshots

ItemsIn(m, o) ==
  LET items == ItemsOf(o.adapter, m, o.layout, o.size) IN {items[i] : i \in DOMAIN items}

\* The files of the source whose hash the import took, under their names.
Hashed(o) ==
  IF o.layout # "file" THEN o.hash.members
  ELSE {[m EXCEPT !.path = p] : m \in o.hash.members, p \in Paths}

\* An import about to write, whose source changed once at most while it was
\* being read.  A source that changes and changes back has the same hash.
Undisturbed == op.at = "append" /\ op.edits < 2

\* Every row that is written says what a file of the hashed source says,
\* although each file is read at another moment (cmd_import, "source changed
\* during import").
RowsOfTheSource ==
  Undisturbed => \A item \in op.items : \E m \in Hashed(op) : item \in ItemsIn(m, op)

\* A parse that is recorded as exact left out nothing of what its adapter
\* looks at (parse_status in import_repo, parse_repository, ...).
ExactIsComplete ==
  Undisturbed /\ ~ op.committed /\ op.layout # "file" /\ StatusOf(op) = "exact" =>
    \A m \in Selected(op.adapter, op.hash, IF op.clean THEN {h.path : h \in op.head} ELSE Paths) :
      ItemsIn(m, op) \subseteq op.items

\* git_clean_head evidence is the commit it names, unless a commit was made
\* while git was asked for HEAD, the status and the files one after another
\* (git_snapshot_metadata, parse_repository).
CleanUnlessCommitted ==
  Undisturbed /\ ~ op.committed /\ op.clean =>
    \A item \in op.items : \E m \in op.head : item \in ItemsIn(m, op)

\* No receipt id was given to two different parses (of a renamed source, or
\* under another chunk size or policy), nor to a list with repetitions.
OneParseEach ==
  \A p \in parses :
    /\ \A q \in parses : q.id = p.id => q = p
    /\ Core(p.id.adapter) => p.listed = Cardinality(p.rows)

\* Once every import that was begun has been repeated to its end, both
\* validators accept the workspace, whatever crashes came between and
\* whatever else was imported meanwhile.
ImportsValidate ==
  op.at = "idle" /\ unfinished = {} /\ OneParseEach => CoreValidates /\ EvidenceValidates

\* An import is never refused for what an earlier one left, complete or not:
\* the receipt of the first is kept although the clock has moved on
\* (cmd_import, "id collision with different payload").
RepetitionAccepted == op.at = "append" => ~ Collides

=============================================================================
