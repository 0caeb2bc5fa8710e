------------------------------ MODULE Indexes ------------------------------
(***************************************************************************)
(* The derived indexes of AI-CONTEXT (tools/indexes.py over the helpers of *)
(* tools/indexes_legacy.py): building a vector, a graph and a search       *)
(* projection of the canonical memory, and searching them.                 *)
(*                                                                         *)
(* Any number of builds and searches overlap, and none takes a lock, while *)
(* other commands replace memory/records.jsonl.  A build writes a new      *)
(* directory, moves the old one aside and renames the new one into place;  *)
(* a search reads the files one after the other by their paths, compares   *)
(* them with what the memory projects to, and answers from them.  A        *)
(* process may die between any two steps.                                  *)
(*                                                                         *)
(* A hash is the hashed value, and a file, which carries the fingerprint   *)
(* of its memory, is kept as the memory it was built from; a word stands   *)
(* for its casefolded token; a record that is not approved counts as one   *)
(* that is not active.                                                     *)
(***************************************************************************)
EXTENDS Integers, Sequences, FiniteSets

CONSTANTS
  Procs,         \* processes that build and search
  Memories,      \* the states of the memory: sets of records
  Queries,       \* queries: [terms, limit]
  Ids,           \* memory ids
  Words,         \* words
  Stopwords,     \* routing.STOPWORDS
  Dimension,     \* the vector dimension of a word: [Words -> Nat]
  Labels,        \* source references and semantic keys
  Relations,     \* names of relationships
  Inodes,        \* inode numbers of the index directory; they are reused
  None,          \* nothing: no index, no backup, no relation ...
  MaxMutations,  \* bound on changes of the memory
  MaxFaults      \* bound on crashes and failing renames

\* from_memory_id or from_semantic_key.
Endpoint == [kind : {"memory"}, ref : Ids] \cup [kind : {"semantic"}, ref : Labels]
\* None: what the record says is not an object, or not there, or ambiguous.
Content == [relation : {None} \cup Relations, left : {None} \cup Endpoint, right : {None} \cup Endpoint]
Record == [id : Ids, active : BOOLEAN, words : Seq(Words), refs : SUBSET Labels,
           supersedes : {None} \cup Ids, relationship : BOOLEAN, content : {None} \cup Content]

\* indexes/, .indexes-build-*/, .indexes-old-*/
PrivateRules == {"indexes", "build", "old"}

Directory == [inode : Inodes, from : Memories]

ASSUME ConstantsAssumption ==
  /\ Memories \subseteq SUBSET Record
  /\ \A m \in Memories : IsFiniteSet(m) /\ \A a, b \in m : a.id = b.id => a = b
  /\ \A q \in Queries : q.terms \subseteq Words /\ q.limit \in 1 .. 100
  /\ Ids \subseteq Nat /\ None \notin Ids /\ None \notin Relations
  /\ None \notin Endpoint /\ None \notin Content /\ None \notin Directory
  /\ \A rules \in SUBSET PrivateRules : None # rules
  /\ \A q \in Queries : None # [query |-> q, found |-> None]
  /\ Dimension \in [Words -> Nat]
  /\ MaxMutations \in Nat /\ MaxFaults \in Nat

-----------------------------------------------------------------------------
(* The projections of a memory.                                            *)

Active(m) == {r \in m : r.active}

\* source_fingerprint: of the whole store, and of what may be retrieved.
Fingerprint(m) == [store |-> m, retrieval |-> Active(m)]

\* Where in the record's text its tokens are.
Tokens(r) == {i \in DOMAIN r.words : r.words[i] \notin Stopwords}
Unique(r) == {r.words[i] : i \in Tokens(r)}

VectorOf(r) ==
  [id |-> r.id, tokens |-> Cardinality(Tokens(r)),
   weights |-> [d \in {Dimension[w] : w \in Unique(r)} |->
                  Cardinality({i \in Tokens(r) : Dimension[r.words[i]] = d})]]

VectorIndex(m) == [source |-> Fingerprint(m), records |-> {VectorOf(r) : r \in Active(m)}]

Node(kind, ref) == [kind |-> kind, ref |-> ref]
Edge(from, to, relation, by) == [from |-> from, to |-> to, relation |-> relation, by |-> by]

ActiveIds(m) == {r.id : r \in Active(m)}

\* Mutant: an endpoint may be any memory.
NeverBlocked(m, end) == FALSE

Blocked(m, end) == end.kind = "memory" /\ end.ref \notin ActiveIds(m)

\* Why a relationship is not an edge.
Reason(m, r) ==
  CASE r.content = None -> "content-not-object"
    [] r.content # None /\ r.content.relation = None -> "name-missing"
    [] r.content # None /\ r.content.relation # None
         /\ None \in {r.content.left, r.content.right} -> "endpoint-missing"
    [] OTHER -> IF Blocked(m, r.content.left) \/ Blocked(m, r.content.right)
                  THEN "endpoint-not-active" ELSE "none"

Relationships(m) == {r \in Active(m) : r.relationship}
Resolved(m) == {r \in Relationships(m) : Reason(m, r) = "none"}
Unresolved(m) == {[id |-> r.id, reason |-> Reason(m, r)] : r \in Relationships(m) \ Resolved(m)}

\* The keys a relationship names: the first one also when the second
\* endpoint is blocked.
SemanticNodes(m, r) ==
  IF Reason(m, r) \notin {"none", "endpoint-not-active"} THEN {}
  ELSE {end \in {r.content.left} : end.kind = "semantic"}
       \cup {end \in {r.content.right} : end.kind = "semantic" /\ ~ Blocked(m, r.content.left)}

MemoryNodes(m) == {Node("memory", i) : i \in ActiveIds(m)}
SourceNodes(m) == {Node("observation", x) : x \in UNION {r.refs : r \in Active(m)}}
KeyNodes(m) ==
  {Node("semantic", end.ref) : end \in UNION {SemanticNodes(m, r) : r \in Relationships(m)}}

SourceEdges(m) ==
  UNION {{Edge(Node("memory", r.id), Node("observation", x), "source_ref", None) :
            x \in r.refs} : r \in Active(m)}
SupersedesEdges(m) ==
  {Edge(Node("memory", r.id), Node("memory", r.supersedes), "supersedes", None) :
     r \in {a \in Active(m) : a.supersedes \in ActiveIds(m)}}
RelationEdges(m) ==
  {Edge(Node(r.content.left.kind, r.content.left.ref),
        Node(r.content.right.kind, r.content.right.ref), r.content.relation, r.id) :
     r \in Resolved(m)}

GraphIndex(m) ==
  [source |-> Fingerprint(m),
   nodes |-> MemoryNodes(m) \cup SourceNodes(m) \cup KeyNodes(m),
   edges |-> SourceEdges(m) \cup SupersedesEdges(m) \cup RelationEdges(m),
   unresolved |-> Unresolved(m)]

SearchCache(m) ==
  [source |-> Fingerprint(m),
   postings |-> [w \in UNION {Unique(r) : r \in Active(m)} |->
                   {r.id : r \in {a \in Active(m) : w \in Unique(a)}}],
   records |-> {[id |-> r.id, tokens |-> Cardinality(Tokens(r)),
                 unique |-> Cardinality(Unique(r))] : r \in Active(m)}]

Manifest(vector, graph, search) ==
  [source |-> vector.source, vector |-> vector, graph |-> graph, search |-> search]

\* The four files of an index built from m.
Files(m) ==
  LET vector == VectorIndex(m)  graph == GraphIndex(m)  search == SearchCache(m)
  IN  [vector |-> vector, graph |-> graph, search |-> search,
       manifest |-> Manifest(vector, graph, search)]

\* In the order they are read.
Kinds == <<"vector", "graph", "search", "manifest">>

-----------------------------------------------------------------------------
(* An answer from a search cache.                                          *)

Posted(cache, t) == IF t \in DOMAIN cache.postings THEN cache.postings[t] ELSE {}

MatchedTerms(cache, id, q) == {t \in q.terms \ Stopwords : id \in Posted(cache, t)}

Found(cache, q) == UNION {Posted(cache, t) : t \in q.terms \ Stopwords}

\* Sorted by (-score, id).
Before(cache, a, b, q) ==
  LET score(id) == Cardinality(MatchedTerms(cache, id, q))
  IN  score(a) > score(b) \/ (score(a) = score(b) /\ a < b)

Place(cache, id, q) == Cardinality({other \in Found(cache, q) : Before(cache, other, id, q)})

Ranked(cache, q) ==
  {[id |-> id, place |-> Place(cache, id, q), matched |-> MatchedTerms(cache, id, q)] :
     id \in {other \in Found(cache, q) : Place(cache, other, q) < q.limit}}

-----------------------------------------------------------------------------
VARIABLES
  memory,     \* memory/records.jsonl
  gitignore,  \* the private rules in .gitignore, or None when it is missing
  index,      \* the directory indexes/, or None
  left,       \* kinds of private directories nobody will remove
  op,         \* volatile: the running command of each process
  asked,      \* what each process asked and what it was told
  ever,       \* there has been an index (observation only)
  crashed,    \* a process has died (observation only)
  mutations,  \* changes of the memory (bounded by MaxMutations)
  faults      \* crashes and failing renames (bounded by MaxFaults)

files == <<gitignore, index, left, ever>>
vars == <<memory, files, op, asked, crashed, mutations, faults>>

Idle == [at |-> "idle"]

Building(stage) == [at |-> stage, does |-> "build", raw |-> {}, temp |-> FALSE, backup |-> None]
Searching(stage) == [at |-> stage, does |-> "search", raw |-> {}, inode |-> None, read |-> <<>>]

\* A workspace as an earlier version may have left it: with an index, then
\* with a rule for it.
Init ==
  /\ memory \in Memories
  /\ gitignore \in {None} \cup {{}, {"indexes"}}
  /\ index \in {None} \cup
       (IF gitignore = {"indexes"}
          THEN [inode : Inodes, from : Memories] ELSE {})
  /\ left = {} /\ op = [p \in Procs |-> Idle] /\ asked = [p \in Procs |-> None]
  /\ ever = (index # None) /\ crashed = FALSE /\ mutations = 0 /\ faults = 0

\* Another command replaces the memory by rename.
Change ==
  /\ mutations < MaxMutations /\ mutations' = mutations + 1
  /\ memory' \in Memories \ {memory}
  /\ UNCHANGED <<files, op, asked, crashed, faults>>

At(p, stage) == op[p].at = stage
Does(p, what) == op[p].at # "idle" /\ op[p].does = what

Go(p, next) == op' = [op EXCEPT ![p] = next]

\* A build that ends, or fails, removes its new directory; the one it moved
\* aside stays where it is.
LeftBy(p) == IF Does(p, "build") /\ op[p].backup # None THEN {"old"} ELSE {}

\* The command ends with an error.
Fail(p) ==
  /\ Go(p, Idle)
  /\ left' = left \cup LeftBy(p)
  /\ asked' = IF Does(p, "search") THEN [asked EXCEPT ![p] = None] ELSE asked
  /\ UNCHANGED <<memory, gitignore, index, ever, crashed, mutations>>

-----------------------------------------------------------------------------
(* Building.                                                               *)

BeginBuild(p) ==
  /\ At(p, "idle")
  /\ Go(p, Building("ignore"))
  /\ UNCHANGED <<memory, files, asked, crashed, mutations, faults>>

\* Mutant: the rules of the first version.
IgnoredAtFirst(rules) == IF rules = None THEN None ELSE rules \cup {"indexes"}

\* A missing .gitignore is written, a present one completed.
Ignored(rules) == IF rules = None THEN PrivateRules ELSE rules \cup PrivateRules

\* _ensure_private_index_path
IgnorePrivate(p) ==
  /\ At(p, "ignore")
  /\ gitignore' = Ignored(gitignore)
  /\ Go(p, [op[p] EXCEPT !.at = "read"])
  /\ UNCHANGED <<memory, index, left, ever, asked, crashed, mutations, faults>>

\* _capture_records_snapshot reads the memory, parses it ...
ReadMemory(p) ==
  /\ At(p, "read")
  /\ Go(p, [op[p] EXCEPT !.raw = memory, !.at = "reread"])
  /\ UNCHANGED <<memory, files, asked, crashed, mutations, faults>>

\* ... and reads it again.
RereadForBuild(p) ==
  /\ At(p, "reread") /\ Does(p, "build") /\ memory = op[p].raw
  /\ Go(p, [op[p] EXCEPT !.at = "write"])
  /\ UNCHANGED <<memory, files, asked, crashed, mutations, faults>>

WriteFiles(p) ==
  /\ At(p, "write")
  /\ Go(p, [op[p] EXCEPT !.temp = TRUE, !.at = "check"])
  /\ UNCHANGED <<memory, files, asked, crashed, mutations, faults>>

\* The last look at the memory before the old index is touched.
CheckMemory(p) ==
  /\ At(p, "check") /\ memory = op[p].raw
  /\ Go(p, [op[p] EXCEPT !.at = "look"])
  /\ UNCHANGED <<memory, files, asked, crashed, mutations, faults>>

LookForIndex(p) ==
  /\ At(p, "look")
  /\ Go(p, [op[p] EXCEPT !.at = IF index = None THEN "publish" ELSE "aside"])
  /\ UNCHANGED <<memory, files, asked, crashed, mutations, faults>>

\* os.replace(index_dir, backup) fails when there is no index any more.
MoveAside(p) ==
  /\ At(p, "aside") /\ index # None
  /\ Go(p, [op[p] EXCEPT !.backup = index, !.at = "publish"])
  /\ index' = None
  /\ UNCHANGED <<memory, gitignore, left, ever, asked, crashed, mutations, faults>>

InUse == {index.inode : i \in {j \in {index} : j # None}}
         \cup {op[p].backup.inode : p \in {q \in Procs : Does(q, "build") /\ op[q].backup # None}}

\* os.replace(temp, index_dir) fails when another build has published.
Publish(p) ==
  /\ At(p, "publish") /\ index = None
  /\ \E i \in Inodes \ InUse : index' = [inode |-> i, from |-> op[p].raw]
  /\ ever' = TRUE
  /\ Go(p, IF op[p].backup = None THEN Idle ELSE [op[p] EXCEPT !.temp = FALSE, !.at = "clean"])
  /\ UNCHANGED <<memory, gitignore, left, asked, crashed, mutations, faults>>

\* It failed: because there is an index, or for a reason of its own.
FailToPublish(p) ==
  /\ At(p, "publish")
  /\ faults' = IF index = None THEN faults + 1 ELSE faults
  /\ index = None => faults < MaxFaults
  /\ Go(p, [op[p] EXCEPT !.at = "failed"])
  /\ UNCHANGED <<memory, files, asked, crashed, mutations>>

\* Mutant: the old index is not put back.
NothingToPutBack(p) == FALSE

ToPutBack(p) == op[p].backup # None /\ index = None

PutBack(p) ==
  /\ At(p, "failed") /\ ToPutBack(p)
  /\ index' = op[p].backup
  /\ Go(p, Idle)
  /\ UNCHANGED <<memory, gitignore, left, ever, asked, crashed, mutations, faults>>

Clean(p) ==
  /\ At(p, "clean")
  /\ Go(p, Idle)
  /\ UNCHANGED <<memory, files, asked, crashed, mutations, faults>>

-----------------------------------------------------------------------------
(* Searching.  Validating is a search that stops before the query.         *)

BeginSearch(p, q) ==
  /\ At(p, "idle")
  /\ Go(p, Searching("open"))
  /\ asked' = [asked EXCEPT ![p] = [query |-> q, found |-> None]]
  /\ UNCHANGED <<memory, files, crashed, mutations, faults>>

\* _index_dir_identity
OpenIndex(p) ==
  /\ At(p, "open") /\ index # None
  /\ Go(p, [op[p] EXCEPT !.inode = index.inode, !.at = "files"])
  /\ UNCHANGED <<memory, files, asked, crashed, mutations, faults>>

\* A file is read by its path: from the index that is there now.
ReadFile(p) ==
  /\ At(p, "files") /\ index # None
  /\ LET read == Append(op[p].read, index.from)
     IN  Go(p, [op[p] EXCEPT !.read = read,
                             !.at = IF Len(read) = Len(Kinds) THEN "same" ELSE "files"])
  /\ UNCHANGED <<memory, files, asked, crashed, mutations, faults>>

\* The manifest names the files that were read.
Consistent(read) ==
  Manifest(VectorIndex(read[1]), GraphIndex(read[2]), SearchCache(read[3])) = Files(read[4]).manifest

Undisturbed(p) == index # None /\ index.inode = op[p].inode

SameIndex(p) ==
  /\ At(p, "same") /\ Undisturbed(p) /\ Consistent(op[p].read)
  /\ Go(p, [op[p] EXCEPT !.at = "read"])
  /\ UNCHANGED <<memory, files, asked, crashed, mutations, faults>>

\* Mutant: the files are compared with each other only.
TakenAsFresh(read, m) == TRUE

\* The files are what the memory projects to.
Fresh(read, m) == \A i \in DOMAIN Kinds : Files(read[i])[Kinds[i]] = Files(m)[Kinds[i]]

RereadForSearch(p) ==
  /\ At(p, "reread") /\ Does(p, "search") /\ memory = op[p].raw
  /\ Fresh(op[p].read, op[p].raw)
  /\ Go(p, [op[p] EXCEPT !.at = "answer"])
  /\ UNCHANGED <<memory, files, asked, crashed, mutations, faults>>

Terms(p) == asked[p].query.terms \ Stopwords

\* The memory is read once more; the answer comes from the files.
AnswerSearch(p) ==
  /\ At(p, "answer") /\ memory = op[p].raw /\ Terms(p) # {}
  /\ asked' = [asked EXCEPT ![p] = [query |-> @.query, found |-> Ranked(SearchCache(op[p].read[3]), @.query)]]
  /\ Go(p, Idle)
  /\ UNCHANGED <<memory, files, crashed, mutations, faults>>

-----------------------------------------------------------------------------

\* A check that fails ends the command with an error.
Refused(p) ==
  \/ op[p].at \in {"reread", "check", "answer"} /\ memory # op[p].raw
  \/ At(p, "aside") /\ index = None
  \/ At(p, "failed") /\ ~ ToPutBack(p)
  \/ op[p].at \in {"open", "files"} /\ index = None
  \/ At(p, "same") /\ ~ (Undisturbed(p) /\ Consistent(op[p].read))
  \/ At(p, "reread") /\ Does(p, "search") /\ ~ Fresh(op[p].read, op[p].raw)
  \/ At(p, "answer") /\ Terms(p) = {}

Refuse(p) == Refused(p) /\ Fail(p) /\ UNCHANGED faults

\* The directories of a build stay when it dies.
Crash(p) ==
  /\ ~ At(p, "idle")
  /\ faults < MaxFaults /\ faults' = faults + 1
  /\ crashed' = TRUE
  /\ left' = left \cup LeftBy(p) \cup (IF Does(p, "build") /\ op[p].temp THEN {"build"} ELSE {})
  /\ asked' = IF Does(p, "search") THEN [asked EXCEPT ![p] = None] ELSE asked
  /\ Go(p, Idle)
  /\ UNCHANGED <<memory, gitignore, index, ever, mutations>>

Build(p) ==
  \/ IgnorePrivate(p) \/ RereadForBuild(p) \/ WriteFiles(p) \/ CheckMemory(p) \/ LookForIndex(p)
  \/ MoveAside(p) \/ Publish(p) \/ FailToPublish(p) \/ PutBack(p) \/ Clean(p)

Search(p) ==
  \/ OpenIndex(p) \/ ReadFile(p) \/ SameIndex(p) \/ RereadForSearch(p) \/ AnswerSearch(p)

Next ==
  \/ Change
  \/ \E p \in Procs :
       \/ BeginBuild(p) \/ \E q \in Queries : BeginSearch(p, q)
       \/ ReadMemory(p) \/ Build(p) \/ Search(p) \/ Refuse(p) \/ Crash(p)

Spec == Init /\ [][Next]_vars

-----------------------------------------------------------------------------
(* Properties.                                                             *)

\* What a command holds at each stage.
Reads(n) == [1 .. n -> Memories]

NewBuild ==
  [at : {"ignore", "read"}, does : {"build"}, raw : {{}}, temp : {FALSE}, backup : {None}]
HeldBuild ==
  [at : {"reread", "write", "check", "look", "aside"}, does : {"build"}, raw : Memories,
   temp : BOOLEAN, backup : {None}]
LateBuild ==
  [at : {"publish", "failed", "clean"}, does : {"build"}, raw : Memories,
   temp : BOOLEAN, backup : {None} \cup Directory]
BuildOp == NewBuild \cup HeldBuild \cup LateBuild

NewSearch ==
  [at : {"open"}, does : {"search"}, raw : {{}}, inode : {None}, read : {<<>>}]
ReadingSearch ==
  [at : {"files"}, does : {"search"}, raw : {{}}, inode : Inodes,
   read : UNION {Reads(n) : n \in 0 .. 3}]
FullSearch ==
  [at : {"same", "read"}, does : {"search"}, raw : {{}}, inode : Inodes, read : Reads(4)]
HeldSearch ==
  [at : {"reread", "answer"}, does : {"search"}, raw : Memories, inode : Inodes, read : Reads(4)]
SearchOp == NewSearch \cup ReadingSearch \cup FullSearch \cup HeldSearch

\* The files and the commands hold what the code gives them.
TypeOK ==
  /\ memory \in Memories
  /\ gitignore \in {None} \cup SUBSET PrivateRules
  /\ index \in {None} \cup Directory
  /\ left \subseteq {"build", "old"}
  /\ op \in [Procs -> {Idle} \cup BuildOp \cup SearchOp]
  /\ DOMAIN asked = Procs
  /\ ever \in BOOLEAN /\ crashed \in BOOLEAN
  /\ mutations \in 0 .. MaxMutations /\ faults \in 0 .. MaxFaults

\* A search answers what a search of the memory itself answers, of the memory
\* as it is when it answers, or it fails: however builds replace the index
\* under it and commands the memory, whatever old index it meets
\* (_validate_index_snapshot, search_cache).
Retrieves == INSTANCE Retrieval
AnswersFromMemory == Retrieves!Spec

\* An index is never lost to builds that fail or overlap: unless a process
\* dies, it is in place or a build holds it that will publish its own or put
\* it back (build_indexes, "os.replace(backup, index_dir)").
IndexKept ==
  ever /\ ~ crashed =>
    \/ index # None
    \/ \E p \in Procs : /\ op[p].at \in {"publish", "failed"}
                        /\ op[p].backup # None

Private ==
  (IF index = None THEN {} ELSE {"indexes"}) \cup left
  \cup {"build" : p \in {q \in Procs : Does(q, "build") /\ op[q].temp}}
  \cup UNION {LeftBy(p) : p \in Procs}

\* No directory with private projections is visible to git, not even one a
\* dead build left (_ensure_private_index_path, .gitignore).
PrivateIgnored == Private # {} => gitignore # None /\ Private \subseteq gitignore

\* The graph in place is closed: its edges join its nodes, its memory nodes
\* are the active memories, and a relationship is an edge or has a reason not
\* to be one (_build_graph_from_active).
GraphClosed ==
  index # None =>
    LET graph == GraphIndex(index.from)
        retrieval == graph.source.retrieval
    IN  /\ \A e \in graph.edges : e.from \in graph.nodes /\ e.to \in graph.nodes
        /\ {n.ref : n \in {x \in graph.nodes : x.kind = "memory"}} = {r.id : r \in retrieval}
        /\ \A r \in retrieval : r.relationship =>
             ((\E e \in graph.edges : e.by = r.id) <=> ~ \E u \in graph.unresolved : u.id = r.id)

=============================================================================
