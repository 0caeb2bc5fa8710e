--------------------------- MODULE IndexesProofs ---------------------------
(***************************************************************************)
(* Proofs about Indexes, for every value of its constants: any number of   *)
(* processes, memories and queries.                                        *)
(***************************************************************************)
EXTENDS Indexes, FiniteSetTheorems, TLAPS

-----------------------------------------------------------------------------
(* An answer computed from a search cache is the answer computed from the  *)
(* memory the cache projects.                                              *)

\* Sets in bijection have the same size: stated of functions.
LEMMA SameSize ==
  ASSUME NEW S, IsFiniteSet(S), NEW T, NEW f \in [S -> T],
         \A a, b \in S : f[a] = f[b] => a = b, \A y \in T : \E x \in S : f[x] = y
  PROVE  Cardinality(T) = Cardinality(S)
<1>1. f \in Injection(S, T)
  BY DEF Injection, IsInjective
<1>2. f \in Surjection(S, T)
  BY DEF Surjection
<1>3. f \in Bijection(S, T)
  BY <1>1, <1>2 DEF Bijection
<1>4. QED
  BY <1>3, FS_Bijection DEF ExistsBijection

\* The library's cardinality, seen through the instance.
LEMMA CardinalityIs == \A S : Retrieves!Cardinality(S) = Cardinality(S)
BY DEF Cardinality, Retrieves!Cardinality

\* What a memory is.
LEMMA MemoryType ==
  ASSUME NEW m \in Memories
  PROVE  /\ m \subseteq Record /\ IsFiniteSet(m)
         /\ \A a, b \in m : a.id = b.id => a = b
         /\ \A r \in m : r.id \in Ids
BY ConstantsAssumption DEF Record

\* A record is posted under its tokens.
LEMMA PostedTokens ==
  ASSUME NEW m \in Memories, NEW r \in Active(m), NEW t
  PROVE  r.id \in Posted(SearchCache(m), t) <=> t \in Unique(r)
<1> DEFINE used == UNION {Unique(x) : x \in Active(m)}
<1>1. Active(m) \subseteq m
  BY DEF Active
<1>2. SearchCache(m).postings = [w \in used |-> {x.id : x \in {a \in Active(m) : w \in Unique(a)}}]
  BY DEF SearchCache
<1> HIDE DEF used
<1>3. CASE t \in used
  <2>1. Posted(SearchCache(m), t) = {x.id : x \in {a \in Active(m) : t \in Unique(a)}}
    BY <1>2, <1>3 DEF Posted
  <2>2. QED
    BY <1>1, <2>1, MemoryType
<1>4. CASE t \notin used
  <2>1. Posted(SearchCache(m), t) = {}
    BY <1>2, <1>4 DEF Posted
  <2>2. t \notin Unique(r)
    BY <1>4 DEF used
  <2>3. QED
    BY <2>1, <2>2
<1>5. QED
  BY <1>3, <1>4

\* The postings of a term are the active records that have it.
LEMMA PostedRecords ==
  ASSUME NEW m \in Memories, NEW t
  PROVE  Posted(SearchCache(m), t) = {r.id : r \in {a \in Active(m) : t \in Unique(a)}}
<1> DEFINE used == UNION {Unique(x) : x \in Active(m)}
<1>1. SearchCache(m).postings = [w \in used |-> {x.id : x \in {a \in Active(m) : w \in Unique(a)}}]
  BY DEF SearchCache
<1>2. CASE t \in used
  <2> HIDE DEF used
  <2>1. QED
    BY <1>1, <1>2 DEF Posted
<1>3. CASE t \notin used
  <2>1. {a \in Active(m) : t \in Unique(a)} = {}
    BY <1>3
  <2> HIDE DEF used
  <2>2. Posted(SearchCache(m), t) = {}
    BY <1>1, <1>3 DEF Posted
  <2>3. QED
    BY <2>1, <2>2
<1>4. QED
  BY <1>2, <1>3

\* Matching the cache is matching the record.
LEMMA MatchedSame ==
  ASSUME NEW m \in Memories, NEW r \in Active(m), NEW q
  PROVE  MatchedTerms(SearchCache(m), r.id, q) = Retrieves!Matched(r, q)
<1>1. \A t \in q.terms \ Stopwords : t \in Unique(r) <=> \E i \in DOMAIN r.words : r.words[i] = t
  BY DEF Unique, Tokens
<1>2. QED
  BY <1>1, PostedTokens DEF MatchedTerms, Retrieves!Matched

\* The index finds the records that a search of the memory finds,
LEMMA FoundSame ==
  ASSUME NEW m \in Memories, NEW q
  PROVE  Found(SearchCache(m), q) = {r.id : r \in Retrieves!Candidates(m, q)}
<1>1. \A t, r : t \in q.terms \ Stopwords =>
        (t \in Unique(r) <=> t \in Retrieves!Matched(r, q))
  BY DEF Unique, Tokens, Retrieves!Matched
<1>2. ASSUME NEW i \in Found(SearchCache(m), q)
      PROVE  i \in {r.id : r \in Retrieves!Candidates(m, q)}
  <2>1. PICK t \in q.terms \ Stopwords : i \in Posted(SearchCache(m), t)
    BY <1>2 DEF Found
  <2>2. PICK r \in Active(m) : t \in Unique(r) /\ i = r.id
    BY <2>1, PostedRecords
  <2>3. t \in Retrieves!Matched(r, q)
    BY <1>1, <2>1, <2>2
  <2>4. QED
    BY <2>2, <2>3 DEF Retrieves!Candidates, Active
<1>3. ASSUME NEW r \in Retrieves!Candidates(m, q)
      PROVE  r.id \in Found(SearchCache(m), q)
  <2>1. r \in Active(m)
    BY DEF Retrieves!Candidates, Active
  <2>2. PICK t : t \in Retrieves!Matched(r, q)
    BY DEF Retrieves!Candidates
  <2>3. t \in q.terms \ Stopwords
    BY <2>2 DEF Retrieves!Matched
  <2>4. r.id \in Posted(SearchCache(m), t)
    BY <1>1, <2>1, <2>2, <2>3, PostedTokens
  <2>5. QED
    BY <2>3, <2>4 DEF Found
<1>4. QED
  BY <1>2, <1>3

\* orders them the same way,
LEMMA BeforeSame ==
  ASSUME NEW m \in Memories, NEW a \in Active(m), NEW b \in Active(m), NEW q
  PROVE  Before(SearchCache(m), a.id, b.id, q) <=> Retrieves!Better(a, b, q)
BY MatchedSame, CardinalityIs DEF Before, Retrieves!Better, Retrieves!Score

\* gives them the same places,
LEMMA PlaceSame ==
  ASSUME NEW m \in Memories, NEW r \in Active(m), NEW q
  PROVE  Place(SearchCache(m), r.id, q) = Retrieves!Rank(m, r, q)
<1> DEFINE S == {c \in Retrieves!Candidates(m, q) : Retrieves!Better(c, r, q)}
           T == {other \in Found(SearchCache(m), q) : Before(SearchCache(m), other, r.id, q)}
           f == [c \in S |-> c.id]
<1>1. Retrieves!Candidates(m, q) \subseteq Active(m) /\ Active(m) \subseteq m
  BY DEF Retrieves!Candidates, Active
<1>2. IsFiniteSet(S)
  BY <1>1, MemoryType, FS_Subset
<1>3. \A c \in S : f[c] \in T
  BY <1>1, FoundSame, BeforeSame
<1>4. \A a, b \in S : f[a] = f[b] => a = b
  BY <1>1, MemoryType
<1>5. \A y \in T : \E x \in S : f[x] = y
  <2> SUFFICES ASSUME NEW y \in T PROVE \E x \in S : f[x] = y
    OBVIOUS
  <2>1. PICK c \in Retrieves!Candidates(m, q) : y = c.id
    BY FoundSame
  <2>2. c \in S
    BY <1>1, <2>1, BeforeSame
  <2>3. QED
    BY <2>1, <2>2
<1>6. f \in [S -> T]
  BY <1>3
<1> HIDE DEF S, T, f
<1>7. Cardinality(T) = Cardinality(S)
  BY <1>2, <1>4, <1>5, <1>6, SameSize
<1>8. QED
  BY <1>7, CardinalityIs DEF S, T, Place, Retrieves!Rank

\* and so the same answer.
LEMMA RankedSame ==
  ASSUME NEW m \in Memories, NEW q
  PROVE  Ranked(SearchCache(m), q) = Retrieves!Answer(m, q)
<1> DEFINE cache == SearchCache(m)
           Row(i) == [id |-> i, place |-> Place(cache, i, q), matched |-> MatchedTerms(cache, i, q)]
           Line(r) == [id |-> r.id, place |-> Retrieves!Rank(m, r, q), matched |-> Retrieves!Matched(r, q)]
           C == Retrieves!Candidates(m, q)
<1>1. C \subseteq Active(m)
  BY DEF Retrieves!Candidates, Active
<1>2. \A r \in C : Row(r.id) = Line(r) /\ Place(cache, r.id, q) = Retrieves!Rank(m, r, q)
  BY <1>1, PlaceSame, MatchedSame
<1>3. Found(cache, q) = {r.id : r \in C}
  BY FoundSame
<1>4. Ranked(cache, q) = {Row(i) : i \in {j \in Found(cache, q) : Place(cache, j, q) < q.limit}}
  BY DEF Ranked
<1>5. Retrieves!Answer(m, q) = {Line(r) : r \in {c \in C : Retrieves!Rank(m, c, q) < q.limit}}
  BY DEF Retrieves!Answer
<1> HIDE DEF cache, Row, Line, C
<1>6. QED
  BY <1>2, <1>3, <1>4, <1>5 DEF cache

-----------------------------------------------------------------------------
(* The graph of a memory is closed.                                        *)

\* A resolved relationship has endpoints that are not blocked.
LEMMA ResolvedEnds ==
  ASSUME NEW m \in Memories, NEW r \in Resolved(m)
  PROVE  /\ r \in Active(m) /\ r.relationship /\ Reason(m, r) = "none"
         /\ r.content \in Content /\ r.content.left \in Endpoint /\ r.content.right \in Endpoint
         /\ ~ Blocked(m, r.content.left) /\ ~ Blocked(m, r.content.right)
<1>1. r \in Active(m) /\ r.relationship /\ Reason(m, r) = "none"
  BY DEF Resolved, Relationships
<1>2. r \in Record
  BY <1>1, MemoryType DEF Active
<1>3. r.content \in {None} \cup Content
  BY <1>2 DEF Record
<1>4. r.content # None /\ r.content.relation # None /\ None \notin {r.content.left, r.content.right}
  BY <1>1 DEF Reason
<1>5. ~ Blocked(m, r.content.left) /\ ~ Blocked(m, r.content.right)
  BY <1>1, <1>4 DEF Reason
<1>6. r.content.left \in {None} \cup Endpoint /\ r.content.right \in {None} \cup Endpoint
  BY <1>3, <1>4 DEF Content
<1>7. QED
  BY <1>1, <1>3, <1>4, <1>5, <1>6

\* An endpoint of an edge is a node.
LEMMA EndIsNode ==
  ASSUME NEW m \in Memories, NEW r \in Resolved(m), NEW end \in {r.content.left, r.content.right}
  PROVE  Node(end.kind, end.ref) \in GraphIndex(m).nodes
<1>1. end \in Endpoint /\ ~ Blocked(m, end) /\ r \in Relationships(m) /\ Reason(m, r) = "none"
  BY ResolvedEnds DEF Relationships
<1>2. CASE end.kind = "memory"
  <2>1. end.ref \in ActiveIds(m)
    BY <1>1, <1>2 DEF Blocked
  <2>2. QED
    BY <1>2, <2>1 DEF GraphIndex, MemoryNodes
<1>3. CASE end.kind # "memory"
  <2>1. end.kind = "semantic"
    BY <1>1, <1>3 DEF Endpoint
  <2>2. end \in SemanticNodes(m, r)
    BY <1>1, <2>1, ResolvedEnds DEF SemanticNodes
  <2>3. Node("semantic", end.ref) \in
          {Node("semantic", e.ref) : e \in UNION {SemanticNodes(m, x) : x \in Relationships(m)}}
    BY <1>1, <2>2
  <2>4. QED
    BY <2>1, <2>3 DEF GraphIndex, KeyNodes
<1>4. QED
  BY <1>2, <1>3

\* Edges join nodes, every active record is a node, and a relationship is an edge or listed as unresolved.
LEMMA GraphIsClosed ==
  ASSUME NEW m \in Memories
  PROVE  LET graph == GraphIndex(m) IN
           /\ \A e \in graph.edges : e.from \in graph.nodes /\ e.to \in graph.nodes
           /\ {n.ref : n \in {x \in graph.nodes : x.kind = "memory"}} = {r.id : r \in Active(m)}
           /\ \A r \in Active(m) : r.relationship =>
                ((\E e \in graph.edges : e.by = r.id) <=> ~ \E u \in graph.unresolved : u.id = r.id)
<1> DEFINE graph == GraphIndex(m)
           refs == SourceEdges(m)
           olds == SupersedesEdges(m)
           joins == RelationEdges(m)
           keys == KeyNodes(m)
           sources == SourceNodes(m)
           own == MemoryNodes(m)
<1>1. graph.edges = refs \cup olds \cup joins /\ graph.unresolved = Unresolved(m)
      /\ graph.nodes = own \cup sources \cup keys
  BY DEF GraphIndex
<1>2. \A r \in Active(m) : r \in m /\ r.id \in ActiveIds(m)
  BY DEF Active, ActiveIds
<1>3. \A e \in refs : e.from \in own /\ e.to \in sources /\ e.by = None
  <2> SUFFICES ASSUME NEW r \in Active(m), NEW x \in r.refs
               PROVE  LET e == Edge(Node("memory", r.id), Node("observation", x), "source_ref", None)
                      IN  e.from \in own /\ e.to \in sources /\ e.by = None
    BY DEF SourceEdges
  <2>1. Node("memory", r.id) \in own /\ Node("observation", x) \in sources
    BY <1>2 DEF MemoryNodes, SourceNodes
  <2>2. QED
    BY <2>1 DEF Edge
<1>4. \A e \in olds : e.from \in own /\ e.to \in own /\ e.by = None
  <2> SUFFICES ASSUME NEW r \in Active(m), r.supersedes \in ActiveIds(m)
               PROVE  LET e == Edge(Node("memory", r.id), Node("memory", r.supersedes), "supersedes", None)
                      IN  e.from \in own /\ e.to \in own /\ e.by = None
    BY DEF SupersedesEdges
  <2>1. Node("memory", r.id) \in own /\ Node("memory", r.supersedes) \in own
    BY <1>2 DEF MemoryNodes
  <2>2. QED
    BY <2>1 DEF Edge
<1>5. \A e \in joins : e.from \in graph.nodes /\ e.to \in graph.nodes
  BY EndIsNode DEF Edge, RelationEdges
<1>6. \A n \in own : n.kind = "memory" /\ n.ref \in ActiveIds(m)
  BY DEF Node, MemoryNodes
<1>7. \A n \in sources \cup keys : n.kind # "memory"
  BY DEF Node, SourceNodes, KeyNodes
<1>8. \A i \in ActiveIds(m) : Node("memory", i) \in own /\ Node("memory", i).kind = "memory"
                             /\ Node("memory", i).ref = i
  BY DEF Node, MemoryNodes
<1> HIDE DEF refs, olds, keys, sources, own
<1>9. \A e \in graph.edges : e.from \in graph.nodes /\ e.to \in graph.nodes
  BY <1>1, <1>3, <1>4, <1>5
<1>10. {n.ref : n \in {x \in graph.nodes : x.kind = "memory"}} = {r.id : r \in Active(m)}
  <2>1. {x \in graph.nodes : x.kind = "memory"} = own
    BY <1>1, <1>6, <1>7
  <2>2. {n.ref : n \in own} = ActiveIds(m)
    BY <1>6, <1>8
  <2>3. QED
    BY <2>1, <2>2 DEF ActiveIds
<1>11. ASSUME NEW r \in Active(m), r.relationship
       PROVE  (\E e \in graph.edges : e.by = r.id) <=> ~ \E u \in graph.unresolved : u.id = r.id
  <2>1. r.id # None /\ r \in Relationships(m)
    BY <1>2, <1>11, MemoryType, ConstantsAssumption DEF Relationships
  <2>2. \A x \in Relationships(m) : x.id = r.id => x = r
    BY <1>2, MemoryType DEF Relationships
  <2>3. (\E e \in graph.edges : e.by = r.id) <=> \E e \in joins : e.by = r.id
    BY <1>1, <1>3, <1>4, <2>1
  <2>4. (\E e \in joins : e.by = r.id) <=> r \in Resolved(m)
    <3>1. \A e \in joins : \E x \in Resolved(m) : e.by = x.id
      BY DEF Edge, RelationEdges
    <3>2. \A x \in Resolved(m) : \E e \in joins : e.by = x.id
      <4> SUFFICES ASSUME NEW x \in Resolved(m) PROVE \E e \in joins : e.by = x.id
        OBVIOUS
      <4> DEFINE e == Edge(Node(x.content.left.kind, x.content.left.ref),
                           Node(x.content.right.kind, x.content.right.ref), x.content.relation, x.id)
      <4>1. e \in joins
        BY DEF RelationEdges
      <4>2. e.by = x.id
        BY DEF Edge
      <4>3. QED
        BY <4>1, <4>2
    <3> HIDE DEF joins
    <3>3. QED
      BY <2>2, <3>1, <3>2 DEF Resolved
  <2>5. (\E u \in graph.unresolved : u.id = r.id) <=> r \in Relationships(m) \ Resolved(m)
    <3> DEFINE row(x) == [id |-> x.id, reason |-> Reason(m, x)]
    <3>1. graph.unresolved = {row(x) : x \in Relationships(m) \ Resolved(m)}
      BY <1>1 DEF Unresolved
    <3>2. \A x : row(x).id = x.id
      OBVIOUS
    <3> HIDE DEF row, graph
    <3>3. QED
      BY <2>2, <3>1, <3>2
  <2>6. QED
    BY <2>1, <2>3, <2>4, <2>5
<1>12. QED
  BY <1>9, <1>10, <1>11

-----------------------------------------------------------------------------
(* What the commands hold, and what holds between them.                    *)

\* What a process may be doing.
Command == {Idle} \cup BuildOp \cup SearchOp

\* A search that is running has an open question, and answers from files
\* that are the projections of the memory it read.
Asking(p) ==
  Does(p, "search") => \E q \in Queries : asked[p] = [query |-> q, found |-> None]
\* A search that answers read the memory its index was made from.
Refreshed(p) == At(p, "answer") => Fresh(op[p].read, op[p].raw)

\* A build past its first step has written the rules.
Past(p) == Does(p, "build") /\ ~ At(p, "ignore")
\* Before an index or a temporary directory exists, git ignores it.
RulesWritten ==
  /\ index # None => gitignore # None /\ "indexes" \in gitignore
  /\ left # {} \/ (\E p \in Procs : Past(p)) => gitignore # None /\ PrivateRules \subseteq gitignore

\* The inductive invariant.
IInv ==
  /\ TypeOK /\ \A p \in Procs : Asking(p) /\ Refreshed(p)
  /\ RulesWritten /\ IndexKept

\* A step that changes what one process holds.
LEMMA GoType ==
  ASSUME op \in [Procs -> Command], NEW p \in Procs, NEW next \in Command, Go(p, next)
  PROVE  op' \in [Procs -> Command] /\ op'[p] = next /\ \A x \in Procs \ {p} : op'[x] = op[x]
BY DEF Go

\* What a command holds follows from its stage.
LEMMA BuildKinds ==
  ASSUME NEW o
  PROVE  /\ o \in NewBuild => o.does = "build" /\ o.at \in {"ignore", "read"} /\ o.backup = None
         /\ o \in HeldBuild => /\ o.does = "build" /\ o.backup = None
                               /\ o.at \in {"reread", "write", "check", "look", "aside"}
         /\ o \in LateBuild => o.does = "build" /\ o.at \in {"publish", "failed", "clean"}
BY DEF NewBuild, HeldBuild, LateBuild

\* The kind of a search tells its stage,
LEMMA SearchKinds ==
  ASSUME NEW o
  PROVE  /\ o \in NewSearch => o.does = "search" /\ o.at = "open"
         /\ o \in ReadingSearch => o.does = "search" /\ o.at = "files"
         /\ o \in FullSearch => o.does = "search" /\ o.at \in {"same", "read"}
         /\ o \in HeldSearch => o.does = "search" /\ o.at \in {"reread", "answer"}
BY DEF NewSearch, ReadingSearch, FullSearch, HeldSearch

\* and the stage of a command its kind.
LEMMA StageType ==
  ASSUME NEW o \in Command
  PROVE  /\ o.at = "idle" <=> o = Idle
         /\ o.at = "ignore" => o \in NewBuild
         /\ o.at \in {"write", "check", "look", "aside"} => o \in HeldBuild
         /\ o.at \in {"publish", "failed", "clean"} => o \in LateBuild
         /\ o.at = "open" => o \in NewSearch
         /\ o.at = "files" => o \in ReadingSearch
         /\ o.at = "same" => o \in FullSearch
         /\ o.at = "answer" => o \in HeldSearch
         /\ o.at = "read" => o \in NewBuild \cup FullSearch
         /\ o.at = "reread" => o \in HeldBuild \cup HeldSearch
         /\ o \in BuildOp => o.at # "idle" /\ o.does = "build"
         /\ o \in SearchOp => o.at # "idle" /\ o.does = "search"
<1>1. o = Idle \/ o \in NewBuild \/ o \in HeldBuild \/ o \in LateBuild
      \/ o \in NewSearch \/ o \in ReadingSearch \/ o \in FullSearch \/ o \in HeldSearch
  BY DEF Command, BuildOp, SearchOp
<1>2. Idle.at = "idle"
  BY DEF Idle
<1>3. QED
  BY <1>1, <1>2, BuildKinds, SearchKinds DEF BuildOp, SearchOp

\* From one stage to the next.
LEMMA NewBuildSteps ==
  ASSUME NEW o \in NewBuild, NEW m \in Memories
  PROVE  [o EXCEPT !.at = "read"] \in NewBuild /\ [o EXCEPT !.raw = m, !.at = "reread"] \in HeldBuild
BY DEF NewBuild, HeldBuild

\* What a step makes of a build that holds its memory,
LEMMA HeldBuildSteps ==
  ASSUME NEW o \in HeldBuild, NEW d \in Directory
  PROVE  /\ [o EXCEPT !.at = "write"] \in HeldBuild
         /\ [o EXCEPT !.temp = TRUE, !.at = "check"] \in HeldBuild
         /\ [o EXCEPT !.at = "look"] \in HeldBuild
         /\ [o EXCEPT !.at = "aside"] \in HeldBuild
         /\ [o EXCEPT !.at = "publish"] \in LateBuild
         /\ [o EXCEPT !.backup = d, !.at = "publish"] \in LateBuild
         /\ [o EXCEPT !.backup = d, !.at = "publish"].backup = d
         /\ [o EXCEPT !.backup = d, !.at = "publish"].at = "publish"
<1> HIDE DEF Directory
<1>1. QED
  BY DEF HeldBuild, LateBuild

\* of one that is publishing,
LEMMA LateBuildSteps ==
  ASSUME NEW o \in LateBuild
  PROVE  /\ [o EXCEPT !.temp = FALSE, !.at = "clean"] \in LateBuild
         /\ [o EXCEPT !.at = "failed"] \in LateBuild
         /\ [o EXCEPT !.at = "failed"].backup = o.backup
         /\ [o EXCEPT !.at = "failed"].at = "failed"
         /\ o.raw \in Memories /\ o.backup \in {None} \cup Directory
BY DEF LateBuild

\* and of a search.
LEMMA SearchSteps ==
  ASSUME NEW o
  PROVE  /\ \A i \in Inodes : o \in NewSearch => [o EXCEPT !.inode = i, !.at = "files"] \in ReadingSearch
         /\ o \in FullSearch => [o EXCEPT !.at = "read"] \in FullSearch
         /\ \A m \in Memories : o \in FullSearch => [o EXCEPT !.raw = m, !.at = "reread"] \in HeldSearch
         /\ o \in HeldSearch => /\ [o EXCEPT !.at = "answer"] \in HeldSearch
                                /\ [o EXCEPT !.at = "answer"].at = "answer"
                                /\ [o EXCEPT !.at = "answer"].raw = o.raw
                                /\ [o EXCEPT !.at = "answer"].read = o.read
                                /\ o.raw \in Memories /\ o.read \in Reads(4)
<1>1. <<>> \in UNION {Reads(n) : n \in 0 .. 3}
  <2>1. <<>> \in Reads(0)
    BY DEF Reads
  <2>2. QED
    BY <2>1
<1>2. \A i \in Inodes : o \in NewSearch => [o EXCEPT !.inode = i, !.at = "files"] \in ReadingSearch
  BY <1>1 DEF NewSearch, ReadingSearch
<1>3. o \in FullSearch => [o EXCEPT !.at = "read"] \in FullSearch
  BY DEF FullSearch
<1>4. \A m \in Memories : o \in FullSearch => [o EXCEPT !.raw = m, !.at = "reread"] \in HeldSearch
  BY DEF FullSearch, HeldSearch
<1>5. o \in HeldSearch => /\ [o EXCEPT !.at = "answer"] \in HeldSearch
                          /\ [o EXCEPT !.at = "answer"].at = "answer"
                          /\ [o EXCEPT !.at = "answer"].raw = o.raw
                          /\ [o EXCEPT !.at = "answer"].read = o.read
                          /\ o.raw \in Memories /\ o.read \in Reads(4)
  BY DEF HeldSearch
<1>6. QED
  BY <1>2, <1>3, <1>4, <1>5

\* Reading one more file.
LEMMA ReadingSteps ==
  ASSUME NEW o \in ReadingSearch, NEW m \in Memories
  PROVE  LET read == Append(o.read, m)
         IN  [o EXCEPT !.read = read, !.at = IF Len(read) = Len(Kinds) THEN "same" ELSE "files"]
               \in ReadingSearch \cup FullSearch
<1> DEFINE read == Append(o.read, m)
           stage == IF Len(read) = Len(Kinds) THEN "same" ELSE "files"
<1>1. PICK n \in 0 .. 3 : o.read \in Reads(n)
  BY DEF ReadingSearch
<1>2. o.read \in Seq(Memories) /\ Len(o.read) = n
  BY <1>1 DEF Reads
<1>3. read \in Reads(n + 1) /\ Len(read) = n + 1
  <2>1. read \in Seq(Memories) /\ Len(read) = n + 1
    BY <1>2
  <2> HIDE DEF read
  <2>2. QED
    BY <2>1 DEF Reads
<1>4. Len(Kinds) = 4
  BY DEF Kinds
<1> HIDE DEF read
<1>5. CASE n = 3
  <2>1. stage = "same" /\ read \in Reads(4)
    BY <1>3, <1>4, <1>5
  <2> HIDE DEF stage
  <2>2. [o EXCEPT !.read = read, !.at = stage] \in FullSearch
    BY <2>1 DEF ReadingSearch, FullSearch
  <2>3. QED
    BY <2>2 DEF read, stage
<1>6. CASE n # 3
  <2>1. stage = "files" /\ read \in UNION {Reads(k) : k \in 0 .. 3}
    BY <1>1, <1>3, <1>4, <1>6
  <2> HIDE DEF stage
  <2>2. [o EXCEPT !.read = read, !.at = stage] \in ReadingSearch
    BY <2>1 DEF ReadingSearch
  <2>3. QED
    BY <2>2 DEF read, stage
<1>7. QED
  BY <1>5, <1>6

\* A step of one process that moves no directory and tells nothing.
LEMMA QuietStep ==
  ASSUME IInv, NEW p \in Procs, NEW next \in Command, Go(p, next),
         UNCHANGED <<memory, files, asked, crashed, mutations>>, faults' \in 0 .. MaxFaults,
         next \in SearchOp => op[p] \in SearchOp,
         next.at = "answer" => Fresh(next.read, next.raw),
         next \in BuildOp /\ next.at # "ignore" => Past(p),
         op[p].at \in {"publish", "failed"} /\ op[p].backup # None =>
           index # None \/ (next.at \in {"publish", "failed"} /\ next.backup # None)
  PROVE  IInv'
<1>1. op \in [Procs -> Command]
  BY DEF IInv, TypeOK, Command
<1>2. op' \in [Procs -> Command] /\ op'[p] = next /\ \A x \in Procs \ {p} : op'[x] = op[x]
  BY <1>1, GoType
<1>3. TypeOK'
  BY <1>2 DEF IInv, TypeOK, files, Command
<1>4. ASSUME NEW x \in Procs PROVE Asking(x)' /\ Refreshed(x)'
  <2>1. CASE x = p
    <3>1. op[p] \in Command /\ next \in Command
      BY <1>1
    <3>2. Refreshed(p)'
      BY <1>2 DEF Refreshed, At
    <3>3. Does(p, "search")' => Does(p, "search")
      <4>1. Does(p, "search")' => next \in SearchOp
        BY <1>2, <3>1, StageType DEF Does, Command
      <4>2. op[p] \in SearchOp => Does(p, "search")
        BY <3>1, StageType DEF Does
      <4>3. QED
        BY <4>1, <4>2
    <3>4. QED
      BY <2>1, <3>2, <3>3 DEF IInv, Asking
  <2>2. CASE x # p
    BY <1>2, <2>2 DEF IInv, Asking, Refreshed, Does, At
  <2>3. QED
    BY <2>1, <2>2
<1>5. RulesWritten'
  <2>1. Past(p)' => Past(p)
    <3>1. Past(p)' => next \in BuildOp /\ next.at # "ignore"
      BY <1>2, StageType DEF Past, Does, At, Command
    <3>2. QED
      BY <3>1
  <2>2. \A x \in Procs \ {p} : Past(x)' => Past(x)
    BY <1>2 DEF Past, Does, At
  <2>3. QED
    BY <2>1, <2>2 DEF IInv, RulesWritten, files
<1>6. IndexKept'
  <2> SUFFICES ASSUME ever, ~ crashed, index = None
               PROVE  \E x \in Procs : op'[x].at \in {"publish", "failed"} /\ op'[x].backup # None
    BY DEF IndexKept, files
  <2>1. PICK x \in Procs : op[x].at \in {"publish", "failed"} /\ op[x].backup # None
    BY DEF IInv, IndexKept
  <2>2. QED
    BY <1>2, <2>1
<1>7. QED
  BY <1>3, <1>4, <1>5, <1>6 DEF IInv

\* The actions that leave the index where it is keep the invariant.
LEMMA QuietActions ==
  ASSUME IInv, NEW p \in Procs,
         \/ BeginBuild(p) \/ ReadMemory(p) \/ RereadForBuild(p) \/ WriteFiles(p) \/ CheckMemory(p)
         \/ LookForIndex(p) \/ FailToPublish(p) \/ Clean(p)
         \/ OpenIndex(p) \/ ReadFile(p) \/ SameIndex(p) \/ RereadForSearch(p)
  PROVE  IInv'
<1>1. op \in [Procs -> Command] /\ memory \in Memories /\ index \in {None} \cup Directory
      /\ faults \in 0 .. MaxFaults
  BY DEF IInv, TypeOK, Command
<1> DEFINE o == op[p]
<1>2. o \in Command
  BY <1>1
<1>3. Idle \in Command /\ BuildOp \subseteq Command /\ SearchOp \subseteq Command
      /\ Idle.at = "idle" /\ Idle \notin BuildOp /\ Idle \notin SearchOp
  <2>1. Idle \in Command /\ BuildOp \subseteq Command /\ SearchOp \subseteq Command /\ Idle.at = "idle"
    BY DEF Command, Idle
  <2>2. QED
    BY <2>1, StageType
<1> USE DEF At, Does
<1>4. CASE BeginBuild(p)
  <2> DEFINE next == Building("ignore")
  <2>1. Go(p, next) /\ o.at = "idle"
    BY <1>4 DEF BeginBuild
  <2>2. next \in NewBuild /\ next.at = "ignore"
    BY DEF Building, NewBuild
  <2>3. next \in BuildOp /\ next \notin SearchOp
    BY <1>3, <2>2, StageType, BuildKinds, SearchKinds DEF BuildOp, SearchOp
  <2> HIDE DEF next
  <2>4. QED
    BY <1>1, <1>3, <1>4, <2>1, <2>2, <2>3, QuietStep DEF BeginBuild
<1>5. CASE ReadMemory(p)
  <2> DEFINE next == [o EXCEPT !.raw = memory, !.at = "reread"]
  <2>1. Go(p, next) /\ o.at = "read"
    BY <1>5 DEF ReadMemory
  <2>2. o \in NewBuild \/ o \in FullSearch
    BY <1>2, <2>1, StageType
  <2>3. o \in NewBuild => next \in HeldBuild
    BY <1>1, NewBuildSteps
  <2>4. o \in FullSearch => next \in HeldSearch
    BY <1>1, SearchSteps
  <2>5. next.at = "reread"
    BY <2>2 DEF NewBuild, FullSearch
  <2> HIDE DEF next
  <2>6. next \in Command
    BY <1>3, <2>2, <2>3, <2>4 DEF BuildOp, SearchOp
  <2>7. next \in SearchOp => o \in SearchOp
    BY <2>2, <2>3, BuildKinds, SearchKinds DEF SearchOp
  <2>8. next \in BuildOp => Past(p)
    BY <2>1, <2>2, <2>4, BuildKinds, SearchKinds DEF BuildOp, Past
  <2>9. QED
    BY <1>1, <1>5, <2>1, <2>5, <2>6, <2>7, <2>8, QuietStep DEF ReadMemory
<1>6. CASE RereadForBuild(p) \/ WriteFiles(p) \/ CheckMemory(p) \/ LookForIndex(p)
  <2>1. PICK next : /\ Go(p, next)
                    /\ \/ next = [o EXCEPT !.at = "write"]
                       \/ next = [o EXCEPT !.temp = TRUE, !.at = "check"]
                       \/ next = [o EXCEPT !.at = "look"]
                       \/ next = [o EXCEPT !.at = IF index = None THEN "publish" ELSE "aside"]
    BY <1>6 DEF RereadForBuild, WriteFiles, CheckMemory, LookForIndex
  <2>2. o \in HeldBuild
    <3>1. o.at \in {"write", "check", "look"} \/ (o.at = "reread" /\ o.does = "build")
      BY <1>6 DEF RereadForBuild, WriteFiles, CheckMemory, LookForIndex
    <3>2. QED
      BY <1>2, <3>1, StageType, SearchKinds
  <2>3. /\ [o EXCEPT !.at = "write"] \in HeldBuild
        /\ [o EXCEPT !.temp = TRUE, !.at = "check"] \in HeldBuild
        /\ [o EXCEPT !.at = "look"] \in HeldBuild
        /\ [o EXCEPT !.at = "aside"] \in HeldBuild
        /\ [o EXCEPT !.at = "publish"] \in LateBuild
    BY <2>2 DEF HeldBuild, LateBuild
  <2>4. next \in HeldBuild \/ next \in LateBuild
    BY <2>1, <2>3
  <2>5. next \in BuildOp /\ next \notin SearchOp /\ next.at # "answer" /\ next.at # "ignore"
    BY <2>4, BuildKinds, SearchKinds DEF BuildOp, SearchOp
  <2>6. Past(p) /\ o.at \notin {"publish", "failed"}
    BY <2>2, BuildKinds DEF Past
  <2>7. UNCHANGED <<memory, files, asked, crashed, mutations, faults>>
    BY <1>6 DEF RereadForBuild, WriteFiles, CheckMemory, LookForIndex
  <2>8. QED
    BY <1>1, <1>3, <2>1, <2>5, <2>6, <2>7, QuietStep
<1>7. CASE FailToPublish(p)
  <2> DEFINE next == [o EXCEPT !.at = "failed"]
  <2>1. Go(p, next) /\ o.at = "publish"
    BY <1>7 DEF FailToPublish
  <2>2. o \in LateBuild
    BY <1>2, <2>1, StageType
  <2>3. next \in LateBuild /\ next.at = "failed" /\ next.backup = o.backup
    BY <2>2, LateBuildSteps
  <2> HIDE DEF next
  <2>4. next \in BuildOp /\ next \notin SearchOp /\ Past(p)
    BY <2>1, <2>2, <2>3, BuildKinds, SearchKinds DEF BuildOp, SearchOp, Past
  <2>5. faults' \in 0 .. MaxFaults
    BY <1>1, <1>7, ConstantsAssumption DEF FailToPublish
  <2>6. QED
    BY <1>1, <1>3, <1>7, <2>1, <2>3, <2>4, <2>5, QuietStep DEF FailToPublish
<1>8. CASE Clean(p)
  BY <1>1, <1>3, <1>8, QuietStep DEF Clean
<1>9. CASE OpenIndex(p)
  <2> DEFINE next == [o EXCEPT !.inode = index.inode, !.at = "files"]
  <2>1. Go(p, next) /\ o.at = "open" /\ index # None
    BY <1>9 DEF OpenIndex
  <2>2. o \in NewSearch /\ index.inode \in Inodes
    BY <1>1, <1>2, <2>1, StageType DEF Directory
  <2>3. next \in ReadingSearch
    BY <2>2, SearchSteps
  <2> HIDE DEF next
  <2>4. next \in SearchOp /\ next \notin BuildOp /\ o \in SearchOp /\ next.at # "answer"
    BY <2>2, <2>3, BuildKinds, SearchKinds DEF BuildOp, SearchOp
  <2>5. QED
    BY <1>1, <1>3, <1>9, <2>1, <2>4, QuietStep DEF OpenIndex
<1>10. CASE ReadFile(p)
  <2> DEFINE read == Append(o.read, index.from)
             next == [o EXCEPT !.read = read, !.at = IF Len(read) = Len(Kinds) THEN "same" ELSE "files"]
  <2>1. Go(p, next) /\ o.at = "files" /\ index # None
    BY <1>10 DEF ReadFile
  <2>2. o \in ReadingSearch /\ index.from \in Memories
    BY <1>1, <1>2, <2>1, StageType DEF Directory
  <2>3. next \in ReadingSearch \cup FullSearch
    BY <2>2, ReadingSteps
  <2> HIDE DEF next
  <2>4. next \in SearchOp /\ next \notin BuildOp /\ o \in SearchOp /\ next.at # "answer"
    BY <2>2, <2>3, BuildKinds, SearchKinds DEF BuildOp, SearchOp
  <2>5. QED
    BY <1>1, <1>3, <1>10, <2>1, <2>4, QuietStep DEF ReadFile
<1>11. CASE SameIndex(p)
  <2> DEFINE next == [o EXCEPT !.at = "read"]
  <2>1. Go(p, next) /\ o.at = "same"
    BY <1>11 DEF SameIndex
  <2>2. o \in FullSearch
    BY <1>2, <2>1, StageType
  <2>3. next \in FullSearch
    BY <2>2, SearchSteps
  <2> HIDE DEF next
  <2>4. next \in SearchOp /\ next \notin BuildOp /\ o \in SearchOp /\ next.at # "answer"
    BY <2>2, <2>3, BuildKinds, SearchKinds DEF BuildOp, SearchOp
  <2>5. QED
    BY <1>1, <1>3, <1>11, <2>1, <2>4, QuietStep DEF SameIndex
<1>12. CASE RereadForSearch(p)
  <2> DEFINE next == [o EXCEPT !.at = "answer"]
  <2>1. Go(p, next) /\ o.at = "reread" /\ o.does = "search" /\ Fresh(o.read, o.raw)
    BY <1>12 DEF RereadForSearch
  <2>2. o \in HeldSearch
    BY <1>2, <2>1, StageType, BuildKinds
  <2>3. next \in HeldSearch /\ next.raw = o.raw /\ next.read = o.read
    BY <2>2, SearchSteps
  <2> HIDE DEF next
  <2>4. next \in SearchOp /\ next \notin BuildOp /\ o \in SearchOp
    BY <2>2, <2>3, BuildKinds, SearchKinds DEF BuildOp, SearchOp
  <2>5. QED
    BY <1>1, <1>3, <1>12, <2>1, <2>3, <2>4, QuietStep DEF RereadForSearch
<1>13. QED
  BY <1>4, <1>5, <1>6, <1>7, <1>8, <1>9, <1>10, <1>11, <1>12

\* A process that stops asks nothing and holds nothing.
LEMMA StopStep ==
  ASSUME IInv, NEW p \in Procs, Go(p, Idle), \A x \in Procs \ {p} : asked'[x] = asked[x]
  PROVE  /\ op' \in [Procs -> Command] /\ op'[p] = Idle /\ \A x \in Procs \ {p} : op'[x] = op[x]
         /\ \A x \in Procs : Asking(x)' /\ Refreshed(x)'
         /\ ~ Past(p)' /\ \A x \in Procs \ {p} : Past(x)' <=> Past(x)
<1>1. op \in [Procs -> Command] /\ Idle \in Command /\ Idle.at = "idle"
  BY DEF IInv, TypeOK, Command, Idle
<1>2. op' \in [Procs -> Command] /\ op'[p] = Idle /\ \A x \in Procs \ {p} : op'[x] = op[x]
  BY <1>1, GoType
<1>3. QED
  BY <1>1, <1>2 DEF IInv, Asking, Refreshed, Past, Does, At

\* So do those that move it or write its rules,
LEMMA OtherActions ==
  ASSUME IInv, NEW p \in Procs,
         IgnorePrivate(p) \/ MoveAside(p) \/ Publish(p) \/ PutBack(p)
  PROVE  IInv'
<1>1. op \in [Procs -> Command] /\ index \in {None} \cup Directory /\ DOMAIN asked = Procs
  BY DEF IInv, TypeOK, Command
<1> DEFINE o == op[p]
<1>2. o \in Command /\ BuildOp \subseteq Command /\ Idle \in Command
  BY <1>1 DEF Command
<1>3. memory' = memory /\ asked' = asked /\ crashed' = crashed /\ mutations' = mutations
      /\ faults' = faults /\ left' = left
  BY DEF IgnorePrivate, MoveAside, Publish, PutBack
<1>4. ASSUME NEW next \in BuildOp, Go(p, next)
      PROVE  /\ op' \in [Procs -> Command] /\ op'[p] = next /\ \A x \in Procs \ {p} : op'[x] = op[x]
             /\ \A x \in Procs : Asking(x)' /\ Refreshed(x)'
             /\ \A x \in Procs \ {p} : Past(x)' <=> Past(x)
  <2>1. op' \in [Procs -> Command] /\ op'[p] = next /\ \A x \in Procs \ {p} : op'[x] = op[x]
    BY <1>1, <1>2, <1>4, GoType
  <2>2. next.does = "build" /\ next.at # "answer"
    BY <1>4, BuildKinds DEF BuildOp
  <2>3. QED
    BY <1>3, <2>1, <2>2 DEF IInv, Asking, Refreshed, Past, Does, At
<1>5. CASE IgnorePrivate(p)
  <2> DEFINE next == [o EXCEPT !.at = "read"]
  <2>1. Go(p, next) /\ o.at = "ignore" /\ gitignore' = Ignored(gitignore) /\ index' = index /\ ever' = ever
    BY <1>5 DEF IgnorePrivate, At
  <2>2. o \in NewBuild
    BY <1>2, <2>1, StageType
  <2>3. next \in NewBuild
    BY <2>2 DEF NewBuild
  <2> HIDE DEF next
  <2>4. next \in BuildOp
    BY <2>3 DEF BuildOp
  <2>5. /\ op' \in [Procs -> Command] /\ op'[p] = next /\ \A x \in Procs \ {p} : op'[x] = op[x]
        /\ \A x \in Procs : Asking(x)' /\ Refreshed(x)'
    BY <1>4, <2>1, <2>4
  <2>6. gitignore' \in SUBSET PrivateRules /\ PrivateRules \subseteq gitignore'
    BY <2>1 DEF Ignored, IInv, TypeOK
  <2>7. gitignore' # None /\ "indexes" \in gitignore'
    BY <2>6, ConstantsAssumption DEF PrivateRules
  <2>8. TypeOK'
    BY <1>3, <2>1, <2>5, <2>6 DEF IInv, TypeOK, Command
  <2>9. RulesWritten'
    BY <2>6, <2>7 DEF RulesWritten
  <2>10. IndexKept'
    BY <1>3, <2>1, <2>5 DEF IInv, IndexKept
  <2>11. QED
    BY <2>5, <2>8, <2>9, <2>10 DEF IInv
<1>6. CASE MoveAside(p)
  <2> DEFINE next == [o EXCEPT !.backup = index, !.at = "publish"]
  <2>1. Go(p, next) /\ o.at = "aside" /\ index # None /\ index' = None
        /\ gitignore' = gitignore /\ ever' = ever
    BY <1>6 DEF MoveAside, At
  <2>2. o \in HeldBuild /\ index \in Directory
    BY <1>1, <1>2, <2>1, StageType
  <2>3. next \in LateBuild /\ next.backup = index /\ next.at = "publish"
    BY <2>2, HeldBuildSteps
  <2> HIDE DEF next
  <2>4. next \in BuildOp
    BY <2>3 DEF BuildOp
  <2>5. /\ op' \in [Procs -> Command] /\ op'[p] = next /\ \A x \in Procs \ {p} : op'[x] = op[x]
        /\ \A x \in Procs : Asking(x)' /\ Refreshed(x)'
        /\ \A x \in Procs \ {p} : Past(x)' <=> Past(x)
    BY <1>4, <2>1, <2>4
  <2>6. TypeOK'
    BY <1>3, <2>1, <2>5 DEF IInv, TypeOK, Command
  <2>7. Past(p)
    BY <2>2, BuildKinds DEF Past, Does, At
  <2>8. RulesWritten'
    BY <1>3, <2>1, <2>7 DEF IInv, RulesWritten
  <2>9. IndexKept'
    BY <2>1, <2>3, <2>5 DEF IndexKept
  <2>10. QED
    BY <2>5, <2>6, <2>8, <2>9 DEF IInv
<1>7. CASE Publish(p)
  <2>1. o \in LateBuild /\ o.at = "publish" /\ Past(p)
    <3>1. o.at = "publish"
      BY <1>7 DEF Publish, At
    <3>2. o \in LateBuild
      BY <1>2, <3>1, StageType
    <3>3. QED
      BY <3>1, <3>2, BuildKinds DEF Past, Does, At
  <2>2. index' \in Directory
    <3>1. PICK i \in Inodes : index' = [inode |-> i, from |-> o.raw]
      BY <1>7 DEF Publish
    <3>2. QED
      BY <2>1, <3>1, LateBuildSteps DEF Directory
  <2>3. index' # None /\ ever' = TRUE /\ gitignore' = gitignore
    BY <1>7, <2>2, ConstantsAssumption DEF Publish
  <2>4. gitignore # None /\ PrivateRules \subseteq gitignore
    BY <2>1 DEF IInv, RulesWritten
  <2>5. op' \in [Procs -> Command] /\ \A x \in Procs : Asking(x)' /\ Refreshed(x)'
    <3> DEFINE next == [o EXCEPT !.temp = FALSE, !.at = "clean"]
    <3>1. Go(p, Idle) \/ Go(p, next)
      BY <1>7 DEF Publish
    <3>2. next \in LateBuild
      BY <2>1, LateBuildSteps
    <3> HIDE DEF next
    <3>3. next \in BuildOp
      BY <3>2 DEF BuildOp
    <3>4. QED
      BY <1>3, <1>4, <3>1, <3>3, StopStep
  <2>6. TypeOK'
    BY <1>3, <2>2, <2>3, <2>5 DEF IInv, TypeOK, Command
  <2>7. RulesWritten'
    BY <2>3, <2>4 DEF RulesWritten, PrivateRules
  <2>8. IndexKept'
    BY <2>3 DEF IndexKept
  <2>9. QED
    BY <2>5, <2>6, <2>7, <2>8 DEF IInv
<1>8. CASE PutBack(p)
  <2>1. o.at = "failed" /\ o.backup # None /\ index' = o.backup /\ Go(p, Idle)
        /\ gitignore' = gitignore /\ ever' = ever
    BY <1>8 DEF PutBack, ToPutBack, At
  <2>2. o \in LateBuild
    BY <1>2, <2>1, StageType
  <2>3. index' \in Directory /\ index' # None /\ Past(p)
    BY <2>1, <2>2, LateBuildSteps, BuildKinds DEF Past, Does, At
  <2>4. /\ op' \in [Procs -> Command] /\ \A x \in Procs : Asking(x)' /\ Refreshed(x)'
    BY <1>3, <2>1, StopStep
  <2>5. TypeOK'
    BY <1>3, <2>1, <2>3, <2>4 DEF IInv, TypeOK, Command
  <2>6. RulesWritten'
    BY <2>1, <2>3 DEF IInv, RulesWritten, PrivateRules
  <2>7. IndexKept'
    BY <2>3 DEF IndexKept
  <2>8. QED
    BY <2>4, <2>5, <2>6, <2>7 DEF IInv
<1>9. QED
  BY <1>5, <1>6, <1>7, <1>8

\* those that begin and answer a search,
LEMMA SearchActions ==
  ASSUME IInv, NEW p \in Procs, (\E q \in Queries : BeginSearch(p, q)) \/ AnswerSearch(p)
  PROVE  IInv'
<1>1. op \in [Procs -> Command] /\ DOMAIN asked = Procs
  BY DEF IInv, TypeOK, Command
<1>2. memory' = memory /\ gitignore' = gitignore /\ index' = index /\ left' = left /\ ever' = ever
      /\ crashed' = crashed /\ mutations' = mutations /\ faults' = faults
  BY DEF BeginSearch, AnswerSearch, files
<1>3. CASE \E q \in Queries : BeginSearch(p, q)
  <2>1. PICK q \in Queries : BeginSearch(p, q)
    BY <1>3
  <2> DEFINE next == Searching("open")
  <2>2. next \in NewSearch
    BY DEF Searching, NewSearch
  <2>3. Go(p, next) /\ asked' = [asked EXCEPT ![p] = [query |-> q, found |-> None]] /\ op[p].at = "idle"
    BY <2>1 DEF BeginSearch, At
  <2> HIDE DEF next
  <2>4. next \in Command /\ next.does = "search" /\ next.at = "open"
    BY <2>2, SearchKinds DEF SearchOp, Command
  <2>5. op' \in [Procs -> Command] /\ op'[p] = next /\ \A x \in Procs \ {p} : op'[x] = op[x]
    BY <1>1, <2>3, <2>4, GoType
  <2>6. DOMAIN asked' = Procs /\ asked'[p] = [query |-> q, found |-> None]
        /\ \A x \in Procs \ {p} : asked'[x] = asked[x]
    BY <1>1, <2>3
  <2>7. TypeOK'
    BY <1>2, <2>5, <2>6 DEF IInv, TypeOK, Command
  <2>8. \A x \in Procs : Asking(x)' /\ Refreshed(x)'
    BY <2>4, <2>5, <2>6 DEF IInv, Asking, Refreshed, Does, At
  <2>9. \A x \in Procs : Past(x)' => Past(x)
    BY <2>4, <2>5 DEF Past, Does, At
  <2>10. RulesWritten'
    BY <1>2, <2>9 DEF IInv, RulesWritten
  <2>11. IndexKept'
    BY <1>2, <2>3, <2>5 DEF IInv, IndexKept
  <2>12. QED
    BY <2>7, <2>8, <2>10, <2>11 DEF IInv
<1>4. CASE AnswerSearch(p)
  <2>1. Go(p, Idle) /\ op[p].at = "answer"
        /\ asked' = [asked EXCEPT ![p] = [query |-> @.query,
                                          found |-> Ranked(SearchCache(op[p].read[3]), @.query)]]
    BY <1>4 DEF AnswerSearch, At
  <2>2. DOMAIN asked' = Procs /\ \A x \in Procs \ {p} : asked'[x] = asked[x]
    BY <1>1, <2>1
  <2>3. /\ op' \in [Procs -> Command] /\ op'[p] = Idle /\ \A x \in Procs \ {p} : op'[x] = op[x]
        /\ \A x \in Procs : Asking(x)' /\ Refreshed(x)'
        /\ \A x \in Procs : Past(x)' => Past(x)
    BY <2>1, <2>2, StopStep
  <2>4. TypeOK'
    BY <1>2, <2>2, <2>3 DEF IInv, TypeOK, Command
  <2>5. RulesWritten'
    BY <1>2, <2>3 DEF IInv, RulesWritten
  <2>6. IndexKept'
    BY <1>2, <2>1, <2>3 DEF IInv, IndexKept
  <2>7. QED
    BY <2>3, <2>4, <2>5, <2>6 DEF IInv
<1>5. QED
  BY <1>3, <1>4

\* and refusals and crashes.
LEMMA EndActions ==
  ASSUME IInv, NEW p \in Procs, Refuse(p) \/ Crash(p)
  PROVE  IInv'
<1>1. op \in [Procs -> Command] /\ DOMAIN asked = Procs
  BY DEF IInv, TypeOK, Command
<1>2. /\ Go(p, Idle) /\ memory' = memory /\ gitignore' = gitignore /\ index' = index /\ ever' = ever
      /\ mutations' = mutations
      /\ asked' = IF Does(p, "search") THEN [asked EXCEPT ![p] = None] ELSE asked
  BY DEF Refuse, Fail, Crash
<1>3. DOMAIN asked' = Procs /\ \A x \in Procs \ {p} : asked'[x] = asked[x]
  BY <1>1, <1>2
<1>4. /\ op' \in [Procs -> Command] /\ op'[p] = Idle /\ \A x \in Procs \ {p} : op'[x] = op[x]
      /\ \A x \in Procs : Asking(x)' /\ Refreshed(x)'
      /\ \A x \in Procs : Past(x)' => Past(x)
  BY <1>2, <1>3, StopStep
<1>5. faults' \in 0 .. MaxFaults /\ crashed' \in BOOLEAN
  <2>1. faults' = faults \/ (faults < MaxFaults /\ faults' = faults + 1)
    BY DEF Refuse, Crash
  <2>2. crashed' = crashed \/ crashed' = TRUE
    BY DEF Refuse, Fail, Crash
  <2>3. faults' \in 0 .. MaxFaults
    BY <2>1, ConstantsAssumption DEF IInv, TypeOK
  <2>4. crashed' \in BOOLEAN
    BY <2>2 DEF IInv, TypeOK
  <2>5. QED
    BY <2>3, <2>4
<1>6. left' \subseteq {"build", "old"}
  BY DEF Refuse, Fail, Crash, LeftBy, IInv, TypeOK
<1>7. TypeOK'
  BY <1>2, <1>3, <1>4, <1>5, <1>6 DEF IInv, TypeOK, Command
<1>8. left' # {} => left # {} \/ Past(p)
  <2>1. CASE Does(p, "build") /\ (op[p].backup # None \/ op[p].temp)
    <3>1. op[p] \in NewBuild => op[p].backup = None /\ ~ op[p].temp
      BY DEF NewBuild
    <3>2. op[p].at # "ignore"
      BY <1>1, <2>1, <3>1, StageType
    <3>3. QED
      BY <2>1, <3>2 DEF Past, At
  <2>2. CASE ~ (Does(p, "build") /\ (op[p].backup # None \/ op[p].temp))
    BY <2>2 DEF Refuse, Fail, Crash, LeftBy
  <2>3. QED
    BY <2>1, <2>2
<1>9. RulesWritten'
  BY <1>2, <1>4, <1>8 DEF IInv, RulesWritten
<1>10. IndexKept'
  <2>1. CASE Crash(p)
    BY <2>1 DEF Crash, IndexKept
  <2>2. CASE Refuse(p)
    <3> SUFFICES ASSUME ever, ~ crashed, index = None
                 PROVE  \E x \in Procs : op'[x].at \in {"publish", "failed"} /\ op'[x].backup # None
      BY <1>2, <2>2 DEF IndexKept, Refuse, Fail
    <3>1. PICK x \in Procs : op[x].at \in {"publish", "failed"} /\ op[x].backup # None
      BY DEF IInv, IndexKept
    <3>2. x # p
      BY <2>2, <3>1 DEF Refuse, Refused, ToPutBack, At
    <3>3. QED
      BY <1>4, <3>1, <3>2
  <2>3. QED
    BY <2>1, <2>2
<1>11. QED
  BY <1>4, <1>7, <1>9, <1>10 DEF IInv

\* It holds initially.
LEMMA InvariantInit == Init => IInv
<1> SUFFICES ASSUME Init PROVE IInv
  OBVIOUS
<1>1. \A p \in Procs : op[p] = Idle /\ op[p].at = "idle"
  BY DEF Init, Idle
<1>2. gitignore \in {None} \cup SUBSET PrivateRules
  BY DEF Init, PrivateRules
<1>3. index \in {None} \cup Directory
  BY DEF Init, Directory
<1>4. op \in [Procs -> {Idle} \cup BuildOp \cup SearchOp]
  BY DEF Init
<1>5. TypeOK
  <2>1. mutations \in 0 .. MaxMutations /\ faults \in 0 .. MaxFaults
    BY ConstantsAssumption DEF Init
  <2>2. DOMAIN asked = Procs /\ memory \in Memories /\ left \subseteq {"build", "old"}
    BY DEF Init
  <2>3. ever \in BOOLEAN /\ crashed \in BOOLEAN
    BY DEF Init
  <2>4. QED
    BY <1>2, <1>3, <1>4, <2>1, <2>2, <2>3 DEF TypeOK
<1>6. RulesWritten
  <2>1. index # None => gitignore = {"indexes"}
    BY DEF Init
  <2>2. {"indexes"} \in SUBSET PrivateRules
    BY DEF PrivateRules
  <2>3. QED
    BY <1>1, <2>1, <2>2, ConstantsAssumption DEF Init, RulesWritten, Past, Does
<1>7. IndexKept
  BY DEF Init, IndexKept
<1>8. QED
  BY <1>1, <1>5, <1>6, <1>7 DEF IInv, Asking, Refreshed, Does, At

\* Every step keeps it.
LEMMA InvariantNext == IInv /\ [Next]_vars => IInv'
<1> SUFFICES ASSUME IInv, [Next]_vars PROVE IInv'
  OBVIOUS
<1>1. CASE Change
  <2>1. mutations' \in 0 .. MaxMutations /\ memory' \in Memories
    BY <1>1, ConstantsAssumption DEF Change, IInv, TypeOK
  <2>2. QED
    BY <1>1, <2>1
    DEF Change, files, IInv, TypeOK, Asking, Refreshed, RulesWritten, IndexKept, Past, Does, At
<1>2. ASSUME NEW p \in Procs,
             \/ BeginBuild(p) \/ \E q \in Queries : BeginSearch(p, q)
             \/ ReadMemory(p) \/ Build(p) \/ Search(p) \/ Refuse(p) \/ Crash(p)
      PROVE  IInv'
  BY <1>2, QuietActions, OtherActions, SearchActions, EndActions DEF Build, Search
<1>3. CASE UNCHANGED vars
  BY <1>3 DEF vars, files, IInv, TypeOK, Asking, Refreshed, RulesWritten, IndexKept, Past, Does, At
<1>4. QED
  BY <1>1, <1>2, <1>3 DEF Next

\* So it always holds.
LEMMA Invariance == Spec => []IInv
BY InvariantInit, InvariantNext, PTL DEF Spec

-----------------------------------------------------------------------------

\* The files and the commands hold what the code gives them, whatever
\* overlaps and whoever dies (tools/indexes.py).
THEOREM IndexesTypeCorrect == Spec => []TypeOK
BY Invariance, PTL DEF IInv

\* No index is lost to builds that fail or overlap (build_indexes).
THEOREM IndexesKept == Spec => []IndexKept
BY Invariance, PTL DEF IInv

\* Only a build past its first step holds a private directory.
LEMMA HeldByPast ==
  ASSUME TypeOK, NEW p \in Procs, Does(p, "build"), op[p].temp \/ op[p].backup # None
  PROVE  Past(p)
<1>1. op[p] \in Command
  BY DEF TypeOK, Command
<1>2. op[p] \in NewBuild => op[p].backup = None /\ ~ op[p].temp
  BY DEF NewBuild
<1>3. op[p].at # "ignore"
  BY <1>1, <1>2, StageType
<1>4. QED
  BY <1>3 DEF Past, At

\* No directory with private projections is visible to git
\* (_ensure_private_index_path).
THEOREM IndexesPrivateIgnored == Spec => []PrivateIgnored
<1>1. IInv => PrivateIgnored
  <2> SUFFICES ASSUME IInv, NEW rule \in Private PROVE gitignore # None /\ rule \in gitignore
    BY DEF PrivateIgnored
  <2>1. TypeOK /\ RulesWritten
    BY DEF IInv
  <2>2. (rule \in {"indexes"} /\ index # None) \/ rule \in left
        \/ (\E p \in Procs : rule = "build" /\ Does(p, "build") /\ op[p].temp)
        \/ (\E p \in Procs : rule \in LeftBy(p))
    BY DEF Private
  <2>3. CASE rule \in {"indexes"} /\ index # None
    BY <2>1, <2>3 DEF RulesWritten
  <2>4. CASE rule \in left
    BY <2>1, <2>4 DEF RulesWritten, TypeOK, PrivateRules
  <2>5. CASE \E p \in Procs : rule = "build" /\ Does(p, "build") /\ op[p].temp
    BY <2>1, <2>5, HeldByPast DEF RulesWritten, PrivateRules
  <2>6. CASE \E p \in Procs : rule \in LeftBy(p)
    <3>1. PICK p \in Procs : rule = "old" /\ Does(p, "build") /\ op[p].backup # None
      BY <2>6 DEF LeftBy
    <3>2. QED
      BY <2>1, <3>1, HeldByPast DEF RulesWritten, PrivateRules
  <2>7. QED
    BY <2>2, <2>3, <2>4, <2>5, <2>6
<1>2. QED
  BY <1>1, Invariance, PTL

\* The graph in place is closed (_build_graph_from_active).
THEOREM IndexesGraphClosed == Spec => []GraphClosed
<1>1. IInv => GraphClosed
  <2> SUFFICES ASSUME IInv, index # None PROVE GraphClosed
    BY DEF GraphClosed
  <2>1. index.from \in Memories
    BY DEF IInv, TypeOK, Directory
  <2>2. GraphIndex(index.from).source.retrieval = Active(index.from)
    BY DEF GraphIndex, Fingerprint
  <2> DEFINE graph == GraphIndex(index.from)
  <2>3. /\ \A e \in graph.edges : e.from \in graph.nodes /\ e.to \in graph.nodes
        /\ {n.ref : n \in {x \in graph.nodes : x.kind = "memory"}} = {r.id : r \in Active(index.from)}
        /\ \A r \in Active(index.from) : r.relationship =>
             ((\E e \in graph.edges : e.by = r.id) <=> ~ \E u \in graph.unresolved : u.id = r.id)
    BY ONLY <2>1, GraphIsClosed
  <2>4. QED
    BY ONLY <2>2, <2>3 DEF GraphClosed
<1>2. QED
  BY <1>1, Invariance, PTL

\* The search projection of a held read is that of the memory.
LEMMA FreshSearch ==
  ASSUME NEW read, NEW m, Fresh(read, m), DOMAIN Kinds = 1 .. 4
  PROVE  SearchCache(read[3]) = SearchCache(m)
<1>1. Kinds[3] = "search" /\ 3 \in DOMAIN Kinds
  BY DEF Kinds
<1>2. Files(read[3]).search = Files(m).search
  <2>1. Files(read[3])["search"] = Files(m)["search"]
    BY <1>1 DEF Fresh
  <2>2. QED
    BY <2>1
<1>3. \A x : Files(x).search = SearchCache(x)
  BY DEF Files
<1>4. QED
  BY <1>2, <1>3

\* Every step of a command is a step of the promise, or none.
LEMMA StepRefines ==
  ASSUME IInv, [Next]_vars
  PROVE  [Retrieves!Next]_(Retrieves!vars)
<1> USE DEF Retrieves!vars
<1>1. CASE Change
  BY <1>1 DEF Change, Retrieves!Next, Retrieves!Change
<1>2. ASSUME NEW p \in Procs, NEW q \in Queries, BeginSearch(p, q)
      PROVE  Retrieves!Next
  BY <1>2 DEF BeginSearch, Retrieves!Next, Retrieves!Ask
<1>3. ASSUME NEW p \in Procs, BeginBuild(p) \/ ReadMemory(p) \/ Build(p)
      PROVE  UNCHANGED <<memory, asked>>
  BY <1>3 DEF BeginBuild, ReadMemory, Build, IgnorePrivate, RereadForBuild, WriteFiles, CheckMemory,
              LookForIndex, MoveAside, Publish, FailToPublish, PutBack, Clean
<1>4. ASSUME NEW p \in Procs, OpenIndex(p) \/ ReadFile(p) \/ SameIndex(p) \/ RereadForSearch(p)
      PROVE  UNCHANGED <<memory, asked>>
  BY <1>4 DEF OpenIndex, ReadFile, SameIndex, RereadForSearch
<1>5. ASSUME NEW p \in Procs, Does(p, "search")
      PROVE  Retrieves!Pending(p)
  <2>1. PICK q \in Queries : asked[p] = [query |-> q, found |-> None]
    BY <1>5 DEF IInv, Asking
  <2>2. QED
    BY <2>1, ConstantsAssumption DEF Retrieves!Pending
<1>6. ASSUME NEW p \in Procs, AnswerSearch(p)
      PROVE  Retrieves!Next
  <2>1. At(p, "answer") /\ memory = op[p].raw /\ memory' = memory
        /\ asked' = [asked EXCEPT ![p] = [query |-> @.query,
                                          found |-> Ranked(SearchCache(op[p].read[3]), @.query)]]
    BY <1>6 DEF AnswerSearch
  <2>2. op[p] \in HeldSearch
    BY <2>1, StageType DEF At, IInv, TypeOK, Command
  <2>3. Retrieves!Pending(p)
    BY <1>5, <2>2, SearchKinds DEF Does
  <2>4. SearchCache(op[p].read[3]) = SearchCache(memory)
    <3>1. Fresh(op[p].read, memory)
      BY <2>1 DEF IInv, Refreshed
    <3>2. DOMAIN Kinds = 1 .. 4
      BY DEF Kinds
    <3>3. QED
      BY <3>1, <3>2, FreshSearch
  <2>5. Ranked(SearchCache(op[p].read[3]), asked[p].query) = Retrieves!Answer(memory, asked[p].query)
    BY <2>4, RankedSame DEF IInv, TypeOK
  <2>6. asked' = [asked EXCEPT ![p] = [query |-> asked[p].query,
                                       found |-> Retrieves!Answer(memory, asked[p].query)]]
    BY <2>1, <2>5
  <2>7. Retrieves!Tell(p)
    BY <2>1, <2>3, <2>6 DEF Retrieves!Tell
  <2>8. QED
    BY <2>7 DEF Retrieves!Next
<1>7. ASSUME NEW p \in Procs, Refuse(p) \/ Crash(p)
      PROVE  Retrieves!Next \/ UNCHANGED <<memory, asked>>
  <2>1. memory' = memory
        /\ asked' = IF Does(p, "search") THEN [asked EXCEPT ![p] = None] ELSE asked
    BY <1>7 DEF Refuse, Fail, Crash
  <2>2. CASE Does(p, "search")
    <3>1. Retrieves!Refuse(p)
      BY <1>5, <2>1, <2>2 DEF Retrieves!Refuse
    <3>2. QED
      BY <3>1 DEF Retrieves!Next
  <2>3. CASE ~ Does(p, "search")
    BY <2>1, <2>3
  <2>4. QED
    BY <2>2, <2>3
<1>8. CASE UNCHANGED vars
  BY <1>8 DEF vars
<1>9. QED
  BY <1>1, <1>2, <1>3, <1>4, <1>6, <1>7, <1>8 DEF Next, Search

\* A search answers what a search of the memory itself answers, or fails: the
\* derived indexes implement Retrieval (search_cache).
THEOREM IndexesAnswersFromMemory == Spec => AnswersFromMemory
<1>1. Init => Retrieves!Init
  BY DEF Init, Retrieves!Init
<1>2. IInv /\ [Next]_vars => [Retrieves!Next]_(Retrieves!vars)
  BY StepRefines
<1>3. QED
  BY <1>1, <1>2, Invariance, PTL DEF Spec, AnswersFromMemory, Retrieves!Spec

=============================================================================
