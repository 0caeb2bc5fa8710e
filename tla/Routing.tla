------------------------------ MODULE Routing ------------------------------
(***************************************************************************)
(* The selective-disclosure router of AI-CONTEXT (tools/routing.py over    *)
(* tools/routing_legacy.py): which canonical memories one bundle, for one  *)
(* profile, one target and one task, may and must contain.                 *)
(*                                                                         *)
(* plan_bundle selects memories directly, resolves the dependency graph    *)
(* that relationship records describe, validates every path from a         *)
(* selected memory (a depth-first search) and then adds the dependencies   *)
(* (a breadth-first search).  Any step may fail, and then there is no      *)
(* bundle.  Memory ids are hashes, so the order in which the code sorts    *)
(* roots and edges is arbitrary: the searches take them in any order.      *)
(*                                                                         *)
(* One behaviour is one call of plan_bundle; what it reads is its input.   *)
(***************************************************************************)
EXTENDS Integers, FiniteSets, SequencesExt

CONSTANTS
  Memories,        \* memory ids; one that is not active stands for a missing one
  SemanticKeys,    \* semantic keys
  RecordTypes,     \* record types
  Tags,            \* tags
  Terms,           \* words
  EpistemicStates, \* epistemic states
  Observations,    \* source observations
  ContentPaths,    \* dotted paths into the content of a record
  NoMemory,        \* no memory id in an endpoint
  NoKey,           \* no semantic key
  NoLink,          \* not a dependency relationship
  NoTask,          \* no task
  Inputs,          \* the calls of this instance: a subset of Input
  StepBudget       \* steps of the path search (at least 10000 in the code)

Sensitivities == 0 .. 3            \* public, private, restricted, secret
Secret == 3
Confidences == 0 .. 10             \* tenths
LifecycleStates == {"active", "expired", "superseded", "tombstoned"}

\* "<side>_memory_id" and "<side>_semantic_key" of a relationship record.
Endpoint == [memory : Memories \cup {NoMemory}, key : SemanticKeys \cup {NoKey}]

\* link: the endpoints, when the content's relation is "requires" or
\* "depends_on"; key: what derive_semantic_key finds in the content; terms and
\* notes: the words of the record and of its notes.
Record ==
  [approval : {"approved", "rejected", "pending"}, state : LifecycleStates,
   sensitivity : Sensitivities, type : RecordTypes, tags : SUBSET Tags,
   epistemic : EpistemicStates, confidence : Confidences,
   sources : SUBSET Observations, paths : SUBSET ContentPaths,
   terms : SUBSET Terms, notes : SUBSET Terms, key : SemanticKeys \cup {NoKey},
   link : [from : Endpoint, to : Endpoint] \cup {NoLink}]

HardExclusions ==
  [records : SUBSET Memories, types : SUBSET RecordTypes,
   epistemic : SUBSET EpistemicStates, sources : SUBSET Observations,
   paths : SUBSET ContentPaths]

TaskSelector ==
  [enabled : BOOLEAN, min_matches : 1 .. 32, search_notes : BOOLEAN,
   aliases : SUBSET [phrase : SUBSET Terms, alias : SUBSET Terms]]

DependencyPolicy ==
  [enabled : BOOLEAN, max_depth : 0 .. 32, fail_on_cycle : BOOLEAN,
   include_relationship_records : BOOLEAN]

\* What normalize_profile and normalize_routing_policy let through.
Profile ==
  {p \in [include_tags : SUBSET Tags, exclude_tags : SUBSET Tags,
          types : SUBSET RecordTypes, max_sensitivity : Sensitivities \ {Secret},
          task : TaskSelector, exclusions : HardExclusions,
          dependencies : DependencyPolicy] :
     p.include_tags \cap p.exclude_tags = {}}

Target ==
  {t \in [enabled : BOOLEAN, max_sensitivity : Sensitivities \ {Secret},
          min_confidence : Confidences, allowed_types : SUBSET RecordTypes,
          denied_types : SUBSET RecordTypes, denied_tags : SUBSET Tags,
          denied_epistemic : SUBSET EpistemicStates,
          verified_types : SUBSET RecordTypes,
          require_application : BOOLEAN, exclusions : HardExclusions] :
     t.allowed_types \cap t.denied_types = {}}

\* The arguments of plan_bundle and the files it reads.
Input ==
  [records : [Memories -> Record], profile : Profile, target : Target,
   exclusions : HardExclusions, tags : SUBSET Tags,
   task : {NoTask} \cup SUBSET Terms,
   applications : SUBSET [memory : Memories, key : SemanticKeys \cup {NoKey}]]

ASSUME ConstantsAssumption ==
  /\ IsFiniteSet(Memories)
  /\ Inputs \subseteq Input
  /\ NoMemory \notin Memories /\ NoKey \notin SemanticKeys
  /\ NoLink \notin [from : Endpoint, to : Endpoint] /\ \A w \in SUBSET Terms : w # NoTask
  /\ {"relationship"} \subseteq RecordTypes /\ {"verified"} \subseteq EpistemicStates
  /\ StepBudget \in Nat

Unknown == -1                      \* no depth yet
Edge == [from : Memories, to : Memories, by : Memories]
Frame == [node : Memories, left : SUBSET Edge, longest : Nat]

InclusionReasons ==
  {"tag_selector", "task_selector", "profile_baseline",
   "dependency_expansion", "dependency_relationship"}

Diagnostic ==
  [included_by : SUBSET InclusionReasons, dependency_of : SUBSET Memories,
   dependency_depth : Nat \cup {Unknown}]

NoDiagnostic ==
  [included_by |-> {}, dependency_of |-> {}, dependency_depth |-> Unknown]

VARIABLES
  input,       \* what plan_bundle is called with and reads
  phase,       \* what it does next
  selected,    \* the memories of the bundle
  diagnostics, \* why each is in it
  graph,       \* dependencies, with the relationship record of each
  roots,       \* path search: directly selected memories to start from
  stack,       \* path search: the path, and the edges left at each node
  memo,        \* path search: longest path from each finished node
  steps,       \* path search: steps taken, when cycles are tolerated
  best_depth,  \* expansion: least depth at which each memory was reached
  queue,       \* expansion: memories to expand
  left         \* expansion: edges left at the first of them

search == <<roots, stack, memo, steps>>
expansion == <<best_depth, queue, left>>
vars == <<input, phase, selected, diagnostics, graph, search, expansion>>

Init ==
  /\ input \in Inputs
  /\ phase = "select"
  /\ selected = {} /\ diagnostics = [m \in Memories |-> NoDiagnostic]
  /\ graph = {}
  /\ roots = {} /\ stack = <<>> /\ memo = [m \in Memories |-> Unknown] /\ steps = 0
  /\ best_depth = [m \in Memories |-> Unknown] /\ queue = <<>> /\ left = {}

\* A RoutingError: no bundle.
Fail ==
  /\ phase' = "failed"
  /\ UNCHANGED <<input, selected, diagnostics, graph, search, expansion>>

-----------------------------------------------------------------------------
(* The rules.                                                              *)

MinOf(x, y) == IF x < y THEN x ELSE y

effective_ceiling == MinOf(input.profile.max_sensitivity, input.target.max_sensitivity)

MergedExclusions ==
  LET e == {input.exclusions, input.profile.exclusions, input.target.exclusions} IN
  [records |-> UNION {x.records : x \in e}, types |-> UNION {x.types : x \in e},
   epistemic |-> UNION {x.epistemic : x \in e}, sources |-> UNION {x.sources : x \in e},
   paths |-> UNION {x.paths : x \in e}]

HardExcluded(m) ==
  LET r == input.records[m]
      e == MergedExclusions
  IN
  \/ m \in e.records \/ r.type \in e.types \/ r.epistemic \in e.epistemic
  \/ r.sources \cap e.sources # {} \/ r.paths \cap e.paths # {}

\* A nonempty list of types restricts, an empty one does not.
Outside(type, types) == types # {} /\ type \notin types

\* exclusion_reason is not None; the profile's types do not apply to a record
\* that is used as metadata only.
Excluded(m, metadata_only) ==
  LET r == input.records[m]
      t == input.target
  IN
  \/ r.approval # "approved" \/ r.state # "active"
  \/ r.sensitivity = Secret \/ r.sensitivity > effective_ceiling
  \/ ~ metadata_only /\ Outside(r.type, input.profile.types)
  \/ Outside(r.type, t.allowed_types) \/ r.type \in t.denied_types
  \/ r.tags \cap (input.profile.exclude_tags \cup t.denied_tags) # {}
  \/ r.epistemic \in t.denied_epistemic
  \/ r.confidence < t.min_confidence
  \/ r.type \in t.verified_types /\ r.epistemic # "verified"
  \/ t.require_application /\ ~ \E a \in input.applications : a.memory = m
  \/ HardExcluded(m)

\* The record states a dependency (DEPENDENCY_RELATIONS).
IsDependency(m) ==
  input.records[m].type = "relationship" /\ input.records[m].link # NoLink

-----------------------------------------------------------------------------
(* Direct selection.                                                       *)

task_terms ==
  input.task \cup
    UNION {a.alias : a \in {x \in input.profile.task.aliases :
                              x.phrase # {} /\ x.phrase \subseteq input.task}}

PositiveTags == input.profile.include_tags \cup input.tags

\* record_semantic_tokens
Surface(m) ==
  LET r == input.records[m] IN
  r.terms \cup (IF input.profile.task.search_notes THEN r.notes ELSE {})

\* _direct_selector
DirectlySelected(m) ==
  /\ IsDependency(m) => input.profile.dependencies.include_relationship_records
  /\ PositiveTags # {} => input.records[m].tags \cap PositiveTags # {}
  /\ input.task # NoTask =>
       Cardinality(task_terms \cap Surface(m)) >= input.profile.task.min_matches

IncludedBy ==
  LET selectors == (IF PositiveTags # {} THEN {"tag_selector"} ELSE {}) \cup
                   (IF input.task # NoTask THEN {"task_selector"} ELSE {})
  IN  IF selectors = {} THEN {"profile_baseline"} ELSE selectors

\* The target is enabled, and a task has words and a profile that allows it.
Routable ==
  /\ input.target.enabled
  /\ input.task # NoTask => input.profile.task.enabled /\ input.task # {}

Baseline == {m \in Memories : ~ Excluded(m, FALSE) /\ DirectlySelected(m)}

Select ==
  /\ phase = "select"
  /\ \/ ~ Routable /\ Fail
     \/ /\ Routable
        /\ selected' = Baseline
        /\ diagnostics' =
             [m \in Memories |-> IF m \in Baseline
                                 THEN [NoDiagnostic EXCEPT !.included_by = IncludedBy]
                                 ELSE NoDiagnostic]
        /\ phase' = "resolve"
        /\ UNCHANGED <<input, graph, search, expansion>>

-----------------------------------------------------------------------------
(* The dependency graph.                                                   *)

Active == {m \in Memories : input.records[m].approval = "approved" /\
                            input.records[m].state = "active"}

\* _semantic_key_map: keys given at review hide the key derived from the content.
KeysOf(m) ==
  LET given == {a.key : a \in {x \in input.applications : x.memory = m}} \ {NoKey}
  IN  IF given # {} THEN given ELSE {input.records[m].key} \ {NoKey}

Matches(p) ==
  {m \in Active : IF p.memory # NoMemory THEN m = p.memory ELSE p.key \in KeysOf(m)}

\* Exactly one of id and key is given, and names exactly one active memory.
Resolvable(p) ==
  /\ (p.memory = NoMemory) # (p.key = NoKey)
  /\ \E m \in Matches(p) : Matches(p) = {m}

\* _resolve_endpoint
Resolve(p) == CHOOSE m \in Matches(p) : TRUE

LinkOf(m) == input.records[m].link

Dependencies == {m \in Active : IsDependency(m)}

GraphResolves ==
  \A m \in Dependencies :
    /\ Resolvable(LinkOf(m).from) /\ Resolvable(LinkOf(m).to)
    /\ Resolve(LinkOf(m).from) # Resolve(LinkOf(m).to)

\* dependency_graph
DependencyGraph ==
  {[from |-> Resolve(LinkOf(m).from), to |-> Resolve(LinkOf(m).to), by |-> m] :
     m \in Dependencies}

EdgesFrom(g, n) == {e \in g : e.from = n}

policy == input.profile.dependencies

ResolveGraph ==
  /\ phase = "resolve"
  /\ LET disabled == /\ ~ policy.enabled
                     /\ \E m \in selected : EdgesFrom(DependencyGraph, m) # {}
     IN
     \/ ~ GraphResolves /\ Fail
     \/ GraphResolves /\ disabled /\ Fail
     \/ /\ GraphResolves /\ ~ disabled
        /\ graph' = DependencyGraph
        /\ roots' = selected
        /\ phase' = "validate"
        /\ UNCHANGED <<input, selected, diagnostics, stack, memo, steps, expansion>>

-----------------------------------------------------------------------------
(* _validate_dependency_paths: a depth-first search from every root.  With *)
(* fail_on_cycle it computes the longest path from each node, once; else   *)
(* it walks every simple path.                                             *)

Top == stack[Len(stack)]
OnPath(m) == \E i \in DOMAIN stack : stack[i].node = m

Push(base, m) ==
  Append(base, [node |-> m, left |-> EdgesFrom(graph, m), longest |-> 0])

ReplaceTop(f) == [stack EXCEPT ![Len(stack)] = f]

EnterRoot(m) ==
  /\ phase = "validate" /\ stack = <<>> /\ m \in roots
  /\ \/ /\ memo[m] # Unknown
        /\ IF memo[m] > policy.max_depth
           THEN Fail
           ELSE /\ roots' = roots \ {m}
                /\ UNCHANGED <<input, phase, selected, diagnostics, graph, stack, memo,
                               steps, expansion>>
     \/ /\ memo[m] = Unknown
        /\ stack' = Push(<<>>, m)
        /\ UNCHANGED <<input, phase, selected, diagnostics, graph, roots, memo, steps,
                       expansion>>

\* Mutant: the length of a path through a finished node is not counted.
PathSeen(f, e) == [f EXCEPT !.left = @ \ {e}]

\* The path through e is as long as the longest one from its target, and one more.
PathThrough(f, e) ==
  [f EXCEPT !.left = @ \ {e},
            !.longest = IF memo[e.to] + 1 > @ THEN memo[e.to] + 1 ELSE @]

\* longest: a node is entered, and the edge taken again when it has been left.
FollowAcyclic(e) ==
  /\ phase = "validate" /\ stack # <<>> /\ e \in Top.left
  /\ policy.fail_on_cycle
  /\ \/ OnPath(e.to) /\ Fail
     \/ /\ ~ OnPath(e.to)
        /\ stack' = IF memo[e.to] # Unknown
                    THEN ReplaceTop(PathThrough(Top, e))
                    ELSE Push(stack, e.to)
        /\ UNCHANGED <<input, phase, selected, diagnostics, graph, roots, memo, steps,
                       expansion>>

\* Mutant: one step more than the budget.
OneStepMore == steps > StepBudget

OutOfSteps == steps + 1 > StepBudget

\* walk
FollowSimple(e) ==
  /\ phase = "validate" /\ stack # <<>> /\ e \in Top.left
  /\ ~ policy.fail_on_cycle
  /\ LET rest == ReplaceTop([Top EXCEPT !.left = @ \ {e}])
         refused == Len(stack) > policy.max_depth \/ OutOfSteps
     IN
     \/ /\ OnPath(e.to)
        /\ stack' = rest
        /\ UNCHANGED <<input, phase, selected, diagnostics, graph, roots, memo, steps,
                       expansion>>
     \/ ~ OnPath(e.to) /\ refused /\ Fail
     \/ /\ ~ OnPath(e.to) /\ ~ refused
        /\ stack' = Push(rest, e.to)
        /\ steps' = steps + 1
        /\ UNCHANGED <<input, phase, selected, diagnostics, graph, roots, memo, expansion>>

\* A node without edges left is left; at a root the length of its longest path
\* is compared with the limit.
Leave ==
  /\ phase = "validate" /\ stack # <<>> /\ Top.left = {}
  /\ LET isRoot == Len(stack) = 1
         tooLong == policy.fail_on_cycle /\ isRoot /\ Top.longest > policy.max_depth
     IN
     \/ tooLong /\ Fail
     \/ /\ ~ tooLong
        /\ stack' = SubSeq(stack, 1, Len(stack) - 1)
        /\ memo' = IF policy.fail_on_cycle
                   THEN [memo EXCEPT ![Top.node] = Top.longest] ELSE memo
        /\ roots' = IF isRoot THEN roots \ {Top.node} ELSE roots
        /\ UNCHANGED <<input, phase, selected, diagnostics, graph, steps, expansion>>

-----------------------------------------------------------------------------
(* _expand_dependencies: a breadth-first search from the roots.            *)

\* The edges of the first memory in the queue.
FirstEdges(q) == IF q = <<>> THEN {} ELSE EdgesFrom(graph, Head(q))

StartExpansion ==
  /\ phase = "validate" /\ stack = <<>> /\ roots = {}
  /\ phase' = "expand"
  /\ best_depth' = [m \in Memories |-> IF m \in selected THEN 0 ELSE Unknown]
  /\ \E q \in SetToSeqs(selected) : queue' = q /\ left' = FirstEdges(q)
  /\ UNCHANGED <<input, selected, diagnostics, graph, search>>

\* Mutant: a memory reached for the first time is not expanded.
CloserThanKnown(d, old) == old # Unknown /\ d < old

Closer(d, old) == old = Unknown \/ d < old

LeastDepth(d, old) == IF Closer(d, old) THEN d ELSE old

\* Mutant: a memory found a second time keeps its diagnostic.
FirstParent(diag, n, d, reasons) ==
  IF diag.included_by = {}
  THEN [included_by |-> reasons, dependency_of |-> {n}, dependency_depth |-> d]
  ELSE diag

\* The diagnostic of a memory, or of a relationship record, that n depends on.
Explained(diag, n, d, reasons) ==
  [included_by |-> diag.included_by \cup reasons,
   dependency_of |-> diag.dependency_of \cup {n},
   dependency_depth |-> LeastDepth(d, diag.dependency_depth)]

\* Mutant: a relationship record is never more than metadata.
AlwaysMetadata == TRUE

\* The profile's types apply to a relationship record that will be disclosed.
MetadataOnly == ~ policy.include_relationship_records

Blocked(e, d) ==
  \/ Excluded(e.by, MetadataOnly)
  \/ d > policy.max_depth
  \/ Excluded(e.to, FALSE)

Follow(e) ==
  LET n == Head(queue)
      d == best_depth[n] + 1
      explained == [diagnostics EXCEPT
                      ![e.to] = Explained(@, n, d, {"dependency_expansion"})]
      byReason == IF explained[e.by].included_by = {}
                  THEN {"dependency_relationship"} ELSE {}
  IN
  /\ phase = "expand" /\ queue # <<>> /\ e \in left
  /\ \/ Blocked(e, d) /\ Fail
     \/ /\ ~ Blocked(e, d)
        /\ selected' = selected \cup {e.to} \cup
                         (IF policy.include_relationship_records THEN {e.by} ELSE {})
        /\ diagnostics' =
             IF policy.include_relationship_records
             THEN [explained EXCEPT ![e.by] = Explained(@, n, d, byReason)]
             ELSE explained
        /\ IF Closer(d, best_depth[e.to])
           THEN /\ best_depth' = [best_depth EXCEPT ![e.to] = d]
                /\ queue' = Append(queue, e.to)
           ELSE UNCHANGED <<best_depth, queue>>
        /\ left' = left \ {e}
        /\ UNCHANGED <<input, phase, graph, search>>

\* The first memory is done.
Dequeue ==
  /\ phase = "expand" /\ queue # <<>> /\ left = {}
  /\ queue' = Tail(queue)
  /\ left' = FirstEdges(Tail(queue))
  /\ UNCHANGED <<input, phase, selected, diagnostics, graph, search, best_depth>>

\* The bundle is written.
Finish ==
  /\ phase = "expand" /\ queue = <<>>
  /\ phase' = "done"
  /\ UNCHANGED <<input, selected, diagnostics, graph, search, expansion>>

Terminated == phase \in {"done", "failed"} /\ UNCHANGED vars

Next ==
  \/ Select \/ ResolveGraph
  \/ (\E m \in Memories : EnterRoot(m))
  \/ (\E e \in graph : FollowAcyclic(e) \/ FollowSimple(e))
  \/ Leave
  \/ StartExpansion
  \/ (\E e \in graph : Follow(e))
  \/ Dequeue \/ Finish \/ Terminated

Spec == Init /\ [][Next]_vars

-----------------------------------------------------------------------------
(* What a bundle must be, from its input alone.                            *)

\* Steps[k]: the memories at the end of a walk of k dependencies from a direct
\* selection.
Steps ==
  LET g == DependencyGraph
      ends[k \in 0 .. 33 + Cardinality(Memories)] ==
        IF k = 0 THEN Baseline
        ELSE LET last == ends[k - 1] IN {e.to : e \in {x \in g : x.from \in last}}
  IN  ends

\* Distances of the memories that are directly selected or a dependency of one
\* that is required.
Distances ==
  LET walks == [k \in 0 .. Cardinality(Memories) |-> Steps[k]]
      required == UNION {walks[k] : k \in DOMAIN walks}
  IN  [m \in required |-> CHOOSE k \in DOMAIN walks :
                            m \in walks[k] /\ \A j \in 0 .. k - 1 : m \notin walks[j]]

\* The dependencies of required memories.
RequiredEdges == LET required == DOMAIN Distances IN {e \in DependencyGraph : e.from \in required}

\* SimplePaths[k]: the simple paths of k dependencies from a direct selection.
SimplePaths ==
  LET g == DependencyGraph
      paths[k \in 0 .. 33] ==
        IF k = 0 THEN {[nodes |-> <<m>>, edges |-> <<>>] : m \in Baseline}
        ELSE LET shorter == paths[k - 1] IN
             UNION {{[nodes |-> Append(p.nodes, e.to), edges |-> Append(p.edges, e)] :
                       e \in {x \in g : /\ x.from = p.nodes[k]
                                        /\ \A i \in 1 .. k : p.nodes[i] # x.to}} :
                      p \in shorter}
  IN  paths

PathsWithin(depth) ==
  IF policy.fail_on_cycle
  THEN Steps[depth + 1] = {}
  ELSE /\ SimplePaths[depth + 1] = {}
       /\ Cardinality(UNION {SimplePaths[k] : k \in 1 .. depth}) <= StepBudget

\* There is a bundle: no rule stands against any required memory.
Plannable ==
  /\ Routable /\ GraphResolves
  /\ policy.enabled \/ \A m \in Baseline : EdgesFrom(DependencyGraph, m) = {}
  /\ PathsWithin(policy.max_depth)
  /\ LET distance == Distances IN
     \A e \in RequiredEdges : ~ Blocked(e, distance[e.from] + 1)

\* What the profile, the target and the global policy allow: every layer on its
\* own, whatever the others say, and every rule also for a dependency and for a
\* relationship record.
AllowedBy(exclusions, m) ==
  LET r == input.records[m] IN
  /\ m \notin exclusions.records /\ r.type \notin exclusions.types
  /\ r.epistemic \notin exclusions.epistemic
  /\ r.sources \cap exclusions.sources = {} /\ r.paths \cap exclusions.paths = {}

PermittedByProfile(m) ==
  LET r == input.records[m]
      p == input.profile
  IN
  /\ r.sensitivity <= p.max_sensitivity
  /\ p.types = {} \/ r.type \in p.types
  /\ r.tags \cap p.exclude_tags = {}
  /\ AllowedBy(p.exclusions, m)

PermittedByTarget(m) ==
  LET r == input.records[m]
      t == input.target
  IN
  /\ r.sensitivity <= t.max_sensitivity
  /\ t.allowed_types = {} \/ r.type \in t.allowed_types
  /\ r.type \notin t.denied_types
  /\ r.tags \cap t.denied_tags = {}
  /\ r.epistemic \notin t.denied_epistemic
  /\ r.confidence >= t.min_confidence
  /\ r.type \in t.verified_types => r.epistemic = "verified"
  /\ t.require_application => \E a \in input.applications : a.memory = m
  /\ AllowedBy(t.exclusions, m)

Permitted(m) ==
  /\ m \in Active
  /\ PermittedByProfile(m) /\ PermittedByTarget(m) /\ AllowedBy(input.exclusions, m)

-----------------------------------------------------------------------------
(* Properties.                                                             *)

\* The searches' state is of its kind.
TypeOK ==
  /\ phase \in {"select", "resolve", "validate", "expand", "done", "failed"}
  /\ selected \subseteq Memories /\ diagnostics \in [Memories -> Diagnostic]
  /\ graph \subseteq Edge
  /\ roots \subseteq Memories /\ stack \in Seq(Frame)
  /\ memo \in [Memories -> Nat \cup {Unknown}] /\ steps \in 0 .. StepBudget
  /\ best_depth \in [Memories -> Nat \cup {Unknown}] /\ queue \in Seq(Memories)
  /\ left \subseteq Edge

\* "It may never bypass": whatever way a memory comes into the bundle, directly,
\* as a dependency of a dependency or as a relationship record, every layer of
\* the policy permits it.
OnlyPermitted == \A m \in selected : Permitted(m)

\* A bundle is refused only for a cause and made only without one, in whatever
\* order the searches take roots and edges: a blocked record, a cycle, a path
\* too long, an endpoint that does not resolve, anywhere in the closure.
BundleIffPlannable ==
  /\ phase = "done" => Plannable
  /\ phase = "failed" => ~ Plannable

\* The bundle is the closure of the direct selections under required
\* dependencies, and nothing else.
ClosureIsExact ==
  phase = "done" =>
    selected = DOMAIN Distances \cup
      (IF policy.include_relationship_records THEN {e.by : e \in RequiredEdges} ELSE {})

\* "expand once at shortest depth for stable diagnostics": the diagnostics say
\* which memories need this one, and at which least depth.
DiagnosticsExact ==
  phase = "done" =>
    LET distance == Distances
        needing == [m \in selected |->
          {e \in RequiredEdges :
             e.to = m \/ (policy.include_relationship_records /\ e.by = m)}]
    IN
    \A m \in selected :
      /\ diagnostics[m].dependency_of = {e.from : e \in needing[m]}
      /\ diagnostics[m].dependency_depth =
           IF needing[m] = {} THEN Unknown
           ELSE CHOOSE d \in {distance[e.from] + 1 : e \in needing[m]} :
                  \A e \in needing[m] : d <= distance[e.from] + 1

=============================================================================
