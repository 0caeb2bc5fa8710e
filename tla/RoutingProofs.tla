--------------------------- MODULE RoutingProofs ---------------------------
(***************************************************************************)
(* Theorems about Routing, for every set of memories, every policy and     *)
(* every call of the router: its state is of its kind, only permitted      *)
(* records are disclosed, a bundle is exactly the closure of its direct    *)
(* selections with exact diagnostics, and there is one iff no rule stands  *)
(* against it.                                                             *)
(***************************************************************************)
EXTENDS Routing, FiniteSetTheorems, SequenceTheorems, WellFoundedInduction, TLAPS

\* What is called is one of the instance's calls, and TypeOK.
Context == TypeOK /\ input \in Inputs

\* What is called is a call.
LEMMA CallType ==
  ASSUME input \in Inputs
  PROVE  input \in Input
  BY ConstantsAssumption

\* The limits of the dependency policy are numbers.
LEMMA PolicyType ==
  ASSUME input \in Inputs
  PROVE  policy.max_depth \in Nat /\ policy \in DependencyPolicy
  BY CallType DEF Input, Profile, policy, DependencyPolicy

\* A direct selection is a set of memories with a reason each.
LEMMA IncludedByType == IncludedBy \subseteq InclusionReasons
  BY DEF IncludedBy, InclusionReasons

\* The graph that resolves is a set of edges between memories.
LEMMA GraphType ==
  ASSUME GraphResolves
  PROVE  DependencyGraph \subseteq Edge
  <1> SUFFICES ASSUME NEW m \in Dependencies
               PROVE  /\ Resolve(LinkOf(m).from) \in Memories
                      /\ Resolve(LinkOf(m).to) \in Memories /\ m \in Memories
    BY DEF DependencyGraph, Edge
  <1>1. \A p : Resolvable(p) => Resolve(p) \in Memories
    BY DEF Resolvable, Resolve, Matches, Active
  <1> QED
    BY <1>1 DEF GraphResolves, Dependencies, Active

\* An arrangement of selected memories is a sequence of memories.
LEMMA OrderType ==
  ASSUME selected \subseteq Memories, NEW q \in SetToSeqs(selected)
  PROVE  q \in Seq(Memories)
  <1>1. Cardinality(selected) \in Nat
    BY FS_Subset, FS_CardinalityType, ConstantsAssumption
  <1> QED
    BY <1>1 DEF SetToSeqs

\* A failing call keeps what it has found out.
LEMMA FailType ==
  ASSUME Context, Fail
  PROVE  Context'
  BY DEF Context, TypeOK, Fail, search, expansion

\* Direct selection.
LEMMA SelectType ==
  ASSUME Context, Select
  PROVE  Context'
  <1>1. CASE Fail
    BY <1>1, FailType
  <1>2. CASE ~ Fail
    <2>1. Baseline \subseteq Memories
      BY DEF Baseline
    <2>2. /\ NoDiagnostic \in Diagnostic
          /\ [NoDiagnostic EXCEPT !.included_by = IncludedBy] \in Diagnostic
      BY IncludedByType DEF NoDiagnostic, Diagnostic
    <2>3. diagnostics' \in [Memories -> Diagnostic]
      BY <1>2, <2>2 DEF Select
    <2> QED
      BY <1>2, <2>1, <2>3 DEF Select, Context, TypeOK, search, expansion
  <1> QED
    BY <1>1, <1>2

\* The dependency graph.
LEMMA ResolveGraphType ==
  ASSUME Context, ResolveGraph
  PROVE  Context'
  <1>1. CASE Fail
    BY <1>1, FailType
  <1>2. CASE ~ Fail
    <2>1. graph' = DependencyGraph /\ DependencyGraph \subseteq Edge
      BY <1>2, GraphType DEF ResolveGraph
    <2> QED
      BY <1>2, <2>1 DEF ResolveGraph, Context, TypeOK, expansion
  <1> QED
    BY <1>1, <1>2

\* A memory is put on the path with the edges that leave it.
LEMMA PushType ==
  ASSUME Context, NEW base \in Seq(Frame), NEW m \in Memories
  PROVE  Push(base, m) \in Seq(Frame)
  <1>1. [node |-> m, left |-> EdgesFrom(graph, m), longest |-> 0] \in Frame
    BY DEF Context, TypeOK, EdgesFrom, Frame
  <1> QED
    BY <1>1 DEF Push

\* The top of a path that is not empty is a frame; it may be replaced by one.
LEMMA TopType ==
  ASSUME Context, stack # <<>>
  PROVE  /\ Len(stack) \in Nat \ {0} /\ Top \in Frame
         /\ \A f \in Frame : ReplaceTop(f) \in Seq(Frame)
  <1>1. Len(stack) \in Nat \ {0} /\ Len(stack) \in DOMAIN stack
    BY DEF Context, TypeOK
  <1> QED
    BY <1>1 DEF Context, TypeOK, Top, ReplaceTop

\* A root is entered, or known already.
LEMMA EnterRootType ==
  ASSUME Context, NEW m \in Memories, EnterRoot(m)
  PROVE  Context'
  <1>1. CASE Fail
    BY <1>1, FailType
  <1>2. CASE ~ Fail
    <2>0. <<>> \in Seq(Frame)
      OBVIOUS
    <2>1. Push(<<>>, m) \in Seq(Frame)
      BY <2>0, PushType
    <2> QED
      BY <1>2, <2>1 DEF EnterRoot, Context, TypeOK, expansion
  <1> QED
    BY <1>1, <1>2

\* An edge is followed where cycles are an error.
LEMMA FollowAcyclicType ==
  ASSUME Context, NEW e \in graph, FollowAcyclic(e)
  PROVE  Context'
  <1>1. CASE Fail
    BY <1>1, FailType
  <1>2. CASE ~ Fail
    <2>0. e \in Edge /\ e.to \in Memories /\ stack # <<>>
      BY DEF Context, TypeOK, Edge, FollowAcyclic
    <2>1. Push(stack, e.to) \in Seq(Frame)
      BY <2>0, PushType DEF Context, TypeOK
    <2>2. PathThrough(Top, e) \in Frame
      <3>1. Top \in Frame
        BY <2>0, TopType
      <3>2. memo[e.to] \in Nat \cup {-1}
        BY <2>0 DEF Context, TypeOK, Unknown
      <3>3. memo[e.to] + 1 \in Nat
        BY <3>2
      <3> QED
        BY <3>1, <3>3 DEF PathThrough, Frame
    <2>3. stack' \in Seq(Frame)
      BY <1>2, <2>0, <2>1, <2>2, TopType DEF FollowAcyclic
    <2> QED
      BY <1>2, <2>3 DEF FollowAcyclic, Context, TypeOK, expansion
  <1> QED
    BY <1>1, <1>2

\* An edge is followed where cycles are tolerated.
LEMMA FollowSimpleType ==
  ASSUME Context, NEW e \in graph, FollowSimple(e)
  PROVE  Context'
  <1>1. CASE Fail
    BY <1>1, FailType
  <1>2. CASE ~ Fail
    <2>0. e \in Edge /\ e.to \in Memories /\ stack # <<>>
      BY DEF Context, TypeOK, Edge, FollowSimple
    <2>1. PICK rest : rest = ReplaceTop([Top EXCEPT !.left = @ \ {e}])
      OBVIOUS
    <2>2. rest \in Seq(Frame)
      <3>1. [Top EXCEPT !.left = @ \ {e}] \in Frame
        BY <2>0, TopType DEF Frame
      <3> QED
        BY <2>0, <2>1, <3>1, TopType
    <2>3. Push(rest, e.to) \in Seq(Frame)
      BY <2>0, <2>2, PushType
    <2>4. stack' \in Seq(Frame) /\ steps' \in 0 .. StepBudget
      BY <1>2, <2>1, <2>2, <2>3, ConstantsAssumption
      DEF FollowSimple, OutOfSteps, Context, TypeOK
    <2> QED
      BY <1>2, <2>4 DEF FollowSimple, Context, TypeOK, expansion
  <1> QED
    BY <1>1, <1>2

\* The last memory of the path is left.
LEMMA LeaveType ==
  ASSUME Context, Leave
  PROVE  Context'
  <1>1. CASE Fail
    BY <1>1, FailType
  <1>2. CASE ~ Fail
    <2>1. Len(stack) \in Nat \ {0} /\ Top \in Frame
      BY TopType DEF Leave
    <2>2. SubSeq(stack, 1, Len(stack) - 1) \in Seq(Frame)
      BY <2>1 DEF Context, TypeOK
    <2>3. Top.node \in Memories /\ Top.longest \in Nat
      BY <2>1 DEF Frame
    <2>4. /\ stack' \in Seq(Frame)
          /\ memo' \in [Memories -> Nat \cup {Unknown}] /\ roots' \subseteq Memories
      BY <1>2, <2>2, <2>3 DEF Leave, Context, TypeOK
    <2> QED
      BY <1>2, <2>4 DEF Leave, Context, TypeOK, expansion
  <1> QED
    BY <1>1, <1>2

\* The expansion begins.
LEMMA StartExpansionType ==
  ASSUME Context, StartExpansion
  PROVE  Context'
  <1>1. PICK q \in SetToSeqs(selected) : queue' = q /\ left' = FirstEdges(q)
    BY DEF StartExpansion
  <1>2. q \in Seq(Memories)
    BY <1>1, OrderType DEF Context, TypeOK
  <1>3. left' \subseteq Edge
    BY <1>1 DEF FirstEdges, EdgesFrom, Context, TypeOK
  <1> QED
    BY <1>1, <1>2, <1>3 DEF StartExpansion, Context, TypeOK, search

\* A dependency is followed.
LEMMA FollowType ==
  ASSUME Context, NEW e \in graph, Follow(e)
  PROVE  Context'
  <1> DEFINE n == Head(queue)
             d == best_depth[n] + 1
  <1>1. CASE Fail
    BY <1>1, FailType
  <1>2. CASE ~ Fail
    <2>0. e.to \in Memories /\ e.by \in Memories
      BY DEF Context, TypeOK, Edge
    <2>1. n \in Memories /\ d \in Nat
      BY DEF Follow, Context, TypeOK, Unknown
    <2>2. ASSUME NEW diag \in Diagnostic, NEW reasons \in SUBSET InclusionReasons
          PROVE  Explained(diag, n, d, reasons) \in Diagnostic
      BY <2>1 DEF Explained, LeastDepth, Diagnostic
    <2> DEFINE explained == [diagnostics EXCEPT
                      ![e.to] = Explained(@, n, d, {"dependency_expansion"})]
               reason == IF explained[e.by].included_by = {}
                         THEN {"dependency_relationship"} ELSE {}
    <2>3. diagnostics' = IF policy.include_relationship_records
                         THEN [explained EXCEPT ![e.by] = Explained(@, n, d, reason)]
                         ELSE explained
      BY <1>2 DEF Follow
    <2>4. explained \in [Memories -> Diagnostic]
      BY <2>0, <2>2 DEF InclusionReasons, Context, TypeOK
    <2>5. reason \in SUBSET InclusionReasons
      BY DEF InclusionReasons
    <2> HIDE DEF explained, reason
    <2>6. [explained EXCEPT ![e.by] = Explained(@, n, d, reason)] \in [Memories -> Diagnostic]
      BY <2>0, <2>2, <2>4, <2>5
    <2>7. diagnostics' \in [Memories -> Diagnostic]
      BY <2>3, <2>4, <2>6
    <2>8. /\ best_depth' \in [Memories -> Nat \cup {Unknown}]
          /\ queue' \in Seq(Memories)
      <3>1. /\ best_depth' \in {best_depth, [best_depth EXCEPT ![e.to] = d]}
            /\ queue' \in {queue, Append(queue, e.to)}
        BY <1>2 DEF Follow
      <3>2. queue \in Seq(Memories) /\ best_depth \in [Memories -> Nat \cup {Unknown}]
        BY DEF Context, TypeOK
      <3> HIDE DEF n, d
      <3>3. Append(queue, e.to) \in Seq(Memories)
        BY <2>0, <3>2
      <3>4. [best_depth EXCEPT ![e.to] = d] \in [Memories -> Nat \cup {Unknown}]
        BY <2>0, <2>1, <3>2
      <3> QED
        BY <3>1, <3>2, <3>3, <3>4
    <2>9. selected' \subseteq Memories /\ left' \subseteq Edge
      BY <1>2, <2>0 DEF Follow, Context, TypeOK
    <2> QED
      BY <1>2, <2>7, <2>8, <2>9 DEF Follow, Context, TypeOK, search
  <1> QED
    BY <1>1, <1>2

\* The next memory is taken up.
LEMMA DequeueType ==
  ASSUME Context, Dequeue
  PROVE  Context'
  <1>1. Tail(queue) \in Seq(Memories)
    BY DEF Dequeue, Context, TypeOK
  <1>2. FirstEdges(Tail(queue)) \subseteq Edge
    BY DEF FirstEdges, EdgesFrom, Context, TypeOK
  <1> QED
    BY <1>1, <1>2 DEF Dequeue, Context, TypeOK, search

\* No step leaves the context.
LEMMA StepType ==
  ASSUME Context, [Next]_vars
  PROVE  Context'
  <1>1. CASE Finish
    BY <1>1 DEF Finish, Context, TypeOK, search, expansion
  <1>2. CASE Terminated \/ UNCHANGED vars
    BY <1>2 DEF Terminated, vars, Context, TypeOK, search, expansion
  <1> QED
    BY <1>1, <1>2, SelectType, ResolveGraphType, EnterRootType, FollowAcyclicType,
       FollowSimpleType, LeaveType, StartExpansionType, FollowType, DequeueType DEF Next

\* What the router has worked out so far is of its kind, for every call.
THEOREM RoutingTypeCorrect == Spec => []TypeOK
  <1>1. Init => Context
    BY ConstantsAssumption DEF Init, Context, TypeOK, NoDiagnostic, Diagnostic
  <1>2. Context /\ [Next]_vars => Context'
    BY StepType
  <1>3. Context => TypeOK
    BY DEF Context
  <1> QED
    BY <1>1, <1>2, <1>3, PTL DEF Spec

-----------------------------------------------------------------------------

\* A record that no rule excludes is permitted by every layer: the effective
\* ceiling is no higher than either, and merging exclusions loses none.
LEMMA NotExcludedMeansPermitted ==
  ASSUME input \in Inputs, NEW m \in Memories, ~ Excluded(m, FALSE)
  PROVE  Permitted(m)
  <1> DEFINE r == input.records[m]
             layers == {input.exclusions, input.profile.exclusions, input.target.exclusions}
  <1>1. m \in Active
    BY DEF Excluded, Active
  <1>2. /\ r.sensitivity \in Int /\ r.confidence \in Int
        /\ input.profile.max_sensitivity \in Int /\ input.target.max_sensitivity \in Int
        /\ input.target.min_confidence \in Int
    BY CallType DEF Input, Record, Profile, Target, Sensitivities, Confidences
  <1>3. /\ r.sensitivity <= input.profile.max_sensitivity
        /\ r.sensitivity <= input.target.max_sensitivity
    BY <1>2 DEF Excluded, effective_ceiling, MinOf
  <1>4. \A x \in layers : AllowedBy(x, m)
    BY DEF Excluded, HardExcluded, MergedExclusions, AllowedBy
  <1>5. PermittedByProfile(m)
    BY <1>3, <1>4 DEF Excluded, Outside, PermittedByProfile
  <1>6. PermittedByTarget(m)
    BY <1>2, <1>3, <1>4 DEF Excluded, Outside, PermittedByTarget
  <1> QED
    BY <1>1, <1>4, <1>5, <1>6 DEF Permitted

\* Whatever way a memory comes into a bundle, every layer of the policy permits
\* it ("It may never bypass", docs/ROUTING.md).
THEOREM DisclosureIsPermitted == Spec => []OnlyPermitted
  <1>1. Init => Context /\ OnlyPermitted
    BY ConstantsAssumption DEF Init, Context, TypeOK, NoDiagnostic, Diagnostic, OnlyPermitted
  <1>2. Context /\ OnlyPermitted /\ [Next]_vars => Context' /\ OnlyPermitted'
    <2> SUFFICES ASSUME Context, OnlyPermitted, [Next]_vars
                 PROVE  OnlyPermitted'
      BY StepType
    <2>1. input' = input
      BY DEF Next, Fail, Select, ResolveGraph, EnterRoot, FollowAcyclic, FollowSimple, Leave,
             StartExpansion, Follow, Dequeue, Finish, Terminated, vars
    <2>2. \A m \in Memories : Permitted(m) => Permitted(m)'
      BY <2>1 DEF Permitted, PermittedByProfile, PermittedByTarget, AllowedBy, Active
    <2>3. \A m \in selected' : m \in Memories /\ (m \in selected \/ ~ Excluded(m, FALSE))
      <3>1. CASE Select
        BY <3>1 DEF Select, Fail, Baseline, Context, TypeOK
      <3>2. CASE \E e \in graph : Follow(e)
        <4> PICK e \in graph : Follow(e)
          BY <3>2
        <4>1. e.to \in Memories /\ e.by \in Memories
          BY DEF Context, TypeOK, Edge
        <4>2. policy.include_relationship_records \in BOOLEAN
          BY PolicyType DEF Context, DependencyPolicy
        <4> QED
          BY <4>1, <4>2 DEF Follow, Fail, Blocked, MetadataOnly, Context, TypeOK
      <3>3. CASE selected' = selected
        BY <3>3 DEF Context, TypeOK
      <3> QED
        BY <3>1, <3>2, <3>3 DEF Next, Fail, ResolveGraph, EnterRoot, FollowAcyclic,
           FollowSimple, Leave, StartExpansion, Dequeue, Finish, Terminated, vars
    <2> QED
      BY <2>2, <2>3, NotExcludedMeansPermitted DEF Context, OnlyPermitted
  <1> QED
    BY <1>1, <1>2, PTL DEF Spec

-----------------------------------------------------------------------------
(* Walks of dependencies.                                                  *)

\* Induction, for a set of numbers: a set that has no least gap has them all.
LEMMA Induct ==
  ASSUME NEW T, 0 \in T, \A n \in Nat : n \in T => n + 1 \in T
  PROVE  Nat \subseteq T
  <1> DEFINE below == OpToRel(<, Nat)
             gaps == Nat \ T
  <1> SUFFICES ASSUME gaps # {} PROVE FALSE
    OBVIOUS
  <1>1. IsWellFoundedOn(below, Nat)
    BY NatLessThanWellFounded
  <1>2. \A x, y \in Nat : y < x => <<y, x>> \in below
    BY DEF OpToRel
  <1>3. gaps \subseteq Nat
    OBVIOUS
  <1>4. PICK g \in gaps : \A h \in gaps : ~ (<<h, g>> \in below)
    <2> HIDE DEF below, gaps
    <2> QED
      BY <1>1, <1>3, WFMin
  <1>5. g \in Nat /\ g \notin T /\ g # 0 /\ g - 1 \in Nat /\ g - 1 < g
    OBVIOUS
  <1>6. g - 1 \in T
    <2> HIDE DEF below
    <2> QED
      BY <1>2, <1>4, <1>5
  <1>7. g - 1 + 1 \in T
    BY <1>5, <1>6
  <1> QED
    BY <1>5, <1>7

\* f goes from base, step by step.
Iterates(f, N, S, base, next) ==
  /\ f \in [0 .. N -> S] /\ f[0] = base
  /\ \A k \in 1 .. N : f[k] = next[k][f[k - 1]]

\* What is defined step by step up to a bound exists.
LEMMA IterationExists ==
  ASSUME NEW N \in Nat, NEW S, NEW base \in S, NEW next \in [1 .. N -> [S -> S]]
  PROVE  \E f : Iterates(f, N, S, base, next)
  <1> DEFINE upTo(n) == \E f \in [0 .. n -> S] :
                          f[0] = base /\ \A k \in 1 .. n : f[k] = next[k][f[k - 1]]
             T == {n \in Nat : n <= N => upTo(n)}
  <1>1. 0 \in T
    <2> DEFINE first == [k \in 0 .. 0 |-> base]
    <2>1. first \in [0 .. 0 -> S] /\ first[0] = base
      OBVIOUS
    <2>2. \A k \in 1 .. 0 : first[k] = next[k][first[k - 1]]
      OBVIOUS
    <2>3. upTo(0)
      <3> HIDE DEF first
      <3> QED
        BY <2>1, <2>2
    <2> QED
      BY <2>3
  <1>2. \A n \in Nat : n \in T => n + 1 \in T
    <2> HIDE DEF upTo
    <2> SUFFICES ASSUME NEW n \in Nat, n \in T, n + 1 <= N PROVE upTo(n + 1)
      OBVIOUS
    <2>0. upTo(n)
      OBVIOUS
    <2> USE DEF upTo
    <2>1. PICK f \in [0 .. n -> S] : f[0] = base /\ \A k \in 1 .. n : f[k] = next[k][f[k - 1]]
      BY ONLY <2>0
    <2> DEFINE longer == [k \in 0 .. n + 1 |-> IF k = n + 1 THEN next[n + 1][f[n]] ELSE f[k]]
    <2>2. next[n + 1] \in [S -> S] /\ f[n] \in S
      OBVIOUS
    <2>3. longer \in [0 .. n + 1 -> S]
      <3>1. \A k \in 0 .. n + 1 : k # n + 1 => k \in 0 .. n
        OBVIOUS
      <3> QED
        BY <2>2, <3>1
    <2>4. longer[0] = base
      BY <2>1
    <2>5. ASSUME NEW k \in 1 .. n + 1 PROVE longer[k] = next[k][longer[k - 1]]
      <3>1. k - 1 \in 0 .. n /\ longer[k - 1] = f[k - 1]
        OBVIOUS
      <3>2. CASE k = n + 1
        BY <3>1, <3>2
      <3>3. CASE k # n + 1
        <4>1. k \in 1 .. n
          BY <3>3
        <4> QED
          BY <2>1, <3>1, <4>1
      <3> QED
        BY <3>2, <3>3
    <2> HIDE DEF longer
    <2> QED
      BY <2>3, <2>4, <2>5
  <1>3. Nat \subseteq T
    <2> HIDE DEF T
    <2> QED
      BY <1>1, <1>2, Induct
  <1> QED
    BY <1>3 DEF Iterates

\* The steps that matter: as many as there are memories.
Count == Cardinality(Memories)

\* It is a number.
LEMMA CountType == Count \in Nat
  BY ConstantsAssumption, FS_CardinalityType DEF Count

\* The memories that depend on nothing else than a member of a set.
Following(X) == {e.to : e \in {x \in DependencyGraph : x.from \in X}}

\* Steps goes from the direct selections along dependencies, one a time.
LEMMA StepsAre ==
  ASSUME input \in Inputs, GraphResolves
  PROVE  /\ Steps \in [0 .. 33 + Count -> SUBSET Memories]
         /\ Steps[0] = Baseline
         /\ \A k \in 1 .. 33 + Count : Steps[k] = Following(Steps[k - 1])
  <1> DEFINE N == 33 + Count
             S == SUBSET Memories
             next == [k \in 1 .. N |-> [X \in S |-> Following(X)]]
  <1>0. Baseline \in S
    BY DEF Baseline
  <1>1. N \in Nat /\ Baseline \in S
    BY <1>0, CountType
  <1>2. \A X \in S : Following(X) \in S
    BY GraphType DEF Following, Edge
  <1>3. next \in [1 .. N -> [S -> S]]
    BY <1>2
  <1>4. PICK f \in [0 .. N -> S] : f[0] = Baseline /\ \A k \in 1 .. N : f[k] = next[k][f[k - 1]]
    <2> HIDE DEF N, S, next
    <2>1. \E f : Iterates(f, N, S, Baseline, next)
      BY <1>1, <1>3, IterationExists
    <2> QED
      BY <2>1 DEF Iterates
  <1>5. f = [k \in 0 .. N |-> IF k = 0 THEN Baseline ELSE Following(f[k - 1])]
    <2>1. \A k \in 0 .. N : f[k] = IF k = 0 THEN Baseline ELSE Following(f[k - 1])
      <3> SUFFICES ASSUME NEW k \in 0 .. N, k # 0 PROVE f[k] = Following(f[k - 1])
        BY <1>4
      <3>1. k \in 1 .. N /\ k - 1 \in 0 .. N /\ f[k - 1] \in S
        BY <1>1
      <3> QED
        BY <1>4, <3>1
    <2> QED
      BY <1>4, <2>1
  <1>6. Steps = CHOOSE g : g = [k \in 0 .. N |-> IF k = 0 THEN Baseline
                                                    ELSE Following(g[k - 1])]
    BY DEF Steps, Following, Count
  <1>7. Steps = [k \in 0 .. N |-> IF k = 0 THEN Baseline ELSE Following(Steps[k - 1])]
    <2> HIDE DEF N
    <2> QED
      BY <1>5, <1>6
  <1>8. \A k \in 0 .. N : Steps[k] = IF k = 0 THEN Baseline ELSE Following(Steps[k - 1])
    BY <1>7
  <1>9. \A k \in 1 .. N : Steps[k] = Following(Steps[k - 1])
    <2>1. \A k \in 1 .. N : k \in 0 .. N /\ k # 0
      BY <1>1
    <2> QED
      BY <1>8, <2>1
  <1>10. Steps[0] = Baseline
    BY <1>1, <1>8
  <1>11. \A n \in Nat : n \in 0 .. N => Steps[n] \in S
    <2> DEFINE T == {n \in Nat : n \in 0 .. N => Steps[n] \in S}
    <2>1. 0 \in T
      BY <1>1, <1>10
    <2>2. \A n \in Nat : n \in T => n + 1 \in T
      <3> SUFFICES ASSUME NEW n \in Nat, n \in T, n + 1 \in 0 .. N PROVE Steps[n + 1] \in S
        OBVIOUS
      <3>1. n \in 0 .. N /\ n + 1 \in 1 .. N /\ n + 1 - 1 = n
        BY <1>1
      <3> QED
        BY <1>2, <1>9, <3>1
    <2>3. Nat \subseteq T
      <3> HIDE DEF T
      <3> QED
        BY <2>1, <2>2, Induct
    <2> QED
      BY <2>3
  <1>12. DOMAIN Steps = 0 .. N /\ Steps = [k \in DOMAIN Steps |-> Steps[k]]
    <2> HIDE DEF N
    <2> QED
      BY <1>7
  <1> QED
    BY <1>1, <1>9, <1>10, <1>11, <1>12

\* The same, forwards.
LEMMA StepFollows ==
  ASSUME input \in Inputs, GraphResolves, NEW k \in 0 .. 32 + Count
  PROVE  Steps[k + 1] = Following(Steps[k])
  <1>1. \A j \in 1 .. 33 + Count : Steps[j] = Following(Steps[j - 1])
    BY StepsAre
  <1>2. k + 1 \in 1 .. 33 + Count /\ (k + 1) - 1 = k
    BY CountType
  <1>3. Steps[k + 1] = Following(Steps[(k + 1) - 1])
    BY <1>1, <1>2
  <1> QED
    BY <1>2, <1>3

\* The memories a bundle must hold: those some walk reaches.
Required == DOMAIN Distances

\* The length of the shortest walk to one.
Distance(m) == Distances[m]

\* A required memory has a distance: the length of the shortest walk to it.
LEMMA DistanceIs ==
  ASSUME input \in Inputs, GraphResolves
  PROVE  /\ Required = UNION {Steps[k] : k \in 0 .. Count}
         /\ Required \subseteq Memories
         /\ \A m \in Required :
              /\ Distance(m) \in 0 .. Count /\ m \in Steps[Distance(m)]
              /\ \A j \in 0 .. Count : m \in Steps[j] => Distance(m) <= j
  <1> DEFINE walks == [k \in 0 .. Count |-> Steps[k]]
             required == UNION {walks[k] : k \in DOMAIN walks}
             Least(m, k) == m \in walks[k] /\ \A j \in 0 .. k - 1 : m \notin walks[j]
  <1>1. Distances = [m \in required |-> CHOOSE k \in DOMAIN walks : Least(m, k)]
    BY DEF Distances, Count
  <1>2. DOMAIN walks = 0 .. Count /\ \A k \in 0 .. Count : walks[k] = Steps[k]
    OBVIOUS
  <1>3. required = UNION {Steps[k] : k \in 0 .. Count}
    <2> HIDE DEF walks
    <2> QED
      BY <1>2
  <1>4. \A k \in 0 .. Count : Steps[k] \subseteq Memories
    <2>1. \A k \in 0 .. Count : k \in 0 .. 33 + Count
      BY CountType
    <2> QED
      BY <2>1, StepsAre
  <1>5. Required = required /\ Required \subseteq Memories
    <2>1. Required = required
      <3> HIDE DEF required
      <3> QED
        BY <1>1 DEF Required
    <2> QED
      BY <1>3, <1>4, <2>1
  <1>6. ASSUME NEW m \in Required
        PROVE  /\ Distance(m) \in 0 .. Count /\ m \in Steps[Distance(m)]
               /\ \A j \in 0 .. Count : m \in Steps[j] => Distance(m) <= j
    <2> DEFINE times == {k \in 0 .. Count : m \in Steps[k]}
               below == OpToRel(<, Nat)
    <2>1. times # {} /\ times \subseteq Nat
      BY <1>3, <1>5, CountType
    <2>2. IsWellFoundedOn(below, Nat)
      BY NatLessThanWellFounded
    <2>3. \A x, y \in Nat : y < x => <<y, x>> \in below
      BY DEF OpToRel
    <2>4. PICK k \in times : \A h \in times : ~ (<<h, k>> \in below)
      <3> HIDE DEF below, times
      <3> QED
        BY <2>1, <2>2, WFMin
    <2>5. k \in 0 .. Count /\ k \in Nat /\ m \in Steps[k]
      BY <2>1
    <2>6. \A j \in 0 .. Count : m \in Steps[j] => ~ (j < k)
      <3> HIDE DEF below
      <3> QED
        BY <2>1, <2>3, <2>4, <2>5
    <2>7. k \in DOMAIN walks /\ Least(m, k)
      <3>1. \A j \in 0 .. k - 1 : j \in 0 .. Count /\ j < k
        BY <2>5, CountType
      <3> QED
        BY <1>2, <2>5, <2>6, <3>1
    <2>8. Distance(m) \in DOMAIN walks /\ Least(m, Distance(m))
      <3> HIDE DEF walks, Least, required
      <3>1. Distance(m) = CHOOSE i \in DOMAIN walks : Least(m, i)
        BY <1>1, <1>5 DEF Distance
      <3> QED
        BY <2>7, <3>1
    <2>9. Distance(m) \in 0 .. Count /\ m \in Steps[Distance(m)]
      BY <1>2, <2>8
    <2>10. ASSUME NEW j \in 0 .. Count, m \in Steps[j] PROVE Distance(m) <= j
      <3>1. \A i \in 0 .. Distance(m) - 1 : m \notin walks[i]
        BY <2>8
      <3>2. j \in 0 .. Distance(m) - 1 => m \notin Steps[j]
        BY <1>2, <3>1
      <3> QED
        BY <2>9, <2>10, <3>2, CountType
    <2> QED
      BY <2>9, <2>10
  <1> QED
    BY <1>3, <1>5, <1>6

\* A memory that some walk reaches first after k steps.
Fresh(k) == {m \in Steps[k] : \A j \in 0 .. k - 1 : m \notin Steps[j]}

\* A walk never reaches a memory for the first time after as many steps as there
\* are memories: on the way it would reach a new one at every step.
LEMMA NothingFreshAfterAll ==
  ASSUME input \in Inputs, GraphResolves
  PROVE  Fresh(Count + 1) = {}
  <1> SUFFICES ASSUME Fresh(Count + 1) # {} PROVE FALSE
    OBVIOUS
  <1> DEFINE T == {n \in Nat : n <= Count + 1 => Fresh(Count + 1 - n) # {}}
  <1>0. Count \in Nat
    BY CountType
  <1>1. 0 \in T
    BY <1>0
  <1>2. \A n \in Nat : n \in T => n + 1 \in T
    <2> SUFFICES ASSUME NEW n \in Nat, n \in T, n + 1 <= Count + 1
                 PROVE  Fresh(Count + 1 - (n + 1)) # {}
      OBVIOUS
    <2> DEFINE k == Count + 1 - n
    <2>1. k \in 1 .. Count + 1 /\ k - 1 = Count + 1 - (n + 1) /\ k \in 1 .. 33 + Count
          /\ k - 1 \in 0 .. 33 + Count
      BY <1>0
    <2>2. PICK m : m \in Fresh(k)
      <3>1. n <= Count + 1 => Fresh(k) # {}
        OBVIOUS
      <3>2. Fresh(k) # {}
        BY <1>0, <3>1
      <3> HIDE DEF k
      <3> QED
        BY <3>2
    <2>3. m \in Following(Steps[k - 1]) /\ \A j \in 0 .. k - 1 : m \notin Steps[j]
      <3>1. Steps[k] = Following(Steps[k - 1])
        <4> HIDE DEF k
        <4> QED
          BY <2>1, StepsAre
      <3> HIDE DEF k
      <3> QED
        BY <2>2, <3>1 DEF Fresh
    <2>4. PICK e \in DependencyGraph : e.from \in Steps[k - 1] /\ e.to = m
      BY <2>3 DEF Following
    <2>5. ASSUME NEW j \in 0 .. (k - 1) - 1, e.from \in Steps[j] PROVE FALSE
      <3>1. j + 1 \in 1 .. 33 + Count /\ j + 1 \in 0 .. k - 1 /\ j + 1 - 1 = j
        BY <1>0, <2>1
      <3>2. m \in Following(Steps[j])
        BY <2>4, <2>5 DEF Following
      <3>3. m \in Steps[j + 1]
        BY <3>1, <3>2, StepsAre
      <3> QED
        BY <2>3, <3>1, <3>3
    <2>6. e.from \in Fresh(k - 1)
      <3> HIDE DEF k
      <3> QED
        BY <2>4, <2>5 DEF Fresh
    <2> QED
      BY <2>1, <2>6
  <1>3. Nat \subseteq T
    <2> HIDE DEF T
    <2> QED
      BY <1>1, <1>2, Induct
  <1>4. \A k \in 0 .. Count + 1 : Fresh(k) # {}
    <2> SUFFICES ASSUME NEW k \in 0 .. Count + 1 PROVE Fresh(k) # {}
      OBVIOUS
    <2>1. Count + 1 - k \in Nat /\ Count + 1 - k <= Count + 1 /\ Count + 1 - (Count + 1 - k) = k
      BY <1>0
    <2> QED
      BY <1>3, <2>1
  <1>5. \A k \in 0 .. Count + 1 : Fresh(k) \subseteq Memories
    <2>1. \A k \in 0 .. Count + 1 : k \in 0 .. 33 + Count
      BY <1>0
    <2> QED
      BY <2>1, StepsAre DEF Fresh
  <1> DEFINE f == [k \in 0 .. Count + 1 |-> CHOOSE m \in Fresh(k) : TRUE]
  <1>6. \A k \in 0 .. Count + 1 : f[k] \in Fresh(k)
    BY <1>4
  <1>7. f \in [0 .. Count + 1 -> Memories]
    BY <1>5, <1>6
  <1>8. IsFiniteSet(0 .. Count + 1) /\ Cardinality(0 .. Count + 1) = Count + 2
    BY <1>0, FS_Interval
  <1>9. IsFiniteSet(Memories) /\ Cardinality(Memories) < Cardinality(0 .. Count + 1)
    BY <1>0, <1>8, ConstantsAssumption DEF Count
  <1>10. PICK x, y \in 0 .. Count + 1 : x # y /\ f[x] = f[y]
    <2> HIDE DEF f
    <2> QED
      BY <1>7, <1>8, <1>9, FS_PigeonHole
  <1>11. ASSUME NEW a \in 0 .. Count + 1, NEW b \in 0 .. Count + 1, a < b PROVE f[a] # f[b]
    <2>1. a \in 0 .. b - 1
      BY <1>0, <1>11
    <2>2. f[a] \in Steps[a] /\ f[b] \notin Steps[a]
      <3> HIDE DEF f
      <3> QED
        BY <1>6, <2>1 DEF Fresh
    <2> QED
      BY <2>2
  <1>12. x < y \/ y < x
    BY <1>0, <1>10
  <1> QED
    BY <1>10, <1>11, <1>12

\* The direct selections are required, at no distance.
LEMMA SelectionsRequired ==
  ASSUME input \in Inputs, GraphResolves
  PROVE  /\ \A m \in Baseline : m \in Required /\ Distance(m) = 0
         /\ \A m \in Required : Distance(m) = 0 => m \in Baseline
  <1>1. 0 \in 0 .. Count
    BY CountType
  <1>2. Steps[0] = Baseline
    BY StepsAre
  <1>3. \A m \in Baseline : m \in Required
    BY <1>1, <1>2, DistanceIs
  <1>4. \A m \in Baseline : Distance(m) <= 0 /\ Distance(m) \in 0 .. Count
    BY <1>1, <1>2, <1>3, DistanceIs
  <1>5. \A m \in Baseline : Distance(m) = 0
    BY <1>4
  <1>6. \A m \in Required : m \in Steps[Distance(m)]
    BY DistanceIs
  <1> QED
    BY <1>2, <1>3, <1>5, <1>6

\* A dependency of a required memory is required, and at most one step further.
LEMMA RequiredClosed ==
  ASSUME input \in Inputs, GraphResolves, NEW e \in DependencyGraph, e.from \in Required
  PROVE  e.to \in Required /\ Distance(e.to) <= Distance(e.from) + 1
  <1> DEFINE k == Distance(e.from)
  <1>0. Count \in Nat /\ k \in 0 .. Count /\ e.from \in Steps[k]
    BY CountType, DistanceIs
  <1>1. k + 1 \in 1 .. 33 + Count /\ k + 1 - 1 = k
    BY <1>0
  <1>2. e.to \in Following(Steps[k])
    BY <1>0 DEF Following
  <1>3. e.to \in Steps[k + 1]
    <2>1. k \in 0 .. 32 + Count
      BY <1>0
    <2> HIDE DEF k
    <2> QED
      BY <1>2, <2>1, StepFollows
  <1>4. e.to \in Required
    <2>1. CASE k + 1 \in 0 .. Count
      BY <1>3, <2>1, DistanceIs
    <2>2. CASE k + 1 \notin 0 .. Count
      <3>1. k + 1 = Count + 1
        BY <1>0, <2>2
      <3>2. PICK j \in 0 .. (Count + 1) - 1 : e.to \in Steps[j]
        BY <1>3, <3>1, NothingFreshAfterAll DEF Fresh
      <3>3. j \in 0 .. Count
        BY <1>0
      <3> QED
        BY <3>2, <3>3, DistanceIs
    <2> QED
      BY <2>1, <2>2
  <1>5. Distance(e.to) \in 0 .. Count
    BY <1>4, DistanceIs
  <1>6. k + 1 \in 0 .. Count => Distance(e.to) <= k + 1
    BY <1>3, <1>4, DistanceIs
  <1> QED
    BY <1>0, <1>4, <1>5, <1>6

\* A required memory that is no direct selection is a dependency of one that is
\* a step nearer.
LEMMA RequiredBy ==
  ASSUME input \in Inputs, GraphResolves, NEW m \in Required, Distance(m) # 0
  PROVE  \E e \in DependencyGraph :
           e.to = m /\ e.from \in Required /\ Distance(e.from) = Distance(m) - 1
  <1> DEFINE k == Distance(m)
  <1>0. Count \in Nat /\ k \in 0 .. Count /\ m \in Steps[k]
    BY CountType, DistanceIs
  <1>1. k \in 1 .. 33 + Count /\ k - 1 \in 0 .. Count
    BY <1>0
  <1>2. m \in Following(Steps[k - 1])
    BY <1>0, <1>1, StepsAre
  <1>3. PICK e \in DependencyGraph : e.to = m /\ e.from \in Steps[k - 1]
    BY <1>2 DEF Following
  <1>4. e.from \in Required
    BY <1>1, <1>3, DistanceIs
  <1>5. Distance(e.from) <= k - 1 /\ Distance(e.from) \in 0 .. Count
    BY <1>1, <1>3, <1>4, DistanceIs
  <1>6. k <= Distance(e.from) + 1
    BY <1>3, <1>4, RequiredClosed
  <1>7. Distance(e.from) = k - 1
    BY <1>0, <1>5, <1>6
  <1> QED
    BY <1>3, <1>4, <1>7

\* What a call works out from its input alone.
StepsOf(base, g, N) ==
  LET ends[k \in 0 .. N] ==
        IF k = 0 THEN base
        ELSE LET last == ends[k - 1] IN {e.to : e \in {x \in g : x.from \in last}}
  IN  ends

\* Likewise the distances.
DistancesOf(steps_, N) ==
  LET walks == [k \in 0 .. N |-> steps_[k]]
      required == UNION {walks[k] : k \in DOMAIN walks}
  IN  [m \in required |-> CHOOSE k \in DOMAIN walks :
                            m \in walks[k] /\ \A j \in 0 .. k - 1 : m \notin walks[j]]

\* The input of a call never changes.
LEMMA InputFixed ==
  ASSUME [Next]_vars
  PROVE  input' = input
  BY DEF Next, Fail, Select, ResolveGraph, EnterRoot, FollowAcyclic, FollowSimple, Leave,
         StartExpansion, Follow, Dequeue, Finish, Terminated, vars

\* So neither does what depends on it alone.
LEMMA Frozen ==
  ASSUME input' = input
  PROVE  /\ policy' = policy /\ Routable' = Routable /\ Baseline' = Baseline
         /\ \A m, b : Excluded(m, b)' = Excluded(m, b)
         /\ GraphResolves' = GraphResolves /\ DependencyGraph' = DependencyGraph
         /\ Distances' = Distances /\ RequiredEdges' = RequiredEdges
         /\ \A e, d : Blocked(e, d)' = Blocked(e, d)
  <1>1. policy' = policy /\ Routable' = Routable
    BY DEF policy, Routable
  <1>2. MergedExclusions' = MergedExclusions
    BY DEF MergedExclusions
  <1>3. effective_ceiling' = effective_ceiling
    BY DEF effective_ceiling
  <1>4. ASSUME NEW m, NEW b PROVE Excluded(m, b)' = Excluded(m, b)
    <2>1. HardExcluded(m)' = HardExcluded(m)
      BY <1>2 DEF HardExcluded
    <2> QED
      BY <1>3, <2>1 DEF Excluded
  <1>5. ASSUME NEW m PROVE DirectlySelected(m)' = DirectlySelected(m)
    <2>1. task_terms' = task_terms
      BY DEF task_terms
    <2>2. Surface(m)' = Surface(m)
      BY DEF Surface
    <2> QED
      BY <1>1, <2>1, <2>2 DEF DirectlySelected, IsDependency, PositiveTags
  <1>6. Baseline' = Baseline
    BY <1>4, <1>5 DEF Baseline
  <1>7. Active' = Active /\ Dependencies' = Dependencies
    BY DEF Active, Dependencies, IsDependency
  <1>8. \A m : KeysOf(m)' = KeysOf(m)
    BY DEF KeysOf
  <1>9. ASSUME NEW p PROVE Matches(p)' = Matches(p) 
    BY <1>7, <1>8 DEF Matches
  <1>10. \A p : Resolve(p)' = Resolve(p) /\ Resolvable(p)' = Resolvable(p)
    BY <1>9 DEF Resolve, Resolvable
  <1>11. \A m : LinkOf(m)' = LinkOf(m)
    BY DEF LinkOf
  <1>12. GraphResolves' = GraphResolves /\ DependencyGraph' = DependencyGraph
    BY <1>7, <1>10, <1>11 DEF GraphResolves, DependencyGraph
  <1>13. Steps' = Steps
    <2>1. Steps = StepsOf(Baseline, DependencyGraph, 33 + Cardinality(Memories))
      BY DEF Steps, StepsOf
    <2>2. Steps' = StepsOf(Baseline', DependencyGraph', 33 + Cardinality(Memories))
      BY DEF Steps, StepsOf
    <2> QED
      BY <1>6, <1>12, <2>1, <2>2
  <1>14. Distances' = Distances
    <2>1. Distances = DistancesOf(Steps, Cardinality(Memories))
      BY DEF Distances, DistancesOf
    <2>2. Distances' = DistancesOf(Steps', Cardinality(Memories))
      BY DEF Distances, DistancesOf
    <2> QED
      BY <1>13, <2>1, <2>2
  <1>15. RequiredEdges' = RequiredEdges
    BY <1>12, <1>14 DEF RequiredEdges
  <1>16. ASSUME NEW e, NEW d PROVE Blocked(e, d)' = Blocked(e, d)
    <2>1. MetadataOnly' = MetadataOnly
      BY <1>1 DEF MetadataOnly
    <2> QED
      BY <1>1, <1>4, <2>1 DEF Blocked
  <1> QED
    BY <1>1, <1>4, <1>6, <1>12, <1>14, <1>15, <1>16

-----------------------------------------------------------------------------
(* The expansion.                                                          *)

\* The expansion has reached m.
Reached(m) == best_depth[m] # Unknown

\* The dependency is still to be followed.
Open(e) == e \in left \/ \E i \in 2 .. Len(queue) : queue[i] = e.from

\* m is what the dependency leads to, or the record that states it.
Explains(e, m) == e.to = m \/ (policy.include_relationship_records /\ e.by = m)

\* What is left behind of a dependency that has been followed.
Settled(e) ==
  /\ Reached(e.to)
  /\ ~ Blocked(e, Distance(e.from) + 1)
  /\ policy.include_relationship_records => e.by \in selected
  /\ \A m \in Memories : Explains(e, m) =>
       /\ e.from \in diagnostics[m].dependency_of
       /\ diagnostics[m].dependency_depth # Unknown
       /\ diagnostics[m].dependency_depth <= Distance(e.from) + 1

\* The depths are the distances, from the direct selections outwards.
DepthsFit ==
  /\ \A m \in Memories : Reached(m) => m \in Required /\ best_depth[m] = Distance(m)
  /\ \A m \in Baseline : Reached(m)
  /\ queue # <<>> =>
       \A m \in Required : Distance(m) <= Distance(Head(queue)) => Reached(m)

\* The memories in the queue are in the order of their distances, and at most one
\* step apart.
QueueFits ==
  /\ \A i \in 1 .. Len(queue) : Reached(queue[i])
  /\ \A i, j \in 1 .. Len(queue) :
       i <= j => Distance(queue[i]) <= Distance(queue[j])
  /\ \A i \in 1 .. Len(queue) : Distance(queue[i]) <= Distance(queue[1]) + 1
  /\ left \subseteq FirstEdges(queue)

\* Nothing is in the bundle, or explained, without a dependency that needs it.
NothingElse ==
  /\ \A m \in Memories : Reached(m) => m \in selected
  /\ \A m \in selected : Reached(m) \/ \E e \in RequiredEdges : Explains(e, m)
  /\ \A m \in Memories :
       /\ \A n \in diagnostics[m].dependency_of :
            \E e \in RequiredEdges : Explains(e, m) /\ e.from = n
       /\ diagnostics[m].dependency_depth # Unknown =>
            \E e \in RequiredEdges :
              Explains(e, m) /\ diagnostics[m].dependency_depth = Distance(e.from) + 1

\* What the expansion has found out: a dependency of a memory that has been reached
\* is still open or settled.
ExpansionInv ==
  /\ DepthsFit /\ QueueFits /\ NothingElse
  /\ \A e \in graph : Reached(e.from) /\ ~ Open(e) => Settled(e)

\* Before the expansion only direct selections are in the bundle.
SelectionInv ==
  /\ selected = Baseline
  /\ \A m \in Memories : /\ diagnostics[m].dependency_of = {}
                         /\ diagnostics[m].dependency_depth = Unknown

\* The dependencies of what is selected may be followed.
GraphInv ==
  /\ GraphResolves /\ graph = DependencyGraph
  /\ policy.enabled \/ \A m \in Baseline : EdgesFrom(DependencyGraph, m) = {}

\* What each phase of a call leaves to the next.
RouteInv ==
  /\ phase \in {"resolve", "validate", "expand", "done"} => Routable
  /\ phase \in {"resolve", "validate"} => SelectionInv
  /\ phase \in {"validate", "expand", "done"} => GraphInv
  /\ phase \in {"expand", "done"} => ExpansionInv
  /\ phase = "done" => queue = <<>>

\* Nor do the terms of the expansion's invariant.
LEMMA FrozenTerms ==
  ASSUME input' = input
  PROVE  /\ Required' = Required /\ \A m : Distance(m)' = Distance(m)
         /\ policy.include_relationship_records' = policy.include_relationship_records
         /\ \A e, m : Explains(e, m)' <=> Explains(e, m)
  BY Frozen DEF Required, Distance, Explains

\* A dependency of a reached memory is required, and leads to a required memory.
LEMMA GraphFacts ==
  ASSUME Context, GraphInv, NEW e \in graph
  PROVE  /\ e \in DependencyGraph /\ e \in Edge
         /\ e.from \in Memories /\ e.to \in Memories /\ e.by \in Memories
         /\ e.from \in Required =>
              /\ e \in RequiredEdges /\ e.to \in Required
              /\ Distance(e.from) \in Nat /\ Distance(e.to) \in Nat
              /\ Distance(e.to) <= Distance(e.from) + 1
  <1>1. e \in DependencyGraph /\ e \in Edge
    BY GraphType DEF GraphInv
  <1>2. e.from \in Memories /\ e.to \in Memories /\ e.by \in Memories
    BY <1>1 DEF Edge
  <1>3. e.from \in Required => e \in RequiredEdges
    BY <1>1 DEF RequiredEdges, Required
  <1>4. input \in Inputs /\ GraphResolves
    BY DEF Context, GraphInv
  <1>5. e.from \in Required => e.to \in Required /\ Distance(e.to) <= Distance(e.from) + 1
    BY <1>1, <1>4, RequiredClosed
  <1>6. \A m \in Required : Distance(m) \in Nat
    <2>1. \A m \in Required : Distance(m) \in 0 .. Count
      BY <1>4, DistanceIs
    <2> QED
      BY <2>1, CountType
  <1> QED
    BY <1>1, <1>2, <1>3, <1>5, <1>6

\* What is required is a dependency of what is required, and has a distance.
LEMMA RequiredFacts ==
  ASSUME Context, GraphInv
  PROVE  /\ \A m \in Required : m \in Memories /\ Distance(m) \in Nat
         /\ \A m \in Baseline : m \in Required /\ Distance(m) = 0
         /\ \A m \in Required : Distance(m) = 0 => m \in Baseline
         /\ \A e : e \in RequiredEdges <=> e \in graph /\ e.from \in Required
  <1>1. input \in Inputs /\ GraphResolves /\ graph = DependencyGraph
    BY DEF Context, GraphInv
  <1>2. \A m \in Required : m \in Memories /\ Distance(m) \in 0 .. Count
    BY <1>1, DistanceIs
  <1>3. \A m \in Required : m \in Memories /\ Distance(m) \in Nat
    BY <1>2, CountType
  <1>4. \A e : e \in RequiredEdges <=> e \in graph /\ e.from \in Required
    BY <1>1 DEF RequiredEdges, Required
  <1> QED
    BY <1>1, <1>3, <1>4, SelectionsRequired

\* A queue made of the direct selections has each of them.
LEMMA OrderHasAll ==
  ASSUME IsFiniteSet(selected), NEW q \in SetToSeqs(selected)
  PROVE  /\ \A i \in 1 .. Len(q) : q[i] \in selected
         /\ \A m \in selected : \E i \in 1 .. Len(q) : q[i] = m
  <1> DEFINE C == Cardinality(selected)
  <1>1. C \in Nat /\ IsFiniteSet(1 .. C) /\ Cardinality(1 .. C) = C
    <2>1. C \in Nat
      BY FS_CardinalityType
    <2>2. IsFiniteSet(1 .. C) /\ Cardinality(1 .. C) = IF 1 > C THEN 0 ELSE C - 1 + 1
      <3> HIDE DEF C
      <3> QED
        BY <2>1, FS_Interval
    <2> QED
      BY <2>1, <2>2
  <1>2. q \in [1 .. C -> selected] /\ \A i, j \in 1 .. C : i # j => q[i] # q[j]
    BY DEF SetToSeqs
  <1>3. Len(q) = C
    BY <1>1, <1>2
  <1>4. q \in Injection(1 .. C, selected)
    BY <1>2 DEF Injection, IsInjective
  <1>5. q \in Surjection(1 .. C, selected)
    <2> HIDE DEF C
    <2>1. Cardinality(1 .. C) = Cardinality(selected)
      BY <1>1 DEF C
    <2> QED
      BY <1>1, <1>4, <2>1, FS_Injection
  <1> QED
    BY <1>2, <1>3, <1>5 DEF Surjection

\* The expansion begins with the direct selections, all of them to be followed.
LEMMA StartExpansionFits ==
  ASSUME Context, GraphInv, SelectionInv, StartExpansion
  PROVE  ExpansionInv'
  <1>1. PICK q \in SetToSeqs(selected) : queue' = q /\ left' = FirstEdges(q)
    BY DEF StartExpansion
  <1>2. /\ input' = input /\ selected' = selected /\ diagnostics' = diagnostics
        /\ graph' = graph
        /\ best_depth' = [m \in Memories |-> IF m \in selected THEN 0 ELSE Unknown]
    BY DEF StartExpansion
  <1>3. selected = Baseline /\ selected \subseteq Memories /\ IsFiniteSet(selected)
    BY FS_Subset, ConstantsAssumption DEF SelectionInv, Context, TypeOK
  <1>4. q \in Seq(Memories)
    BY <1>3, OrderType
  <1>5. /\ \A i \in 1 .. Len(q) : q[i] \in Baseline
        /\ \A m \in Baseline : \E i \in 1 .. Len(q) : q[i] = m
    BY <1>3, OrderHasAll
  <1>6. \A m \in Memories : Reached(m)' <=> m \in Baseline
    BY <1>2, <1>3 DEF Reached, Unknown
  <1>7. DepthsFit'
    <2>1. \A m \in Memories : Reached(m)' => m \in Required /\ best_depth'[m] = Distance(m)
      BY <1>2, <1>3, <1>6, RequiredFacts
    <2>2. \A m \in Baseline : Reached(m)'
      BY <1>3, <1>6
    <2>3. ASSUME queue' # <<>>, NEW m \in Required, Distance(m) <= Distance(Head(queue'))
          PROVE  Reached(m)'
      <3>1. Head(q) \in Baseline
        BY <1>1, <1>4, <1>5, <2>3
      <3>2. Distance(Head(q)) = 0 /\ Distance(m) \in Nat /\ m \in Memories
        BY <3>1, RequiredFacts
      <3>3. Distance(m) = 0
        BY <1>1, <2>3, <3>2
      <3> QED
        BY <1>6, <3>2, <3>3, RequiredFacts
    <2> QED
      BY <1>2, <2>1, <2>2, <2>3, Frozen, FrozenTerms DEF DepthsFit
  <1>8. QueueFits'
    <2>1. \A i \in 1 .. Len(q) : q[i] \in Memories /\ Distance(q[i]) = 0 /\ Reached(q[i])'
      BY <1>3, <1>5, <1>6, RequiredFacts
    <2>2. \A i \in 1 .. Len(q) : 1 \in 1 .. Len(q)
      BY <1>4
    <2>3. \A i \in 1 .. Len(q) : Distance(q[i]) <= Distance(q[1]) + 1
      BY <2>1, <2>2
    <2>4. FirstEdges(queue)' = FirstEdges(q)
      BY <1>1, <1>2 DEF FirstEdges, EdgesFrom
    <2>5. \A i, j \in 1 .. Len(q) : i <= j => Distance(q[i]) <= Distance(q[j])
      BY <2>1
    <2>6. \A m : Distance(m)' = Distance(m)
      BY <1>2, FrozenTerms
    <2> QED
      BY <1>1, <2>1, <2>3, <2>4, <2>5, <2>6 DEF QueueFits, Reached
  <1>9. NothingElse'
    BY <1>2, <1>3, <1>6 DEF NothingElse, SelectionInv
  <1>10. ASSUME NEW e \in graph, Reached(e.from)', ~ Open(e)'
         PROVE  FALSE
    <2>1. e.from \in Memories
      BY GraphFacts
    <2>2. PICK i \in 1 .. Len(q) : q[i] = e.from
      BY <1>5, <1>6, <1>10, <2>1
    <2>3. CASE i = 1
      <3>1. e \in FirstEdges(q)
        BY <1>4, <2>2, <2>3 DEF FirstEdges, EdgesFrom
      <3> QED
        BY <1>1, <1>10, <3>1 DEF Open
    <2>4. CASE i # 1
      <3>1. i \in 2 .. Len(queue') /\ queue'[i] = e.from
        BY <1>1, <2>2, <2>4
      <3> QED
        BY <1>10, <3>1 DEF Open
    <2> QED
      BY <2>3, <2>4
  <1> QED
    BY <1>2, <1>7, <1>8, <1>9, <1>10 DEF ExpansionInv

\* What has been settled stays so while nothing is taken away.
LEMMA SettledStays ==
  ASSUME input' = input, selected \subseteq selected', NEW e, Settled(e),
         Reached(e.to)',
         \A m \in Memories : Explains(e, m) =>
           /\ diagnostics[m].dependency_of \subseteq diagnostics'[m].dependency_of
           /\ diagnostics'[m].dependency_depth # Unknown
           /\ diagnostics'[m].dependency_depth <= Distance(e.from) + 1
  PROVE  Settled(e)'
  <1>1. /\ Blocked(e, Distance(e.from) + 1)' = Blocked(e, Distance(e.from) + 1)
        /\ Distance(e.from)' = Distance(e.from)
    BY Frozen, FrozenTerms DEF Distance
  <1>2. \A m : Explains(e, m)' <=> Explains(e, m)
    BY FrozenTerms
  <1>3. policy.include_relationship_records' = policy.include_relationship_records
    BY FrozenTerms
  <1>4. ~ Blocked(e, Distance(e.from) + 1)'
    BY <1>1 DEF Settled
  <1> QED
    BY <1>1, <1>2, <1>3, <1>4 DEF Settled

\* The next memory in the queue is as far away, or a step further: by then all
\* memories at the lesser distance have been followed.
LEMMA DequeueFits ==
  ASSUME Context, GraphInv, ExpansionInv, Dequeue
  PROVE  ExpansionInv'
  <1>1. /\ queue # <<>> /\ left = {} /\ queue' = Tail(queue)
        /\ left' = FirstEdges(Tail(queue))
        /\ input' = input /\ selected' = selected /\ diagnostics' = diagnostics
        /\ graph' = graph /\ best_depth' = best_depth
    BY DEF Dequeue
  <1>2. queue \in Seq(Memories) /\ Len(queue) \in Nat \ {0} /\ Head(queue) = queue[1]
    BY <1>1 DEF Context, TypeOK
  <1>3. /\ Len(queue') = Len(queue) - 1
        /\ \A i \in 1 .. Len(queue') : queue'[i] = queue[i + 1] /\ i + 1 \in 2 .. Len(queue)
    BY <1>1, <1>2
  <1>4. \A m : Reached(m)' <=> Reached(m)
    BY <1>1 DEF Reached
  <1>5. \A i \in 1 .. Len(queue) : queue[i] \in Memories /\ Reached(queue[i])
    BY <1>2 DEF ExpansionInv, QueueFits
  <1>6. \A i \in 1 .. Len(queue) : queue[i] \in Required /\ Distance(queue[i]) \in Nat
    BY <1>5, RequiredFacts DEF ExpansionInv, DepthsFit
  <1>7. \A e \in graph : Open(e) => Open(e)'
    <2> SUFFICES ASSUME NEW e \in graph, Open(e) PROVE Open(e)'
      OBVIOUS
    <2>1. PICK i \in 2 .. Len(queue) : queue[i] = e.from
      BY <1>1 DEF Open
    <2>2. CASE i = 2
      <3>0. Len(queue') \in Nat \ {0} /\ 1 \in 1 .. Len(queue') /\ queue[2] = e.from
        BY <1>2, <1>3, <2>1, <2>2
      <3>1. Len(queue') # 0 /\ Tail(queue) # <<>> /\ Head(Tail(queue)) = e.from
        <4>1. queue'[1] = e.from
          BY <1>3, <3>0
        <4>2. queue' # <<>> /\ Head(queue') = queue'[1]
          BY <3>0
        <4> QED
          BY <1>1, <3>0, <4>1, <4>2
      <3>2. e \in FirstEdges(Tail(queue))
        BY <3>1 DEF FirstEdges, EdgesFrom
      <3> QED
        BY <1>1, <3>2 DEF Open
    <2>3. CASE i # 2
      <3>1. i - 1 \in 2 .. Len(queue') /\ queue'[i - 1] = e.from
        BY <1>2, <1>3, <2>1, <2>3
      <3> QED
        BY <3>1 DEF Open
    <2> QED
      BY <2>2, <2>3
  <1>8. DepthsFit'
    <2>1. ASSUME queue' # <<>>, NEW m \in Required, Distance(m) <= Distance(Head(queue'))
          PROVE  Reached(m)
      <3> DEFINE h == Distance(queue[1])
      <3>1. Tail(queue) # <<>> /\ Len(queue) >= 2 /\ Head(queue') = queue[2]
        BY <1>1, <1>2, <1>3, <2>1
      <3>2. 1 \in 1 .. Len(queue) /\ 2 \in 1 .. Len(queue)
        BY <1>2, <3>1
      <3>3. Distance(queue[2]) <= h + 1 /\ h \in Nat /\ Distance(queue[2]) \in Nat
        BY <1>6, <3>2 DEF ExpansionInv, QueueFits
      <3>4. Distance(m) \in Nat
        BY RequiredFacts
      <3>5. CASE Distance(m) <= h
        BY <1>1, <1>2, <3>5 DEF ExpansionInv, DepthsFit
      <3>6. CASE ~ (Distance(m) <= h)
        <4>1. Distance(m) = h + 1 /\ Distance(queue[2]) = h + 1
          BY <2>1, <3>1, <3>3, <3>4, <3>6
        <4>2. Distance(m) # 0 /\ input \in Inputs /\ GraphResolves
          BY <3>3, <4>1 DEF Context, GraphInv
        <4>3. PICK e \in DependencyGraph :
                e.to = m /\ e.from \in Required /\ Distance(e.from) = Distance(m) - 1
          BY <4>2, RequiredBy
        <4>4. e \in graph /\ Distance(e.from) = h
          BY <3>3, <4>1, <4>3 DEF GraphInv
        <4>5. Distance(e.from) <= Distance(Head(queue))
          BY <1>2, <3>3, <4>4
        <4>6. Reached(e.from)
          BY <1>1, <4>3, <4>5 DEF ExpansionInv, DepthsFit
        <4>7. ASSUME Open(e) PROVE FALSE
          <5>1. PICK i \in 2 .. Len(queue) : queue[i] = e.from
            BY <1>1, <4>7 DEF Open
          <5>2. i \in 1 .. Len(queue) /\ 2 <= i
            OBVIOUS
          <5>3. Distance(queue[2]) <= Distance(queue[i])
            BY <3>2, <5>2 DEF ExpansionInv, QueueFits
          <5>4. Distance(queue[2]) <= h
            BY <4>4, <5>1, <5>3
          <5> QED
            BY <3>3, <4>1, <5>4
        <4>8. Settled(e)
          BY <4>4, <4>6, <4>7 DEF ExpansionInv
        <4> QED
          BY <4>3, <4>8 DEF Settled
      <3> QED
        BY <3>5, <3>6
    <2>2. \A m \in Memories : Reached(m) => m \in Required /\ best_depth[m] = Distance(m)
      BY DEF ExpansionInv, DepthsFit
    <2>3. \A m \in Baseline : Reached(m)
      BY DEF ExpansionInv, DepthsFit
    <2> QED
      BY <1>1, <1>4, <2>1, <2>2, <2>3, Frozen, FrozenTerms DEF DepthsFit
  <1>9. QueueFits'
    <2>0. Distances' = Distances
      BY <1>1, Frozen
    <2>1. \A i \in 1 .. Len(queue') : queue'[i] = queue[i + 1] /\ i + 1 \in 1 .. Len(queue)
      BY <1>2, <1>3
    <2>2. \A i \in 1 .. Len(queue') : Reached(queue'[i])
      BY <1>5, <2>1
    <2>3. ASSUME NEW i \in 1 .. Len(queue'), NEW j \in 1 .. Len(queue'), i <= j
          PROVE  Distance(queue'[i]) <= Distance(queue'[j])
      <3>1. i + 1 \in 1 .. Len(queue) /\ j + 1 \in 1 .. Len(queue) /\ i + 1 <= j + 1
        BY <2>1, <2>3
      <3>2. Distance(queue[i + 1]) <= Distance(queue[j + 1])
        BY <3>1 DEF ExpansionInv, QueueFits
      <3> QED
        BY <2>1, <3>2
    <2>4. ASSUME NEW i \in 1 .. Len(queue')
          PROVE  Distance(queue'[i]) <= Distance(queue'[1]) + 1
      <3>1. 1 \in 1 .. Len(queue') /\ 2 \in 1 .. Len(queue) /\ queue'[1] = queue[2]
            /\ i + 1 \in 1 .. Len(queue) /\ 1 \in 1 .. Len(queue)
        BY <1>2, <1>3
      <3>2. /\ Distance(queue[i + 1]) <= Distance(queue[1]) + 1
            /\ Distance(queue[1]) <= Distance(queue[2])
        BY <3>1 DEF ExpansionInv, QueueFits
      <3>3. /\ Distance(queue[1]) \in Nat /\ Distance(queue[2]) \in Nat
            /\ Distance(queue[i + 1]) \in Nat
        BY <1>6, <3>1
      <3>4. Distance(queue[i + 1]) <= Distance(queue[2]) + 1
        BY <3>2, <3>3
      <3> QED
        BY <1>3, <3>1, <3>4
    <2>5. left' = FirstEdges(queue)'
      BY <1>1 DEF FirstEdges, EdgesFrom
    <2> QED
      BY <1>1, <2>0, <2>2, <2>3, <2>4, <2>5 DEF QueueFits, Reached, Distance
  <1>10. NothingElse'
    <2>1. RequiredEdges' = RequiredEdges /\ \A m : Distance(m)' = Distance(m)
      BY <1>1, Frozen, FrozenTerms
    <2>2. \A e, m : Explains(e, m)' <=> Explains(e, m)
      BY <1>1, FrozenTerms
    <2> QED
      BY <1>1, <1>4, <2>1, <2>2 DEF ExpansionInv, NothingElse
  <1>11. ASSUME NEW e \in graph, Reached(e.from)', ~ Open(e)'
         PROVE  Settled(e)'
    <2>1. Settled(e)
      BY <1>4, <1>7, <1>11 DEF ExpansionInv
    <2> QED
      BY <1>1, <1>4, <2>1, SettledStays DEF Settled
  <1> QED
    BY <1>1, <1>8, <1>9, <1>10, <1>11 DEF ExpansionInv

\* What following a dependency of the first memory in the queue does: nothing that
\* has a depth gets another one, and only what has none joins the queue.
LEMMA FollowEffects ==
  ASSUME Context, GraphInv, ExpansionInv, NEW e \in graph, Follow(e), ~ Fail
  PROVE  /\ input' = input /\ graph' = graph /\ left' = left \ {e}
         /\ queue # <<>> /\ e.from = Head(queue) /\ e \in RequiredEdges
         /\ Reached(e.from) /\ ~ Blocked(e, Distance(e.from) + 1)
         /\ Distance(e.from) \in Nat /\ best_depth[e.from] = Distance(e.from)
         /\ \A m \in Memories :
              best_depth'[m] = IF m = e.to THEN Distance(e.to) ELSE best_depth[m]
         /\ \/ Reached(e.to) /\ queue' = queue
            \/ /\ ~ Reached(e.to) /\ queue' = Append(queue, e.to)
               /\ Distance(e.to) = Distance(e.from) + 1
  <1>1. /\ queue # <<>> /\ e \in left /\ ~ Blocked(e, best_depth[Head(queue)] + 1)
        /\ left' = left \ {e} /\ input' = input /\ graph' = graph
        /\ IF Closer(best_depth[Head(queue)] + 1, best_depth[e.to])
           THEN /\ best_depth' = [best_depth EXCEPT ![e.to] = best_depth[Head(queue)] + 1]
                /\ queue' = Append(queue, e.to)
           ELSE UNCHANGED <<best_depth, queue>>
    BY DEF Follow
  <1>2. queue \in Seq(Memories) /\ Head(queue) = queue[1] /\ 1 \in 1 .. Len(queue)
    BY <1>1 DEF Context, TypeOK
  <1>3. e.from = Head(queue)
    BY <1>1 DEF ExpansionInv, QueueFits, FirstEdges, EdgesFrom
  <1>4. Reached(e.from) /\ e.from \in Memories
    BY <1>2, <1>3 DEF ExpansionInv, QueueFits
  <1>5. e.from \in Required /\ best_depth[e.from] = Distance(e.from)
    BY <1>4 DEF ExpansionInv, DepthsFit
  <1>6. /\ e \in RequiredEdges /\ e.to \in Required /\ e.to \in Memories
        /\ Distance(e.from) \in Nat /\ Distance(e.to) \in Nat
        /\ Distance(e.to) <= Distance(e.from) + 1
    BY <1>5, GraphFacts
  <1>7. best_depth \in [Memories -> Nat \cup {Unknown}]
    BY DEF Context, TypeOK
  <1>8. CASE Reached(e.to)
    <2>1. best_depth[e.to] = Distance(e.to)
      BY <1>6, <1>8 DEF ExpansionInv, DepthsFit
    <2>2. ~ Closer(best_depth[Head(queue)] + 1, best_depth[e.to])
      BY <1>3, <1>5, <1>6, <1>8, <2>1 DEF Closer, Reached
    <2>3. \A m \in Memories : best_depth'[m] = IF m = e.to THEN Distance(e.to) ELSE best_depth[m]
      BY <1>1, <2>1, <2>2
    <2> QED
      BY <1>1, <1>3, <1>4, <1>5, <1>6, <1>8, <2>2, <2>3
  <1>9. CASE ~ Reached(e.to)
    <2>1. Closer(best_depth[Head(queue)] + 1, best_depth[e.to])
      BY <1>9 DEF Closer, Reached
    <2>2. ~ (Distance(e.to) <= Distance(e.from))
      BY <1>1, <1>3, <1>6, <1>9 DEF ExpansionInv, DepthsFit
    <2>3. Distance(e.to) = Distance(e.from) + 1
      BY <1>6, <2>2
    <2>4. \A m \in Memories : best_depth'[m] = IF m = e.to THEN Distance(e.to) ELSE best_depth[m]
      BY <1>1, <1>3, <1>5, <1>7, <2>1, <2>3
    <2> QED
      BY <1>1, <1>3, <1>4, <1>5, <1>6, <1>9, <2>1, <2>3, <2>4
  <1> QED
    BY <1>8, <1>9

\* And what it adds to the bundle and to the diagnostics.
LEMMA FollowExplains ==
  ASSUME Context, GraphInv, ExpansionInv, NEW e \in graph, Follow(e), ~ Fail
  PROVE  /\ selected \subseteq selected' /\ e.to \in selected'
         /\ policy.include_relationship_records => e.by \in selected'
         /\ \A m \in selected' : m \in selected \/ Explains(e, m)
         /\ \A m \in Memories :
              /\ diagnostics'[m].dependency_of =
                   IF Explains(e, m) THEN diagnostics[m].dependency_of \cup {e.from}
                                     ELSE diagnostics[m].dependency_of
              /\ diagnostics'[m].dependency_depth =
                   IF Explains(e, m)
                   THEN LeastDepth(Distance(e.from) + 1, diagnostics[m].dependency_depth)
                   ELSE diagnostics[m].dependency_depth
  <1> DEFINE n == Head(queue)
             d == best_depth[n] + 1
             explained == [diagnostics EXCEPT
                      ![e.to] = Explained(@, n, d, {"dependency_expansion"})]
             reason == IF explained[e.by].included_by = {}
                       THEN {"dependency_relationship"} ELSE {}
             both == [explained EXCEPT ![e.by] = Explained(@, n, d, reason)]
  <1>1. /\ diagnostics' = IF policy.include_relationship_records THEN both ELSE explained
        /\ selected' = selected \cup {e.to} \cup
                         (IF policy.include_relationship_records THEN {e.by} ELSE {})
    BY DEF Follow
  <1>2. n = e.from /\ d = Distance(e.from) + 1 /\ d \in Nat
    BY FollowEffects
  <1>3. e.to \in Memories /\ e.by \in Memories
    BY GraphFacts
  <1>4. policy.include_relationship_records \in BOOLEAN
    BY PolicyType DEF Context, DependencyPolicy
  <1>5. DOMAIN diagnostics = Memories /\ DOMAIN explained = Memories
    BY DEF Context, TypeOK
  <1> DEFINE Of(x, r) == Explained(x, n, d, r)
  <1>6. \A x, r : /\ Of(x, r).dependency_of = x.dependency_of \cup {n}
                  /\ Of(x, r).dependency_depth = LeastDepth(d, x.dependency_depth)
    BY DEF Explained
  <1>7. \A x : LeastDepth(d, LeastDepth(d, x)) = LeastDepth(d, x)
    BY <1>2 DEF LeastDepth, Closer
  <1>8. \A m \in Memories :
          explained[m] = IF m = e.to THEN Of(diagnostics[m], {"dependency_expansion"})
                         ELSE diagnostics[m]
    BY <1>5
  <1>9. \A m \in Memories : both[m] = IF m = e.by THEN Of(explained[m], reason)
                                      ELSE explained[m]
    <2> HIDE DEF explained, reason
    <2> QED
      BY <1>5
  <1> HIDE DEF n, d, explained, reason, both, Of
  <1>10. ASSUME NEW m \in Memories
         PROVE  /\ explained[m].dependency_of =
                     IF m = e.to THEN diagnostics[m].dependency_of \cup {n}
                                 ELSE diagnostics[m].dependency_of
                /\ explained[m].dependency_depth =
                     IF m = e.to THEN LeastDepth(d, diagnostics[m].dependency_depth)
                                 ELSE diagnostics[m].dependency_depth
    <2>1. CASE m = e.to
      <3>1. explained[m] = Of(diagnostics[m], {"dependency_expansion"})
        BY <1>8, <2>1
      <3> QED
        BY <1>6, <2>1, <3>1
    <2>2. CASE m # e.to
      BY <1>8, <2>2
    <2> QED
      BY <2>1, <2>2
  <1>11. ASSUME NEW m \in Memories
         PROVE  /\ both[m].dependency_of =
                     IF m = e.by THEN explained[m].dependency_of \cup {n}
                                 ELSE explained[m].dependency_of
                /\ both[m].dependency_depth =
                     IF m = e.by THEN LeastDepth(d, explained[m].dependency_depth)
                                 ELSE explained[m].dependency_depth
    <2>1. CASE m = e.by
      <3>1. both[m] = Of(explained[m], reason)
        BY <1>9, <2>1
      <3> QED
        BY <1>6, <2>1, <3>1
    <2>2. CASE m # e.by
      BY <1>9, <2>2
    <2> QED
      BY <2>1, <2>2
  <1>12. ASSUME NEW m \in Memories
         PROVE  /\ diagnostics'[m].dependency_of =
                     IF Explains(e, m) THEN diagnostics[m].dependency_of \cup {n}
                                       ELSE diagnostics[m].dependency_of
                /\ diagnostics'[m].dependency_depth =
                     IF Explains(e, m) THEN LeastDepth(d, diagnostics[m].dependency_depth)
                                       ELSE diagnostics[m].dependency_depth
    <2>1. CASE policy.include_relationship_records
      <3>1. diagnostics' = both
        BY <1>1, <2>1
      <3>2. Explains(e, m) <=> (m = e.to \/ m = e.by)
        BY <2>1 DEF Explains
      <3>3. CASE m = e.to /\ m = e.by
        <4>1. both[m].dependency_of = (diagnostics[m].dependency_of \cup {n}) \cup {n}
          BY <1>10, <1>11, <3>3
        <4>2. both[m].dependency_depth =
                LeastDepth(d, LeastDepth(d, diagnostics[m].dependency_depth))
          BY <1>10, <1>11, <3>3
        <4>3. both[m].dependency_depth = LeastDepth(d, diagnostics[m].dependency_depth)
          BY <1>7, <4>2
        <4>4. both[m].dependency_of = diagnostics[m].dependency_of \cup {n}
          BY <4>1
        <4> QED
          BY <3>1, <3>2, <3>3, <4>3, <4>4
      <3>4. CASE ~ (m = e.to /\ m = e.by)
        BY <1>10, <1>11, <3>1, <3>2, <3>4
      <3> QED
        BY <3>3, <3>4
    <2>2. CASE ~ policy.include_relationship_records
      <3>1. diagnostics' = explained
        BY <1>1, <2>2
      <3>2. Explains(e, m) <=> m = e.to
        BY <2>2 DEF Explains
      <3> QED
        BY <1>10, <3>1, <3>2
    <2> QED
      BY <2>1, <2>2
  <1>13. \A m \in selected' : m \in selected \/ Explains(e, m)
    BY <1>1, <1>4 DEF Explains
  <1>14. /\ selected \subseteq selected' /\ e.to \in selected'
         /\ policy.include_relationship_records => e.by \in selected'
    BY <1>1
  <1> QED
    BY <1>2, <1>12, <1>13, <1>14

\* The least of a depth and one that may not be known.
LEMMA LeastDepthIs ==
  ASSUME NEW d \in Nat, NEW old \in Nat \cup {Unknown}
  PROVE  /\ LeastDepth(d, old) # Unknown /\ LeastDepth(d, old) <= d
         /\ old # Unknown => LeastDepth(d, old) <= old
         /\ LeastDepth(d, old) = d \/ (old # Unknown /\ LeastDepth(d, old) = old)
  BY DEF LeastDepth, Closer, Unknown

\* A dependency that is followed is settled; what it reaches first is to be followed.
LEMMA FollowFits ==
  ASSUME Context, GraphInv, ExpansionInv, NEW e \in graph, Follow(e), ~ Fail
  PROVE  ExpansionInv'
  <1> DEFINE new == ~ Reached(e.to)
             d == Distance(e.from) + 1
  <1>1. /\ input' = input /\ graph' = graph /\ left' = left \ {e}
        /\ queue # <<>> /\ e.from = Head(queue) /\ e \in RequiredEdges
        /\ Reached(e.from) /\ ~ Blocked(e, d)
        /\ Distance(e.from) \in Nat /\ best_depth[e.from] = Distance(e.from)
    BY FollowEffects
  <1>2. \A m \in Memories :
          best_depth'[m] = IF m = e.to THEN Distance(e.to) ELSE best_depth[m]
    BY FollowEffects
  <1>3. \/ ~ new /\ queue' = queue
        \/ new /\ queue' = Append(queue, e.to) /\ Distance(e.to) = d
    BY FollowEffects
  <1>4. /\ e.from \in Memories /\ e.to \in Memories /\ e.by \in Memories
        /\ e.to \in Required /\ Distance(e.to) \in Nat
    BY <1>1, GraphFacts, RequiredFacts
  <1>5. queue \in Seq(Memories) /\ Len(queue) \in Nat \ {0} /\ Head(queue) = queue[1]
    BY <1>1 DEF Context, TypeOK
  <1>6. /\ Len(queue') \in {Len(queue), Len(queue) + 1}
        /\ \A i \in 1 .. Len(queue) : queue'[i] = queue[i]
        /\ Len(queue') = Len(queue) + 1 => new /\ queue'[Len(queue')] = e.to
        /\ new => Len(queue') = Len(queue) + 1
        /\ queue' # <<>> /\ Head(queue') = Head(queue)
    <2>1. CASE ~ new
      BY <1>1, <1>3, <1>5, <2>1
    <2>2. CASE new
      <3>1. queue' = Append(queue, e.to)
        BY <1>3, <2>2
      <3>2. /\ Len(queue') = Len(queue) + 1 /\ queue'[Len(queue) + 1] = e.to
            /\ \A i \in 1 .. Len(queue) : queue'[i] = queue[i]
        BY <1>4, <1>5, <3>1
      <3>3. queue' # <<>> /\ Head(queue') = queue'[1]
        BY <1>4, <1>5, <3>1
      <3> QED
        BY <1>5, <2>2, <3>2, <3>3
    <2> QED
      BY <2>1, <2>2
  <1>7. \A m \in Memories : Reached(m)' <=> (m = e.to \/ Reached(m))
    BY <1>2, <1>4 DEF Reached, Unknown
  <1>8. /\ Required' = Required /\ Baseline' = Baseline /\ Distances' = Distances
        /\ RequiredEdges' = RequiredEdges
        /\ \A m : Distance(m)' = Distance(m)
        /\ \A x, m : Explains(x, m)' <=> Explains(x, m)
    BY <1>1, Frozen, FrozenTerms
  <1>9. DepthsFit'
    <2>1. \A m \in Memories : Reached(m)' => m \in Required /\ best_depth'[m] = Distance(m)
      BY <1>2, <1>4, <1>7 DEF ExpansionInv, DepthsFit
    <2>2. \A m \in Baseline : Reached(m)'
      <3>1. \A m \in Baseline : m \in Memories /\ Reached(m)
        BY DEF Baseline, ExpansionInv, DepthsFit
      <3> QED
        BY <1>7, <3>1
    <2>3. \A m \in Required : Distance(m) <= Distance(Head(queue')) => Reached(m)'
      <3>1. \A m \in Required : m \in Memories
        BY RequiredFacts
      <3>2. \A m \in Required : Distance(m) <= Distance(Head(queue)) => Reached(m)
        BY <1>1 DEF ExpansionInv, DepthsFit
      <3> QED
        BY <1>6, <1>7, <3>1, <3>2
    <2> QED
      BY <1>8, <2>1, <2>2, <2>3 DEF DepthsFit, Distance
  <1>10. QueueFits'
    <2>1. \A i \in 1 .. Len(queue) : Distance(queue[i]) \in Nat /\ queue[i] \in Memories
                                     /\ Reached(queue[i])
      <3>1. \A i \in 1 .. Len(queue) : queue[i] \in Memories /\ Reached(queue[i])
        BY <1>5 DEF ExpansionInv, QueueFits
      <3> QED
        BY <3>1, RequiredFacts DEF ExpansionInv, DepthsFit
    <2>2. \A i \in 1 .. Len(queue') :
            \/ i \in 1 .. Len(queue) /\ queue'[i] = queue[i]
            \/ i = Len(queue) + 1 /\ i = Len(queue') /\ queue'[i] = e.to /\ Distance(e.to) = d
      BY <1>3, <1>5, <1>6
    <2>3. \A i \in 1 .. Len(queue') : best_depth'[queue'[i]] # Unknown
      <3> SUFFICES ASSUME NEW i \in 1 .. Len(queue') PROVE best_depth'[queue'[i]] # Unknown
        OBVIOUS
      <3>1. queue'[i] \in Memories /\ (queue'[i] = e.to \/ Reached(queue'[i]))
        BY <1>4, <2>1, <2>2
      <3>2. \A m \in Memories : m = e.to \/ Reached(m) => best_depth'[m] # Unknown
        BY <1>7 DEF Reached
      <3> QED
        BY <3>1, <3>2
    <2>4. \A i \in 1 .. Len(queue) : Distance(queue[i]) <= d
      BY <1>1, <1>5 DEF ExpansionInv, QueueFits
    <2>5. ASSUME NEW i \in 1 .. Len(queue'), NEW j \in 1 .. Len(queue'), i <= j
          PROVE  Distance(queue'[i]) <= Distance(queue'[j])
      <3>1. CASE j \in 1 .. Len(queue) /\ queue'[j] = queue[j]
        <4>1. i \in 1 .. Len(queue) /\ queue'[i] = queue[i]
          BY <1>5, <1>6, <2>5, <3>1
        <4>2. Distance(queue[i]) <= Distance(queue[j])
          BY <2>5, <3>1, <4>1 DEF ExpansionInv, QueueFits
        <4> QED
          BY <3>1, <4>1, <4>2
      <3>2. CASE j = Len(queue) + 1 /\ queue'[j] = e.to /\ Distance(e.to) = d
        <4>1. Distance(queue'[i]) <= d
          BY <1>1, <2>2, <2>4
        <4> QED
          BY <3>2, <4>1
      <3> QED
        BY <2>2, <3>1, <3>2
    <2>6. ASSUME NEW i \in 1 .. Len(queue')
          PROVE  Distance(queue'[i]) <= Distance(queue'[1]) + 1
      <3>1. queue'[1] = e.from
        BY <1>1, <1>5, <1>6
      <3>2. Distance(queue'[i]) <= d
        BY <1>1, <2>2, <2>4
      <3> QED
        BY <3>1, <3>2
    <2>7. left' \subseteq FirstEdges(queue)'
      <3>1. FirstEdges(queue)' = FirstEdges(queue)
        BY <1>1, <1>6 DEF FirstEdges, EdgesFrom
      <3> QED
        BY <1>1, <3>1 DEF ExpansionInv, QueueFits
    <2> HIDE DEF d
    <2> QED
      BY <1>8, <2>3, <2>5, <2>6, <2>7 DEF QueueFits, Reached, Distance
  <1>11. /\ selected \subseteq selected' /\ e.to \in selected'
         /\ policy.include_relationship_records => e.by \in selected'
         /\ \A m \in selected' : m \in selected \/ Explains(e, m)
    BY FollowExplains
  <1>12. \A m \in Memories :
           /\ diagnostics'[m].dependency_of =
                IF Explains(e, m) THEN diagnostics[m].dependency_of \cup {e.from}
                                  ELSE diagnostics[m].dependency_of
           /\ diagnostics'[m].dependency_depth =
                IF Explains(e, m) THEN LeastDepth(d, diagnostics[m].dependency_depth)
                                  ELSE diagnostics[m].dependency_depth
    BY FollowExplains
  <1>13. d \in Nat /\ \A m \in Memories :
                        diagnostics[m].dependency_depth \in Nat \cup {Unknown}
    BY <1>1 DEF Context, TypeOK, Diagnostic
  <1> HIDE DEF d, new
  <1>14. NothingElse'
    <2>1. \A m \in Memories : Reached(m)' => m \in selected'
      BY <1>7, <1>11 DEF ExpansionInv, NothingElse
    <2>2. \A m \in selected' : Reached(m)' \/ \E x \in RequiredEdges : Explains(x, m)
      <3>1. \A m \in selected : m \in Memories
        BY DEF Context, TypeOK
      <3> QED
        BY <1>1, <1>7, <1>11, <3>1 DEF ExpansionInv, NothingElse
    <2>3. ASSUME NEW m \in Memories, NEW n \in diagnostics'[m].dependency_of
          PROVE  \E x \in RequiredEdges : Explains(x, m) /\ x.from = n
      BY <1>1, <1>12, <2>3 DEF ExpansionInv, NothingElse
    <2>4. ASSUME NEW m \in Memories, diagnostics'[m].dependency_depth # Unknown
          PROVE  \E x \in RequiredEdges :
                   Explains(x, m) /\ diagnostics'[m].dependency_depth = Distance(x.from) + 1
      <3>1. CASE diagnostics'[m].dependency_depth = diagnostics[m].dependency_depth
        BY <2>4, <3>1 DEF ExpansionInv, NothingElse
      <3>2. CASE diagnostics'[m].dependency_depth # diagnostics[m].dependency_depth
        <4>1. Explains(e, m) /\ diagnostics'[m].dependency_depth = d
          BY <1>12, <1>13, <3>2, LeastDepthIs
        <4> QED
          BY <1>1, <4>1 DEF d
      <3> QED
        BY <3>1, <3>2
    <2> QED
      BY <1>8, <2>1, <2>2, <2>3, <2>4 DEF NothingElse
  <1>15. ASSUME NEW x \in graph, Reached(x.from)', ~ Open(x)'
         PROVE  Settled(x)'
    <2>0. x.from \in Memories /\ x.to \in Memories
      BY GraphFacts
    <2>1. CASE x = e
      <3>1. Reached(e.to)'
        BY <1>4, <1>7
      <3>2. ~ Blocked(e, Distance(e.from) + 1)'
        <4>1. Blocked(e, Distance(e.from) + 1)' = Blocked(e, d)
          BY <1>1, <1>8, Frozen DEF d, Distance
        <4> QED
          BY <1>1, <4>1
      <3>3. (policy.include_relationship_records => e.by \in selected)'
        BY <1>1, <1>11, FrozenTerms
      <3>4. ASSUME NEW m \in Memories, Explains(e, m)
            PROVE  /\ e.from \in diagnostics'[m].dependency_of
                   /\ diagnostics'[m].dependency_depth # Unknown
                   /\ diagnostics'[m].dependency_depth <= Distance(e.from) + 1
        <4>1. diagnostics'[m].dependency_depth = LeastDepth(d, diagnostics[m].dependency_depth)
          BY <1>12, <3>4
        <4>2. e.from \in diagnostics'[m].dependency_of
          BY <1>12, <3>4
        <4>3. /\ LeastDepth(d, diagnostics[m].dependency_depth) # Unknown
              /\ LeastDepth(d, diagnostics[m].dependency_depth) <= d
          BY <1>13, LeastDepthIs
        <4> QED
          BY <4>1, <4>2, <4>3 DEF d
      <3> QED
        BY <1>8, <2>1, <3>1, <3>2, <3>3, <3>4 DEF Settled
    <2>2. CASE x # e
      <3>1. Reached(x.from)
        <4> SUFFICES ASSUME ~ Reached(x.from) PROVE FALSE
          OBVIOUS
        <4>1. x.from = e.to /\ new
          BY <1>7, <1>15, <2>0 DEF new
        <4>2. Len(queue') \in 2 .. Len(queue') /\ queue'[Len(queue')] = x.from
          BY <1>5, <1>6, <4>1
        <4> QED
          BY <1>15, <4>2 DEF Open
      <3>2. ASSUME Open(x) PROVE FALSE
        <4>1. CASE x \in left
          BY <1>1, <1>15, <2>2, <4>1 DEF Open
        <4>2. CASE \E i \in 2 .. Len(queue) : queue[i] = x.from
          <5>1. PICK i \in 2 .. Len(queue) : queue[i] = x.from
            BY <4>2
          <5>2. i \in 2 .. Len(queue') /\ queue'[i] = x.from
            BY <1>5, <1>6, <5>1
          <5> QED
            BY <1>15, <5>2 DEF Open
        <4> QED
          BY <3>2, <4>1, <4>2 DEF Open
      <3>3. Settled(x)
        BY <3>1, <3>2 DEF ExpansionInv
      <3>4. Reached(x.to)'
        BY <1>7, <2>0, <3>3 DEF Settled
      <3>5. ASSUME NEW m \in Memories, Explains(x, m)
            PROVE  /\ diagnostics[m].dependency_of \subseteq diagnostics'[m].dependency_of
                   /\ diagnostics'[m].dependency_depth # Unknown
                   /\ diagnostics'[m].dependency_depth <= Distance(x.from) + 1
        <4>1. diagnostics[m].dependency_depth # Unknown
              /\ diagnostics[m].dependency_depth <= Distance(x.from) + 1
          BY <3>3, <3>5 DEF Settled
        <4>2. Distance(x.from) \in Nat
          BY <2>0, <3>1, RequiredFacts DEF ExpansionInv, DepthsFit
        <4>3. CASE Explains(e, m)
          <5> DEFINE old == diagnostics[m].dependency_depth
          <5>1. old \in Nat /\ old <= Distance(x.from) + 1
            BY <1>13, <4>1
          <5>2. diagnostics'[m].dependency_depth = LeastDepth(d, old)
            BY <1>12, <4>3
          <5>3. LeastDepth(d, old) # Unknown /\ LeastDepth(d, old) <= old
            BY <1>13, <4>1, LeastDepthIs
          <5>4. LeastDepth(d, old) \in Nat
            BY <1>13, <5>1 DEF LeastDepth
          <5>5. LeastDepth(d, old) <= Distance(x.from) + 1
            BY <4>2, <5>1, <5>3, <5>4
          <5> QED
            BY <1>12, <4>3, <5>2, <5>3, <5>5
        <4>4. CASE ~ Explains(e, m)
          BY <1>12, <4>1, <4>4
        <4> QED
          BY <4>3, <4>4
      <3> QED
        BY <1>1, <1>11, <3>3, <3>4, <3>5, SettledStays
    <2> QED
      BY <2>1, <2>2
  <1> QED
    BY <1>1, <1>9, <1>10, <1>14, <1>15 DEF ExpansionInv

-----------------------------------------------------------------------------
(* The call as a whole.                                                    *)

\* Until the expansion begins nothing but the phase and the search changes.
LEMMA SearchKeeps ==
  ASSUME [Next]_vars, phase = "validate", ~ StartExpansion
  PROVE  /\ phase' \in {"validate", "failed"}
         /\ selected' = selected /\ diagnostics' = diagnostics /\ graph' = graph
  BY DEF Next, Fail, Select, ResolveGraph, EnterRoot, FollowAcyclic, FollowSimple, Leave,
         Follow, Dequeue, Finish, Terminated, vars

\* No step of a call leaves the invariant.
LEMMA RouteStep ==
  ASSUME Context, Context', RouteInv, [Next]_vars
  PROVE  RouteInv'
  <1>1. /\ input' = input /\ Routable' = Routable /\ Baseline' = Baseline
        /\ GraphResolves' = GraphResolves /\ DependencyGraph' = DependencyGraph
        /\ policy' = policy
    BY InputFixed, Frozen
  <1>2. CASE phase' = "failed"
    BY <1>2 DEF RouteInv
  <1>3. CASE Select /\ phase' # "failed"
    <2>1. /\ Routable /\ selected' = Baseline /\ phase' = "resolve"
          /\ diagnostics' = [m \in Memories |->
                               IF m \in Baseline
                               THEN [NoDiagnostic EXCEPT !.included_by = IncludedBy]
                               ELSE NoDiagnostic]
      BY <1>3 DEF Select, Fail
    <2>2. SelectionInv'
      BY <1>1, <2>1 DEF SelectionInv, NoDiagnostic
    <2> QED
      BY <1>1, <2>1, <2>2 DEF RouteInv
  <1>4. CASE ResolveGraph /\ phase' # "failed"
    <2>1. /\ GraphResolves /\ graph' = DependencyGraph /\ selected' = selected
          /\ diagnostics' = diagnostics /\ phase' = "validate" /\ phase = "resolve"
          /\ ~ (~ policy.enabled /\ \E m \in selected : EdgesFrom(DependencyGraph, m) # {})
      BY <1>4 DEF ResolveGraph, Fail
    <2>2. SelectionInv /\ Routable
      BY <2>1 DEF RouteInv
    <2>3. SelectionInv'
      BY <1>1, <2>1, <2>2 DEF SelectionInv
    <2>4. policy.enabled \/ \A m \in Baseline : EdgesFrom(DependencyGraph, m) = {}
      BY <2>1, <2>2 DEF SelectionInv
    <2>5. GraphInv'
      BY <1>1, <2>1, <2>4 DEF GraphInv, EdgesFrom
    <2> QED
      BY <1>1, <2>1, <2>2, <2>3, <2>5 DEF RouteInv
  <1>5. CASE phase = "validate" /\ ~ StartExpansion /\ phase' # "failed"
    <2>1. /\ phase' = "validate"
          /\ selected' = selected /\ diagnostics' = diagnostics /\ graph' = graph
      BY <1>5, SearchKeeps
    <2>2. SelectionInv /\ Routable /\ GraphInv
      BY <1>5 DEF RouteInv
    <2>3. SelectionInv' /\ GraphInv'
      BY <1>1, <2>1, <2>2 DEF SelectionInv, GraphInv, EdgesFrom
    <2> QED
      BY <1>1, <2>1, <2>2, <2>3 DEF RouteInv
  <1>6. CASE StartExpansion
    <2>1. phase = "validate" /\ phase' = "expand" /\ graph' = graph
      BY <1>6 DEF StartExpansion
    <2>2. SelectionInv /\ Routable /\ GraphInv
      BY <2>1 DEF RouteInv
    <2>3. ExpansionInv' /\ GraphInv'
      BY <1>1, <1>6, <2>1, <2>2, StartExpansionFits DEF GraphInv, EdgesFrom
    <2> QED
      BY <1>1, <2>1, <2>2, <2>3 DEF RouteInv
  <1>7. CASE (\E e \in graph : Follow(e)) /\ phase' # "failed"
    <2>1. PICK e \in graph : Follow(e)
      BY <1>7
    <2>2. ~ Fail /\ phase = "expand" /\ phase' = "expand" /\ graph' = graph
      BY <1>7, <2>1 DEF Follow, Fail
    <2>3. ExpansionInv /\ Routable /\ GraphInv
      BY <2>2 DEF RouteInv
    <2>4. ExpansionInv' /\ GraphInv'
      BY <1>1, <2>1, <2>2, <2>3, FollowFits DEF GraphInv, EdgesFrom
    <2> QED
      BY <1>1, <2>2, <2>3, <2>4 DEF RouteInv
  <1>8. CASE Dequeue
    <2>1. phase = "expand" /\ phase' = "expand" /\ graph' = graph
      BY <1>8 DEF Dequeue
    <2>2. ExpansionInv /\ Routable /\ GraphInv
      BY <2>1 DEF RouteInv
    <2>3. ExpansionInv' /\ GraphInv'
      BY <1>1, <1>8, <2>1, <2>2, DequeueFits DEF GraphInv, EdgesFrom
    <2> QED
      BY <1>1, <2>1, <2>2, <2>3 DEF RouteInv
  <1>9. CASE Finish \/ Terminated \/ UNCHANGED vars
    <2>1. /\ phase' = phase \/ (phase = "expand" /\ queue = <<>> /\ phase' = "done")
          /\ selected' = selected /\ diagnostics' = diagnostics /\ graph' = graph
          /\ best_depth' = best_depth /\ queue' = queue /\ left' = left
      BY <1>9 DEF Finish, Terminated, vars, expansion
    <2>2. SelectionInv => SelectionInv'
      BY <1>1, <2>1 DEF SelectionInv
    <2>3. GraphInv => GraphInv'
      BY <1>1, <2>1 DEF GraphInv, EdgesFrom
    <2>4. ASSUME ExpansionInv PROVE ExpansionInv'
      <3>1. /\ RequiredEdges' = RequiredEdges /\ Required' = Required
            /\ Distances' = Distances /\ \A m : Distance(m)' = Distance(m)
            /\ \A e, m : Explains(e, m)' <=> Explains(e, m)
        BY <1>1, Frozen, FrozenTerms
      <3>2. \A m : Reached(m)' <=> Reached(m)
        BY <2>1 DEF Reached
      <3>3. \A e : Open(e)' <=> Open(e)
        BY <2>1 DEF Open
      <3>4. \A e : Settled(e) => Settled(e)'
        BY <1>1, <2>1, <3>2, SettledStays DEF Settled
      <3>5. DepthsFit'
        BY <1>1, <2>1, <2>4, <3>1, <3>2 DEF ExpansionInv, DepthsFit, Distance
      <3>6. QueueFits'
        BY <2>1, <2>4, <3>1 DEF ExpansionInv, QueueFits, Distance, Reached, FirstEdges, EdgesFrom
      <3>7. NothingElse'
        BY <2>1, <2>4, <3>1, <3>2 DEF ExpansionInv, NothingElse
      <3> QED
        BY <2>1, <2>4, <3>2, <3>3, <3>4, <3>5, <3>6, <3>7 DEF ExpansionInv
    <2>5. CASE phase' = phase
      BY <1>1, <2>1, <2>2, <2>3, <2>4, <2>5 DEF RouteInv
    <2>6. CASE phase = "expand" /\ queue = <<>> /\ phase' = "done"
      BY <1>1, <2>1, <2>3, <2>4, <2>6 DEF RouteInv
    <2> QED
      BY <2>1, <2>5, <2>6
  <1>10. (\E m \in Memories : EnterRoot(m))
         \/ (\E e \in graph : FollowAcyclic(e) \/ FollowSimple(e))
         \/ Leave => phase = "validate" /\ ~ StartExpansion
    BY DEF EnterRoot, FollowAcyclic, FollowSimple, Leave, StartExpansion
  <1> QED
    BY <1>2, <1>3, <1>4, <1>5, <1>6, <1>7, <1>8, <1>9, <1>10 DEF Next

\* When the queue is empty every required memory has been reached, and every
\* dependency of one has been settled.
LEMMA AllReached ==
  ASSUME Context, GraphInv, ExpansionInv, queue = <<>>
  PROVE  /\ \A m \in Required : Reached(m)
         /\ \A e \in RequiredEdges : Settled(e)
  <1>1. \A e \in graph : ~ Open(e)
    BY DEF ExpansionInv, QueueFits, FirstEdges, Open
  <1>2. \A e \in graph : Reached(e.from) => Settled(e)
    BY <1>1 DEF ExpansionInv
  <1> DEFINE T == {n \in Nat : \A m \in Required : Distance(m) = n => Reached(m)}
  <1>3. 0 \in T
    BY RequiredFacts DEF ExpansionInv, DepthsFit
  <1>4. \A n \in Nat : n \in T => n + 1 \in T
    <2> SUFFICES ASSUME NEW n \in Nat, n \in T, NEW m \in Required, Distance(m) = n + 1
                 PROVE  Reached(m)
      OBVIOUS
    <2>1. Distance(m) # 0 /\ input \in Inputs /\ GraphResolves /\ graph = DependencyGraph
      BY DEF Context, GraphInv
    <2>2. PICK e \in DependencyGraph :
            e.to = m /\ e.from \in Required /\ Distance(e.from) = Distance(m) - 1
      BY <2>1, RequiredBy
    <2>3. Distance(e.from) = n
      BY <2>2
    <2>4. Reached(e.from)
      BY <2>2, <2>3
    <2> QED
      BY <1>2, <2>1, <2>2, <2>4 DEF Settled
  <1>5. Nat \subseteq T
    <2> HIDE DEF T
    <2> QED
      BY <1>3, <1>4, Induct
  <1>6. \A m \in Required : Reached(m)
    BY <1>5, RequiredFacts
  <1> QED
    BY <1>2, <1>6, RequiredFacts

\* A bundle is the closure, exactly.
LEMMA DoneIsClosure ==
  ASSUME Context, RouteInv
  PROVE  ClosureIsExact
  <1> SUFFICES ASSUME phase = "done"
               PROVE  selected = Required \cup
                        (IF policy.include_relationship_records
                         THEN {e.by : e \in RequiredEdges} ELSE {})
    BY DEF ClosureIsExact, Required
  <1>1. GraphInv /\ ExpansionInv /\ queue = <<>>
    BY DEF RouteInv
  <1>2. /\ \A m \in Required : Reached(m) /\ m \in Memories
        /\ \A e \in RequiredEdges : Settled(e)
    BY <1>1, AllReached, RequiredFacts
  <1>3. policy.include_relationship_records \in BOOLEAN
    BY PolicyType DEF Context, DependencyPolicy
  <1>4. \A e \in RequiredEdges : e.to \in Required
    BY <1>1, RequiredFacts, GraphFacts
  <1>5. \A m \in selected : m \in Memories
    BY DEF Context, TypeOK
  <1>6. \A m \in selected :
          m \in Required \/ (policy.include_relationship_records
                             /\ \E e \in RequiredEdges : e.by = m)
    BY <1>1, <1>4, <1>5 DEF ExpansionInv, NothingElse, DepthsFit, Explains
  <1>7. \A m \in Required : m \in selected
    BY <1>1, <1>2 DEF ExpansionInv, NothingElse
  <1>8. policy.include_relationship_records => \A e \in RequiredEdges : e.by \in selected
    BY <1>2 DEF Settled
  <1> QED
    BY <1>3, <1>6, <1>7, <1>8

\* Its diagnostics name the memories that need each one, and the least depth.
LEMMA DoneIsExplained ==
  ASSUME Context, RouteInv
  PROVE  DiagnosticsExact
  <1> DEFINE distance == Distances
             needing == [m \in selected |->
               {e \in RequiredEdges :
                  e.to = m \/ (policy.include_relationship_records /\ e.by = m)}]
             Depths(m) == {distance[e.from] + 1 : e \in needing[m]}
             Least(m, d) == \A e \in needing[m] : d <= distance[e.from] + 1
  <1> SUFFICES ASSUME phase = "done", NEW m \in selected
               PROVE  /\ diagnostics[m].dependency_of = {e.from : e \in needing[m]}
                      /\ diagnostics[m].dependency_depth =
                           IF needing[m] = {} THEN Unknown
                           ELSE CHOOSE d \in Depths(m) : Least(m, d)
    BY DEF DiagnosticsExact
  <1>0. /\ \A e : e \in needing[m] <=> e \in RequiredEdges /\ Explains(e, m)
        /\ \A x : distance[x] = Distance(x)
    BY DEF Explains, Distance
  <1> HIDE DEF needing, distance
  <1>1. GraphInv /\ ExpansionInv /\ queue = <<>> /\ m \in Memories
    BY DEF RouteInv, Context, TypeOK
  <1>2. \A e \in RequiredEdges : Settled(e)
    BY <1>1, AllReached
  <1>3. diagnostics[m].dependency_of = {e.from : e \in needing[m]}
    <2>1. \A n \in diagnostics[m].dependency_of : \E e \in needing[m] : e.from = n
      BY <1>0, <1>1 DEF ExpansionInv, NothingElse
    <2>2. \A e \in needing[m] : e.from \in diagnostics[m].dependency_of
      BY <1>0, <1>1, <1>2 DEF Settled
    <2> QED
      BY <2>1, <2>2
  <1> DEFINE depth == diagnostics[m].dependency_depth
  <1>4. CASE needing[m] = {}
    <2>1. depth = Unknown
      BY <1>0, <1>1, <1>4 DEF ExpansionInv, NothingElse
    <2> QED
      BY <1>3, <1>4, <2>1
  <1>5. CASE needing[m] # {}
    <2>1. depth # Unknown /\ \A e \in needing[m] : depth <= Distance(e.from) + 1
      BY <1>0, <1>1, <1>2, <1>5 DEF Settled
    <2>2. depth \in Depths(m) /\ Least(m, depth)
      BY <1>0, <1>1, <2>1 DEF ExpansionInv, NothingElse
    <2>3. \A d \in Depths(m) : d \in Nat
      BY <1>0, <1>1, RequiredFacts
    <2>4. \A d \in Depths(m) : depth <= d
      BY <1>0, <2>1
    <2>5. \A d \in Depths(m) : Least(m, d) => d <= depth
      BY <2>2
    <2>6. \A d \in Depths(m) : Least(m, d) => d = depth
      <3> HIDE DEF Depths, Least, depth
      <3>1. depth \in Nat
        BY <2>2, <2>3
      <3> QED
        BY <2>3, <2>4, <2>5, <3>1
    <2>7. depth = CHOOSE d \in Depths(m) : Least(m, d)
      <3> HIDE DEF depth, Least, Depths
      <3> QED
        BY <2>2, <2>6
    <2> QED
      BY <1>3, <1>5, <2>7
  <1> QED
    BY <1>4, <1>5

-----------------------------------------------------------------------------
(* The longest paths.                                                      *)

\* m depends on n.
Joined(m, n) == \E e \in DependencyGraph : e.from = m /\ e.to = n

\* There is a walk of k dependencies that begins with m.
HasWalk(m, k) ==
  \E w \in [0 .. k -> Memories] : w[0] = m /\ \A i \in 1 .. k : Joined(w[i - 1], w[i])

\* A walk is a dependency and a walk from its target.
LEMMA WalkSteps ==
  ASSUME GraphResolves, NEW m \in Memories, NEW k \in Nat
  PROVE  /\ HasWalk(m, 0)
         /\ HasWalk(m, k + 1) <=> \E e \in DependencyGraph : e.from = m /\ HasWalk(e.to, k)
  <1>1. HasWalk(m, 0)
    <2> DEFINE w == [i \in 0 .. 0 |-> m]
    <2>1. w \in [0 .. 0 -> Memories] /\ w[0] = m
      OBVIOUS
    <2>2. \A i \in 1 .. 0 : Joined(w[i - 1], w[i])
      OBVIOUS
    <2> HIDE DEF w
    <2> QED
      BY <2>1, <2>2 DEF HasWalk
  <1>2. ASSUME HasWalk(m, k + 1)
        PROVE  \E e \in DependencyGraph : e.from = m /\ HasWalk(e.to, k)
    <2>1. PICK w \in [0 .. k + 1 -> Memories] :
            w[0] = m /\ \A i \in 1 .. k + 1 : Joined(w[i - 1], w[i])
      BY <1>2 DEF HasWalk
    <2>2. Joined(w[0], w[1])
      <3>1. 1 \in 1 .. k + 1 /\ 1 - 1 = 0
        OBVIOUS
      <3> QED
        BY <2>1, <3>1
    <2>3. PICK e \in DependencyGraph : e.from = m /\ e.to = w[1]
      BY <2>1, <2>2 DEF Joined
    <2> DEFINE rest == [i \in 0 .. k |-> w[i + 1]]
    <2>4. rest \in [0 .. k -> Memories] /\ rest[0] = e.to
      BY <2>3
    <2>5. ASSUME NEW i \in 1 .. k PROVE Joined(rest[i - 1], rest[i])
      <3>1. i + 1 \in 1 .. k + 1 /\ (i + 1) - 1 = i /\ rest[i - 1] = w[i] /\ rest[i] = w[i + 1]
        OBVIOUS
      <3>2. Joined(w[(i + 1) - 1], w[i + 1])
        BY <2>1, <3>1
      <3> QED
        BY <3>1, <3>2
    <2>6. HasWalk(e.to, k)
      <3> HIDE DEF rest
      <3> QED
        BY <2>4, <2>5 DEF HasWalk
    <2> QED
      BY <2>3, <2>6
  <1>3. ASSUME NEW e \in DependencyGraph, e.from = m, HasWalk(e.to, k)
        PROVE  HasWalk(m, k + 1)
    <2>1. PICK w \in [0 .. k -> Memories] :
            w[0] = e.to /\ \A i \in 1 .. k : Joined(w[i - 1], w[i])
      BY <1>3 DEF HasWalk
    <2> DEFINE whole == [i \in 0 .. k + 1 |-> IF i = 0 THEN m ELSE w[i - 1]]
    <2>2. whole \in [0 .. k + 1 -> Memories] /\ whole[0] = m
      <3>1. \A i \in 0 .. k + 1 : i # 0 => i - 1 \in 0 .. k
        OBVIOUS
      <3> QED
        BY <3>1
    <2>3. ASSUME NEW i \in 1 .. k + 1 PROVE Joined(whole[i - 1], whole[i])
      <3>1. CASE i = 1
        <4>1. whole[i - 1] = m /\ whole[i] = w[0]
          BY <3>1
        <4> QED
          BY <1>3, <2>1, <4>1 DEF Joined
      <3>2. CASE i # 1
        <4>1. i - 1 \in 1 .. k
          BY <3>2
        <4>2. whole[i - 1] = w[(i - 1) - 1] /\ whole[i] = w[i - 1]
          BY <3>2, <4>1
        <4> QED
          BY <2>1, <4>1, <4>2
      <3> QED
        BY <3>1, <3>2
    <2> HIDE DEF whole
    <2> QED
      BY <2>2, <2>3 DEF HasWalk
  <1> QED
    BY <1>1, <1>2, <1>3

\* Where there is a walk there is a shorter one.
LEMMA ShorterWalk ==
  ASSUME NEW m, NEW j \in Nat, NEW k \in Nat, j <= k, HasWalk(m, k)
  PROVE  HasWalk(m, j)
  <1>1. PICK w \in [0 .. k -> Memories] : w[0] = m /\ \A i \in 1 .. k : Joined(w[i - 1], w[i])
    BY DEF HasWalk
  <1> DEFINE v == [i \in 0 .. j |-> w[i]]
  <1>2. v \in [0 .. j -> Memories] /\ v[0] = m
    BY <1>1
  <1>3. ASSUME NEW i \in 1 .. j PROVE Joined(v[i - 1], v[i])
    <2>1. i \in 1 .. k /\ v[i - 1] = w[i - 1] /\ v[i] = w[i]
      OBVIOUS
    <2> QED
      BY <1>1, <2>1
  <1> HIDE DEF v
  <1> QED
    BY <1>2, <1>3 DEF HasWalk

\* From a memory of which one can always go on, without leaving a set, there are
\* walks of every length.
LEMMA EndlessWalk ==
  ASSUME GraphResolves, NEW X \in SUBSET Memories,
         \A x \in X : \E e \in DependencyGraph : e.from = x /\ e.to \in X,
         NEW k \in Nat
  PROVE  \A x \in X : HasWalk(x, k)
  <1> DEFINE T == {n \in Nat : \A x \in X : HasWalk(x, n)}
  <1>1. 0 \in T
    <2>1. \A x \in X : HasWalk(x, 0)
      BY WalkSteps
    <2> QED
      BY <2>1
  <1>2. \A n \in Nat : n \in T => n + 1 \in T
    <2> SUFFICES ASSUME NEW n \in Nat, n \in T, NEW x \in X PROVE HasWalk(x, n + 1)
      OBVIOUS
    <2>1. PICK e \in DependencyGraph : e.from = x /\ e.to \in X
      OBVIOUS
    <2>2. HasWalk(e.to, n) /\ x \in Memories
      BY <2>1
    <2> QED
      BY <2>1, <2>2, WalkSteps
  <1>3. Nat \subseteq T
    <2> HIDE DEF T
    <2> QED
      BY <1>1, <1>2, Induct
  <1> QED
    BY <1>3

\* The steps end where no direct selection has a walk that long.
LEMMA StepsEnd ==
  ASSUME input \in Inputs, GraphResolves, NEW k \in 0 .. 33
  PROVE  Steps[k] = {} <=> \A m \in Baseline : ~ HasWalk(m, k)
  <1> DEFINE goesOn(j) == \E m \in Steps[j] : HasWalk(m, k - j)
             T == {n \in Nat : n <= k => (goesOn(n) <=> goesOn(0))}
  <1>0. Count \in Nat
    BY CountType
  <1>1. 0 \in T
    OBVIOUS
  <1>2. \A n \in Nat : n \in T => n + 1 \in T
    <2> SUFFICES ASSUME NEW n \in Nat, n \in T, n + 1 <= k PROVE goesOn(n + 1) <=> goesOn(n)
      OBVIOUS
    <2>1. n \in 0 .. 32 + Count /\ k - (n + 1) \in Nat /\ k - (n + 1) + 1 = k - n
          /\ n \in 0 .. 33 + Count
      BY <1>0
    <2>2. Steps[n + 1] = Following(Steps[n]) /\ Steps[n] \subseteq Memories
      BY <2>1, StepFollows, StepsAre
    <2>3. \A m \in Memories : HasWalk(m, k - n) <=>
            \E e \in DependencyGraph : e.from = m /\ HasWalk(e.to, k - (n + 1))
      <3>1. \A m \in Memories : HasWalk(m, k - (n + 1) + 1) <=>
            \E e \in DependencyGraph : e.from = m /\ HasWalk(e.to, k - (n + 1))
        BY <2>1, WalkSteps
      <3> QED
        BY <2>1, <3>1
    <2>4. goesOn(n + 1) <=> \E e \in DependencyGraph :
                              e.from \in Steps[n] /\ HasWalk(e.to, k - (n + 1))
      BY <2>2 DEF Following
    <2> QED
      BY <2>2, <2>3, <2>4
  <1>3. Nat \subseteq T
    <2> HIDE DEF T
    <2> QED
      BY <1>1, <1>2, Induct
  <1>4. goesOn(k) <=> goesOn(0)
    BY <1>3
  <1>5. goesOn(k) <=> Steps[k] # {}
    <2>1. k - k = 0 /\ k \in 0 .. 33 + Count
      BY <1>0
    <2>2. \A m \in Steps[k] : HasWalk(m, 0)
      BY <2>1, StepsAre, WalkSteps
    <2> QED
      BY <2>1, <2>2
  <1>6. goesOn(0) <=> \E m \in Baseline : HasWalk(m, k)
    BY StepsAre
  <1> QED
    BY <1>4, <1>5, <1>6

\* The longest walk from the memory of a frame, by the dependencies it has done with.
FrameFits(f) ==
  /\ f.left \subseteq EdgesFrom(graph, f.node)
  /\ HasWalk(f.node, f.longest)
  /\ \A e \in EdgesFrom(graph, f.node) \ f.left : ~ HasWalk(e.to, f.longest)

\* The path search where a cycle is an error: memo has the longest walks, the stack
\* is a path, and the direct selections that are done have no walk too long.
AcyclicInv ==
  /\ roots \subseteq Baseline
  /\ stack # <<>> => stack[1].node \in roots
  /\ \A m \in Memories : memo[m] # Unknown => HasWalk(m, memo[m]) /\ ~ HasWalk(m, memo[m] + 1)
  /\ \A m \in Baseline \ roots : ~ HasWalk(m, policy.max_depth + 1)
  /\ \A i \in 1 .. Len(stack) : FrameFits(stack[i])
  /\ \A i \in 1 .. Len(stack) - 1 : \E e \in stack[i].left : e.to = stack[i + 1].node

\* The limit, and the length that exceeds it.
LEMMA LimitType ==
  ASSUME Context
  PROVE  /\ policy.max_depth \in 0 .. 32 /\ policy.max_depth + 1 \in 0 .. 33
         /\ policy.fail_on_cycle \in BOOLEAN
  <1>1. policy.max_depth \in 0 .. 32 /\ policy.fail_on_cycle \in BOOLEAN
    BY PolicyType DEF Context, DependencyPolicy
  <1> QED
    BY <1>1

\* They are numbers.
LEMMA LimitNat ==
  ASSUME Context
  PROVE  policy.max_depth \in Nat /\ policy.max_depth + 1 \in Nat
  <1>1. policy.max_depth \in 0 .. 32
    BY LimitType
  <1> QED
    BY <1>1

\* A walk that is too long, from a direct selection.
LEMMA TooLong ==
  ASSUME Context, GraphInv, policy.fail_on_cycle
  PROVE  /\ (\E m \in Baseline : HasWalk(m, policy.max_depth + 1))
              => ~ PathsWithin(policy.max_depth)
         /\ (\A m \in Baseline : ~ HasWalk(m, policy.max_depth + 1))
              => PathsWithin(policy.max_depth)
  <1>1. Steps[policy.max_depth + 1] = {} <=>
          \A m \in Baseline : ~ HasWalk(m, policy.max_depth + 1)
    BY LimitType, StepsEnd DEF Context, GraphInv
  <1> QED
    BY <1>1 DEF PathsWithin

\* HasWalk depends on the input alone.
LEMMA FrozenWalks ==
  ASSUME input' = input
  PROVE  \A m, k : HasWalk(m, k)' <=> HasWalk(m, k)
  BY Frozen DEF HasWalk, Joined

\* A frame that is pushed has done with nothing.
LEMMA PushFits ==
  ASSUME Context, GraphInv, NEW m \in Memories
  PROVE  FrameFits([node |-> m, left |-> EdgesFrom(graph, m), longest |-> 0])
  BY WalkSteps DEF GraphInv, FrameFits

\* A step that keeps the graph keeps what fits.
LEMMA FramesStay ==
  ASSUME input' = input, graph' = graph
  PROVE  \A f : FrameFits(f)' <=> FrameFits(f)
  BY FrozenWalks DEF FrameFits, EdgesFrom

\* A direct selection is entered, or found too far from the end of its walks.
LEMMA AcyclicEnter ==
  ASSUME Context, GraphInv, policy.fail_on_cycle, AcyclicInv, NEW r \in Memories, EnterRoot(r)
  PROVE  /\ phase' = "failed" => ~ PathsWithin(policy.max_depth)
         /\ phase' # "failed" => AcyclicInv'
  <1>1. /\ stack = <<>> /\ r \in roots /\ r \in Baseline /\ input' = input /\ graph' = graph
        /\ memo' = memo /\ memo[r] \in Nat \cup {Unknown} /\ phase = "validate"
    BY DEF EnterRoot, Fail, AcyclicInv, Context, TypeOK, search
  <1>2. policy.max_depth \in Nat
    BY LimitType
  <1>3. \A m, k : HasWalk(m, k)' <=> HasWalk(m, k)
    BY <1>1, FrozenWalks
  <1>4. Baseline' = Baseline /\ policy' = policy
    BY <1>1, Frozen
  <1>5. CASE memo[r] # Unknown
    <2>1. memo[r] \in Nat /\ HasWalk(r, memo[r]) /\ ~ HasWalk(r, memo[r] + 1)
      BY <1>1, <1>5 DEF AcyclicInv
    <2>2. CASE memo[r] > policy.max_depth
      <3>1. policy.max_depth + 1 \in Nat /\ policy.max_depth + 1 <= memo[r]
        BY <1>2, <2>1, <2>2
      <3>2. HasWalk(r, policy.max_depth + 1)
        BY <2>1, <3>1, ShorterWalk
      <3>3. phase' = "failed"
        BY <1>5, <2>2 DEF EnterRoot, Fail
      <3> QED
        BY <1>1, <3>2, <3>3, TooLong
    <2>3. CASE ~ (memo[r] > policy.max_depth)
      <3>1. memo[r] + 1 \in Nat /\ policy.max_depth + 1 \in Nat
            /\ memo[r] + 1 <= policy.max_depth + 1
        BY <1>2, <2>1, <2>3
      <3>2. ~ HasWalk(r, policy.max_depth + 1)
        BY <2>1, <3>1, ShorterWalk
      <3>3. roots' = roots \ {r} /\ stack' = stack /\ phase' # "failed"
        BY <1>1, <1>5, <2>3 DEF EnterRoot
      <3> QED
        BY <1>1, <1>3, <1>4, <3>2, <3>3 DEF AcyclicInv
    <2> QED
      BY <2>2, <2>3
  <1>6. CASE memo[r] = Unknown
    <2> DEFINE f == [node |-> r, left |-> EdgesFrom(graph, r), longest |-> 0]
    <2>1. stack' = <<f>> /\ roots' = roots /\ phase' # "failed"
      BY <1>1, <1>6 DEF EnterRoot, Push
    <2>2. FrameFits(f) /\ f.node = r
      BY <1>1, PushFits
    <2>3. Len(stack') = 1 /\ stack'[1] = f
      BY <2>1
    <2>4. \A i \in 1 .. Len(stack') : FrameFits(stack[i])'
      <3> HIDE DEF f
      <3>1. \A i \in 1 .. Len(stack') : stack'[i] = f
        BY <2>3
      <3> QED
        BY <1>1, <2>2, <3>1, FramesStay
    <2> HIDE DEF f
    <2> QED
      BY <1>1, <1>3, <1>4, <2>1, <2>2, <2>3, <2>4 DEF AcyclicInv
  <1> QED
    BY <1>5, <1>6

\* A path without its last memory.
LEMMA WithoutLast ==
  ASSUME NEW S, NEW s \in Seq(S), s # <<>>
  PROVE  /\ SubSeq(s, 1, Len(s) - 1) \in Seq(S)
         /\ Len(SubSeq(s, 1, Len(s) - 1)) = Len(s) - 1
         /\ \A i \in 1 .. Len(s) - 1 : SubSeq(s, 1, Len(s) - 1)[i] = s[i]
  <1> DEFINE n == Len(s) - 1
  <1>1. Len(s) \in Nat \ {0} /\ n \in Nat /\ n = Len(s) - 1
    OBVIOUS
  <1>2. 1 \in 1 .. Len(s) + 1 /\ n \in 1 - 1 .. Len(s) /\ n - 1 + 1 = n
    BY <1>1
  <1> HIDE DEF n
  <1>3. SubSeq(s, 1, n) \in Seq(S) /\ Len(SubSeq(s, 1, n)) = n
        /\ \A i \in 1 .. n : SubSeq(s, 1, n)[i] = s[i]
    BY <1>1, <1>2, SubSeqProperties
  <1> QED
    BY <1>3 DEF n

\* The frames of the path, one by one.
LEMMA StackFacts ==
  ASSUME Context, GraphInv, AcyclicInv, stack # <<>>
  PROVE  /\ Len(stack) \in Nat \ {0} /\ Top = stack[Len(stack)] /\ Top \in Frame
         /\ \A i \in 1 .. Len(stack) :
              /\ stack[i] \in Frame /\ stack[i].node \in Memories /\ stack[i].longest \in Nat
              /\ FrameFits(stack[i])
         /\ stack[1].node \in Baseline /\ stack[1].node \in roots
  <1>1. stack \in Seq(Frame) /\ Len(stack) \in Nat \ {0}
    BY DEF Context, TypeOK
  <1>2. \A i \in 1 .. Len(stack) :
          stack[i] \in Frame /\ stack[i].node \in Memories /\ stack[i].longest \in Nat
    <2>1. \A i \in 1 .. Len(stack) : stack[i] \in Frame
      BY <1>1
    <2> QED
      BY <2>1 DEF Frame
  <1>3. Len(stack) \in 1 .. Len(stack)
    BY <1>1
  <1> QED
    BY <1>1, <1>2, <1>3 DEF Top, AcyclicInv

\* A path that comes back to itself can be followed for ever.
LEMMA CycleIsEndless ==
  ASSUME Context, GraphInv, policy.fail_on_cycle, AcyclicInv, stack # <<>>,
         NEW e \in Top.left, OnPath(e.to)
  PROVE  ~ PathsWithin(policy.max_depth)
  <1> DEFINE L == Len(stack)
             X == {stack[i].node : i \in 1 .. L}
  <1>1. /\ L \in Nat \ {0} /\ Top = stack[L]
        /\ \A i \in 1 .. L : stack[i].node \in Memories /\ FrameFits(stack[i])
        /\ stack[1].node \in Baseline
    BY StackFacts
  <1>2. DOMAIN stack = 1 .. L /\ graph = DependencyGraph /\ GraphResolves
    BY DEF Context, TypeOK, GraphInv
  <1>3. \A i \in 1 .. L : \A x \in stack[i].left :
          x \in DependencyGraph /\ x.from = stack[i].node
    BY <1>1, <1>2 DEF FrameFits, EdgesFrom
  <1>4. ASSUME NEW i \in 1 .. L
        PROVE  \E x \in DependencyGraph : x.from = stack[i].node /\ x.to \in X
    <2>1. CASE i = L
      <3>1. e \in stack[i].left
        BY <1>1, <2>1
      <3>2. PICK j \in 1 .. L : stack[j].node = e.to
        BY <1>2 DEF OnPath
      <3> QED
        BY <1>3, <3>1, <3>2
    <2>2. CASE i # L
      <3>1. i \in 1 .. L - 1 /\ i + 1 \in 1 .. L
        BY <1>1, <2>2
      <3>2. PICK x \in stack[i].left : x.to = stack[i + 1].node
        BY <3>1 DEF AcyclicInv
      <3> QED
        BY <1>3, <3>1, <3>2
    <2> QED
      BY <2>1, <2>2
  <1>5. X \in SUBSET Memories /\ \A m \in X : \E x \in DependencyGraph : x.from = m /\ x.to \in X
    BY <1>1, <1>4
  <1>6. policy.max_depth + 1 \in Nat
    BY LimitNat
  <1>7. \A m \in X : HasWalk(m, policy.max_depth + 1)
    <2> HIDE DEF X
    <2> QED
      BY <1>2, <1>5, <1>6, EndlessWalk
  <1>8. stack[1].node \in X
    BY <1>1
  <1> QED
    BY <1>1, <1>7, <1>8, TooLong

\* A dependency whose target is done counts with the longest walk from there.
LEMMA PathThroughFits ==
  ASSUME Context, GraphInv, AcyclicInv, stack # <<>>, NEW e \in Top.left, memo[e.to] # Unknown
  PROVE  FrameFits(PathThrough(Top, e)) /\ PathThrough(Top, e).node = Top.node
  <1> DEFINE k == memo[e.to]
             f == PathThrough(Top, e)
             n == Top.longest
  <1>1. Top \in Frame /\ FrameFits(Top) /\ n \in Nat /\ Top.node \in Memories
    BY StackFacts DEF Frame
  <1>2. e \in graph /\ e.from = Top.node
    BY <1>1 DEF FrameFits, EdgesFrom
  <1>3. e.to \in Memories /\ GraphResolves /\ graph = DependencyGraph
    BY <1>2, GraphFacts DEF GraphInv
  <1>4. k \in Nat /\ HasWalk(e.to, k) /\ ~ HasWalk(e.to, k + 1)
    BY <1>3 DEF AcyclicInv, Context, TypeOK
  <1>5. HasWalk(Top.node, k + 1)
    BY <1>1, <1>2, <1>3, <1>4, WalkSteps
  <1>6. /\ f.node = Top.node /\ f.left = Top.left \ {e}
        /\ f.longest = IF k + 1 > n THEN k + 1 ELSE n
    BY <1>1 DEF PathThrough, Frame
  <1>7. f.longest \in Nat /\ k + 1 \in Nat /\ k + 1 <= f.longest /\ n <= f.longest
    BY <1>1, <1>4, <1>6
  <1>8. HasWalk(f.node, f.longest)
    BY <1>1, <1>5, <1>6 DEF FrameFits
  <1>9. ASSUME NEW x \in EdgesFrom(graph, f.node) \ f.left PROVE ~ HasWalk(x.to, f.longest)
    <2>1. CASE x = e
      BY <1>4, <1>7, <2>1, ShorterWalk
    <2>2. CASE x # e
      <3>1. ~ HasWalk(x.to, n)
        BY <1>1, <1>6, <2>2 DEF FrameFits
      <3> QED
        BY <1>1, <1>7, <3>1, ShorterWalk
    <2> QED
      BY <2>1, <2>2
  <1>10. f.left \subseteq EdgesFrom(graph, f.node)
    BY <1>1, <1>6 DEF FrameFits
  <1> HIDE DEF f
  <1> QED
    BY <1>6, <1>8, <1>9, <1>10 DEF FrameFits, f

\* A dependency is followed where a cycle is an error.
LEMMA AcyclicFollow ==
  ASSUME Context, GraphInv, policy.fail_on_cycle, AcyclicInv, NEW e \in graph, FollowAcyclic(e)
  PROVE  /\ phase' = "failed" => ~ PathsWithin(policy.max_depth)
         /\ phase' # "failed" => AcyclicInv'
  <1> DEFINE L == Len(stack)
  <1>1. /\ stack # <<>> /\ e \in Top.left /\ phase = "validate"
        /\ input' = input /\ graph' = graph /\ memo' = memo /\ roots' = roots
    BY DEF FollowAcyclic, Fail, search
  <1>2. /\ L \in Nat \ {0} /\ Top = stack[L] /\ stack \in Seq(Frame)
        /\ \A i \in 1 .. L : stack[i].node \in Memories /\ FrameFits(stack[i])
        /\ stack[1].node \in roots
    BY <1>1, StackFacts DEF Context, TypeOK
  <1>3. CASE OnPath(e.to)
    <2>1. phase' = "failed"
      BY <1>3 DEF FollowAcyclic, Fail
    <2> QED
      BY <1>1, <1>3, <2>1, CycleIsEndless
  <1>4. CASE ~ OnPath(e.to)
    <2>0. phase' = "validate"
      BY <1>1, <1>4 DEF FollowAcyclic
    <2>1. /\ Len(stack') \in Nat \ {0} /\ stack'[1].node = stack[1].node
          /\ \A i \in 1 .. Len(stack') : FrameFits(stack'[i])
          /\ \A i \in 1 .. Len(stack') - 1 :
               \E x \in stack'[i].left : x.to = stack'[i + 1].node
      <3>1. CASE memo[e.to] # Unknown
        <4> DEFINE f == PathThrough(Top, e)
        <4>1. FrameFits(f) /\ f.node = Top.node
          BY <1>1, <3>1, PathThroughFits
        <4>2. stack' = [stack EXCEPT ![L] = f]
          BY <1>1, <1>4, <3>1 DEF FollowAcyclic, ReplaceTop
        <4> HIDE DEF f
        <4>3. Len(stack') = L /\ \A i \in 1 .. L : stack'[i] = IF i = L THEN f ELSE stack[i]
          BY <1>2, <4>2
        <4>4. \A i \in 1 .. L - 1 : \E x \in stack'[i].left : x.to = stack'[i + 1].node
          <5> SUFFICES ASSUME NEW i \in 1 .. L - 1
                       PROVE  \E x \in stack'[i].left : x.to = stack'[i + 1].node
            OBVIOUS
          <5>1. i \in 1 .. L /\ i + 1 \in 1 .. L /\ i # L
            BY <1>2
          <5>2. stack'[i] = stack[i] /\ stack'[i + 1].node = stack[i + 1].node
            BY <1>2, <4>1, <4>3, <5>1
          <5> QED
            BY <5>2 DEF AcyclicInv
        <4>5. stack'[1].node = stack[1].node
          BY <1>2, <4>1, <4>3
        <4> QED
          BY <1>2, <4>1, <4>3, <4>4, <4>5
      <3>2. CASE memo[e.to] = Unknown
        <4> DEFINE f == [node |-> e.to, left |-> EdgesFrom(graph, e.to), longest |-> 0]
        <4>1. FrameFits(f) /\ f.node = e.to
          BY GraphFacts, PushFits
        <4>2. stack' = Append(stack, f)
          BY <1>1, <1>4, <3>2 DEF FollowAcyclic, Push
        <4> HIDE DEF f
        <4>3. /\ Len(stack') = L + 1 /\ stack'[L + 1] = f
              /\ \A i \in 1 .. L : stack'[i] = stack[i]
          BY <1>2, <4>2
        <4>4. \A i \in 1 .. L : \E x \in stack'[i].left : x.to = stack'[i + 1].node
          <5> SUFFICES ASSUME NEW i \in 1 .. L
                       PROVE  \E x \in stack'[i].left : x.to = stack'[i + 1].node
            OBVIOUS
          <5>1. CASE i = L
            BY <1>1, <1>2, <4>1, <4>3, <5>1
          <5>2. CASE i # L
            <6>1. i \in 1 .. L - 1 /\ i + 1 \in 1 .. L
              BY <1>2, <5>2
            <6>2. stack'[i] = stack[i] /\ stack'[i + 1] = stack[i + 1]
              BY <4>3, <6>1
            <6> QED
              BY <6>1, <6>2 DEF AcyclicInv
          <5> QED
            BY <5>1, <5>2
        <4>5. \A i \in 1 .. L + 1 : FrameFits(stack'[i])
          <5>1. \A i \in 1 .. L + 1 : i \in 1 .. L \/ i = L + 1
            BY <1>2
          <5> QED
            BY <1>2, <4>1, <4>3, <5>1
        <4>6. stack'[1].node = stack[1].node
          BY <1>2, <4>3
        <4> QED
          BY <1>2, <4>3, <4>4, <4>5, <4>6
      <3> QED
        BY <3>1, <3>2
    <2>2. \A f : FrameFits(f)' <=> FrameFits(f)
      BY <1>1, FramesStay
    <2>3. \A m, k : HasWalk(m, k)' <=> HasWalk(m, k)
      BY <1>1, FrozenWalks
    <2>4. \A i \in 1 .. Len(stack') : FrameFits(stack[i])'
      BY <2>1, <2>2
    <2>5. /\ roots' \subseteq Baseline'
          /\ stack' # <<>> => stack'[1].node \in roots'
      BY <1>1, <1>2, <2>1, Frozen DEF AcyclicInv
    <2>6. policy' = policy /\ Baseline' = Baseline
      BY <1>1, Frozen
    <2> QED
      BY <1>1, <2>0, <2>1, <2>3, <2>4, <2>5, <2>6 DEF AcyclicInv
  <1> QED
    BY <1>3, <1>4

\* A memory is left: its longest walk is known.
LEMMA AcyclicLeave ==
  ASSUME Context, GraphInv, policy.fail_on_cycle, AcyclicInv, Leave
  PROVE  /\ phase' = "failed" => ~ PathsWithin(policy.max_depth)
         /\ phase' # "failed" => AcyclicInv'
  <1> DEFINE L == Len(stack)
             n == Top.longest
             m == Top.node
             tooLong == L = 1 /\ n > policy.max_depth
  <1>1. /\ stack # <<>> /\ Top.left = {} /\ phase = "validate"
        /\ input' = input /\ graph' = graph
    BY DEF Leave, Fail
  <1>2. /\ L \in Nat \ {0} /\ Top = stack[L] /\ stack \in Seq(Frame)
        /\ \A i \in 1 .. L : stack[i].node \in Memories /\ FrameFits(stack[i])
        /\ n \in Nat /\ m \in Memories /\ FrameFits(Top)
        /\ stack[1].node \in roots /\ stack[1].node \in Baseline
    BY <1>1, StackFacts DEF Context, TypeOK, Frame
  <1>3. HasWalk(m, n) /\ ~ HasWalk(m, n + 1)
    <2>1. \A x \in EdgesFrom(graph, m) : ~ HasWalk(x.to, n)
      BY <1>1, <1>2 DEF FrameFits
    <2>2. graph = DependencyGraph /\ GraphResolves
      BY DEF GraphInv
    <2>3. HasWalk(m, n)
      BY <1>2 DEF FrameFits
    <2>4. ~ HasWalk(m, n + 1)
      BY <1>2, <2>1, <2>2, WalkSteps DEF EdgesFrom
    <2> QED
      BY <2>3, <2>4
  <1>4. policy.max_depth \in Nat
    BY LimitType
  <1>5. CASE tooLong
    <2>1. m \in Baseline
      BY <1>2, <1>5
    <2>2. policy.max_depth + 1 \in Nat /\ policy.max_depth + 1 <= n
      BY <1>2, <1>4, <1>5
    <2>3. HasWalk(m, policy.max_depth + 1)
      BY <1>2, <1>3, <2>2, ShorterWalk
    <2>4. phase' = "failed"
      BY <1>5 DEF Leave, Fail
    <2> QED
      BY <2>1, <2>3, <2>4, TooLong
  <1>6. CASE ~ tooLong
    <2>1. /\ stack' = SubSeq(stack, 1, L - 1) /\ memo' = [memo EXCEPT ![m] = n]
          /\ roots' = IF L = 1 THEN roots \ {m} ELSE roots
          /\ phase' # "failed"
      BY <1>1, <1>6 DEF Leave, Fail
    <2> HIDE DEF n, m, tooLong
    <2>2. Len(stack') = L - 1 /\ \A i \in 1 .. L - 1 : stack'[i] = stack[i]
      BY <1>1, <1>2, <2>1, WithoutLast
    <2>3. \A f : FrameFits(f)' <=> FrameFits(f)
      BY <1>1, FramesStay
    <2>4. \A x, k : HasWalk(x, k)' <=> HasWalk(x, k)
      BY <1>1, FrozenWalks
    <2>5. \A i \in 1 .. Len(stack') : FrameFits(stack[i])'
      <3>1. \A i \in 1 .. Len(stack') : i \in 1 .. L /\ stack'[i] = stack[i]
        BY <1>2, <2>2
      <3> QED
        BY <1>2, <2>3, <3>1
    <2>6. policy' = policy /\ Baseline' = Baseline
      BY <1>1, Frozen
    <2>7. roots' \subseteq Baseline
      BY <2>1 DEF AcyclicInv
    <2>8. stack' # <<>> => stack'[1].node \in roots'
      <3> SUFFICES ASSUME stack' # <<>> PROVE stack'[1].node \in roots'
        OBVIOUS
      <3>1. L # 1
        BY <1>2, <2>1
      <3> QED
        BY <1>2, <2>1, <2>2, <3>1
    <2>9. \A x \in Memories : memo'[x] # Unknown =>
            HasWalk(x, memo'[x]) /\ ~ HasWalk(x, memo'[x] + 1)
      BY <1>2, <1>3, <2>1 DEF AcyclicInv, Context, TypeOK
    <2>10. \A x \in Baseline \ roots' : ~ HasWalk(x, policy.max_depth + 1)
      <3> SUFFICES ASSUME NEW x \in Baseline \ roots', x \in roots
                   PROVE  ~ HasWalk(x, policy.max_depth + 1)
        BY DEF AcyclicInv
      <3>1. L = 1 /\ x = m
        BY <2>1
      <3>2. n + 1 \in Nat /\ policy.max_depth + 1 \in Nat /\ n + 1 <= policy.max_depth + 1
        BY <1>2, <1>4, <1>6, <3>1 DEF tooLong
      <3> QED
        BY <1>3, <3>1, <3>2, ShorterWalk
    <2>11. \A i \in 1 .. Len(stack') - 1 : \E x \in stack'[i].left : x.to = stack'[i + 1].node
      <3> SUFFICES ASSUME NEW i \in 1 .. Len(stack') - 1
                   PROVE  \E x \in stack'[i].left : x.to = stack'[i + 1].node
        OBVIOUS
      <3>1. i \in 1 .. L - 1 /\ i + 1 \in 1 .. L - 1
        BY <1>2, <2>2
      <3>2. stack'[i] = stack[i] /\ stack'[i + 1] = stack[i + 1]
        BY <2>2, <3>1
      <3> QED
        BY <3>1, <3>2 DEF AcyclicInv
    <2> QED
      BY <2>1, <2>4, <2>5, <2>6, <2>7, <2>8, <2>9, <2>10, <2>11 DEF AcyclicInv
  <1> QED
    BY <1>5, <1>6

-----------------------------------------------------------------------------
(* The simple paths.                                                       *)

\* The kind of a path: its memories, and the dependencies between them.
PathRecord == [nodes : Seq(Memories), edges : Seq(Edge)]

\* The path p, and the dependency e after it.
Longer(p, e) == [nodes |-> Append(p.nodes, e.to), edges |-> Append(p.edges, e)]

\* The dependencies with which a path of k of them goes on.
GoesOn(p, k) ==
  {x \in DependencyGraph : x.from = p.nodes[k + 1] /\ \A i \in 1 .. k + 1 : p.nodes[i] # x.to}

\* The paths of X, each with every dependency with which it goes on.
LongerPaths(X, k) == UNION {{Longer(p, e) : e \in GoesOn(p, k)} : p \in X}

\* SimplePaths makes them longer by one dependency a time.
LEMMA SimplePathsAre ==
  ASSUME input \in Inputs, GraphResolves
  PROVE  /\ \A k \in 0 .. 33 : SimplePaths[k] \subseteq PathRecord
         /\ SimplePaths[0] = {[nodes |-> <<m>>, edges |-> <<>>] : m \in Baseline}
         /\ \A k \in 0 .. 32 : SimplePaths[k + 1] = LongerPaths(SimplePaths[k], k)
  <1> DEFINE Extend(X, k) ==
               UNION {{[nodes |-> Append(p.nodes, e.to), edges |-> Append(p.edges, e)] :
                         e \in {x \in DependencyGraph :
                                  /\ x.from = p.nodes[k]
                                  /\ \A i \in 1 .. k : p.nodes[i] # x.to}} : p \in X}
             base == {[nodes |-> <<m>>, edges |-> <<>>] : m \in Baseline}
             S == SUBSET PathRecord
             next == [k \in 1 .. 33 |-> [X \in S |-> Extend(X, k)]]
  <1>1. base \in S
    <2>1. \A m \in Baseline : m \in Memories
      BY DEF Baseline
    <2>2. \A m \in Memories : <<m>> \in Seq(Memories)
      OBVIOUS
    <2>3. <<>> \in Seq(Edge)
      OBVIOUS
    <2>4. \A m \in Baseline : [nodes |-> <<m>>, edges |-> <<>>] \in PathRecord
      BY <2>1, <2>2, <2>3 DEF PathRecord
    <2> QED
      BY <2>4
  <1>2. \A k \in 1 .. 33 : \A X \in S : Extend(X, k) \in S
    <2> DEFINE longer(p, e) == [nodes |-> Append(p.nodes, e.to), edges |-> Append(p.edges, e)]
    <2>1. ASSUME NEW p \in PathRecord, NEW e \in DependencyGraph
          PROVE  longer(p, e) \in PathRecord
      <3>1. p.nodes \in Seq(Memories) /\ p.edges \in Seq(Edge)
        BY DEF PathRecord
      <3>2. e \in Edge /\ e.to \in Memories
        BY GraphType DEF Edge
      <3>3. Append(p.nodes, e.to) \in Seq(Memories) /\ Append(p.edges, e) \in Seq(Edge)
        BY <3>1, <3>2
      <3> QED
        BY <3>3 DEF PathRecord
    <2> DEFINE onward(p, k) == {x \in DependencyGraph :
                                  /\ x.from = p.nodes[k]
                                  /\ \A i \in 1 .. k : p.nodes[i] # x.to}
    <2>2. \A X, k : Extend(X, k) = UNION {{longer(p, e) : e \in onward(p, k)} : p \in X}
      OBVIOUS
    <2>3. \A p, k : onward(p, k) \subseteq DependencyGraph
      OBVIOUS
    <2> HIDE DEF longer, onward, Extend
    <2> QED
      BY <2>1, <2>2, <2>3
  <1> HIDE DEF base, Extend, S
  <1>3. next \in [1 .. 33 -> [S -> S]]
    BY <1>2
  <1>4. PICK f : Iterates(f, 33, S, base, next)
    <2> HIDE DEF next
    <2> QED
      BY <1>1, <1>3, IterationExists
  <1>5. /\ f \in [0 .. 33 -> S] /\ f[0] = base
        /\ \A k \in 1 .. 33 : f[k] = Extend(f[k - 1], k)
    <2>1. f \in [0 .. 33 -> S] /\ f[0] = base /\ \A k \in 1 .. 33 : f[k] = next[k][f[k - 1]]
      BY <1>4 DEF Iterates
    <2>2. \A k \in 1 .. 33 : f[k - 1] \in S
      <3>1. \A k \in 1 .. 33 : k - 1 \in 0 .. 33
        OBVIOUS
      <3> QED
        BY <2>1, <3>1
    <2> QED
      BY <2>1, <2>2
  <1>6. f = [k \in 0 .. 33 |-> IF k = 0 THEN base ELSE Extend(f[k - 1], k)]
    <2>1. \A k \in 0 .. 33 : k # 0 => k \in 1 .. 33
      OBVIOUS
    <2>2. \A k \in 0 .. 33 : f[k] = IF k = 0 THEN base ELSE Extend(f[k - 1], k)
      BY <1>5, <2>1
    <2> QED
      BY <1>5, <2>2
  <1>7. SimplePaths = CHOOSE g : g = [k \in 0 .. 33 |-> IF k = 0 THEN base
                                                        ELSE Extend(g[k - 1], k)]
    BY DEF SimplePaths, base, Extend
  <1>8. SimplePaths = [k \in 0 .. 33 |-> IF k = 0 THEN base ELSE Extend(SimplePaths[k - 1], k)]
    BY <1>6, <1>7
  <1>9. SimplePaths[0] = base
    <2>1. \A k \in 0 .. 33 :
            SimplePaths[k] = IF k = 0 THEN base ELSE Extend(SimplePaths[k - 1], k)
      BY <1>8
    <2> QED
      BY <2>1
  <1>10. \A k \in 0 .. 32 : SimplePaths[k + 1] = Extend(SimplePaths[k], k + 1)
    <2> SUFFICES ASSUME NEW k \in 0 .. 32 PROVE SimplePaths[k + 1] = Extend(SimplePaths[k], k + 1)
      OBVIOUS
    <2>1. k + 1 \in 0 .. 33 /\ k + 1 # 0 /\ (k + 1) - 1 = k
      OBVIOUS
    <2>2. \A j \in 0 .. 33 :
            SimplePaths[j] = IF j = 0 THEN base ELSE Extend(SimplePaths[j - 1], j)
      BY <1>8
    <2>3. SimplePaths[k + 1] = Extend(SimplePaths[(k + 1) - 1], k + 1)
      BY <2>1, <2>2
    <2> QED
      BY <2>1, <2>3
  <1>11. \A n \in Nat : n \in 0 .. 33 => SimplePaths[n] \in S
    <2> DEFINE T == {n \in Nat : n \in 0 .. 33 => SimplePaths[n] \in S}
    <2>1. 0 \in T
      BY <1>1, <1>9
    <2>2. \A n \in Nat : n \in T => n + 1 \in T
      <3> SUFFICES ASSUME NEW n \in Nat, n \in T, n + 1 \in 0 .. 33
                   PROVE  SimplePaths[n + 1] \in S
        OBVIOUS
      <3>1. n \in 0 .. 33 /\ n \in 0 .. 32 /\ n + 1 \in 1 .. 33
        OBVIOUS
      <3> QED
        BY <1>2, <1>10, <3>1
    <2>3. Nat \subseteq T
      <3> HIDE DEF T
      <3> QED
        BY <2>1, <2>2, Induct
    <2> QED
      BY <2>3
  <1>12. \A X, k : Extend(X, k + 1) = LongerPaths(X, k)
    BY DEF Extend, LongerPaths, Longer, GoesOn
  <1>13. \A k \in 0 .. 33 : SimplePaths[k] \subseteq PathRecord
    BY <1>11 DEF S
  <1> QED
    BY <1>9, <1>10, <1>12, <1>13 DEF base

\* A sequence of k dependencies, one after the other, that never comes back.
IsPath(p, k) ==
  /\ p \in PathRecord /\ Len(p.nodes) = k + 1 /\ Len(p.edges) = k
  /\ p.nodes[1] \in Baseline
  /\ \A i \in 1 .. k : /\ p.edges[i] \in DependencyGraph
                       /\ p.edges[i].from = p.nodes[i] /\ p.edges[i].to = p.nodes[i + 1]
  /\ \A i, j \in 1 .. k + 1 : i # j => p.nodes[i] # p.nodes[j]

\* What a longer path is made of.
LEMMA LongerIs ==
  ASSUME GraphResolves, NEW k \in Nat, NEW p, IsPath(p, k), NEW e \in GoesOn(p, k)
  PROVE  /\ IsPath(Longer(p, e), k + 1)
         /\ \A i \in 1 .. k + 1 : Longer(p, e).nodes[i] = p.nodes[i]
         /\ \A i \in 1 .. k : Longer(p, e).edges[i] = p.edges[i]
         /\ Longer(p, e).nodes[k + 2] = e.to /\ Longer(p, e).edges[k + 1] = e
  <1> DEFINE q == Longer(p, e)
  <1>1. /\ p.nodes \in Seq(Memories) /\ p.edges \in Seq(Edge)
        /\ Len(p.nodes) = k + 1 /\ Len(p.edges) = k
    BY DEF IsPath, PathRecord
  <1>2. /\ e \in DependencyGraph /\ e.from = p.nodes[k + 1] /\ e \in Edge /\ e.to \in Memories
        /\ \A i \in 1 .. k + 1 : p.nodes[i] # e.to
    BY GraphType DEF GoesOn, Edge
  <1>3. q.nodes = Append(p.nodes, e.to) /\ q.edges = Append(p.edges, e)
        /\ q = [nodes |-> q.nodes, edges |-> q.edges]
    BY DEF Longer
  <1>4. /\ q.nodes \in Seq(Memories) /\ q.edges \in Seq(Edge)
        /\ Len(q.nodes) = k + 2 /\ Len(q.edges) = k + 1
    BY <1>1, <1>2, <1>3
  <1>5. /\ \A i \in 1 .. k + 1 : q.nodes[i] = p.nodes[i]
        /\ q.nodes[k + 2] = e.to
    BY <1>1, <1>2, <1>3
  <1>6. /\ \A i \in 1 .. k : q.edges[i] = p.edges[i]
        /\ q.edges[k + 1] = e
    BY <1>1, <1>2, <1>3
  <1>7. q \in PathRecord
    BY <1>3, <1>4 DEF PathRecord
  <1> HIDE DEF q
  <1>8. q.nodes[1] \in Baseline
    <2>1. 1 \in 1 .. k + 1
      OBVIOUS
    <2> QED
      BY <1>5, <2>1 DEF IsPath
  <1>9. ASSUME NEW i \in 1 .. k + 1
        PROVE  /\ q.edges[i] \in DependencyGraph
               /\ q.edges[i].from = q.nodes[i] /\ q.edges[i].to = q.nodes[i + 1]
    <2>1. CASE i = k + 1
      <3>1. q.edges[i] = e /\ q.nodes[i] = p.nodes[k + 1] /\ i + 1 = k + 2
        BY <1>5, <1>6, <2>1
      <3> QED
        BY <1>2, <1>5, <3>1
    <2>2. CASE i # k + 1
      <3>1. i \in 1 .. k /\ i \in 1 .. k + 1 /\ i + 1 \in 1 .. k + 1
        BY <2>2
      <3>2. q.edges[i] = p.edges[i] /\ q.nodes[i] = p.nodes[i] /\ q.nodes[i + 1] = p.nodes[i + 1]
        BY <1>5, <1>6, <3>1
      <3> QED
        BY <3>1, <3>2 DEF IsPath
    <2> QED
      BY <2>1, <2>2
  <1>10. ASSUME NEW i \in 1 .. k + 2, NEW j \in 1 .. k + 2, i # j
         PROVE  q.nodes[i] # q.nodes[j]
    <2>1. CASE i = k + 2
      <3>1. j \in 1 .. k + 1
        BY <1>10, <2>1
      <3> QED
        BY <1>2, <1>5, <2>1, <3>1
    <2>2. CASE j = k + 2
      <3>1. i \in 1 .. k + 1
        BY <1>10, <2>2
      <3> QED
        BY <1>2, <1>5, <2>2, <3>1
    <2>3. CASE i # k + 2 /\ j # k + 2
      <3>1. i \in 1 .. k + 1 /\ j \in 1 .. k + 1
        BY <2>3
      <3>2. p.nodes[i] # p.nodes[j]
        BY <1>10, <3>1 DEF IsPath
      <3> QED
        BY <1>5, <3>1, <3>2
    <2> QED
      BY <2>1, <2>2, <2>3
  <1>11. IsPath(q, k + 1)
    <2>1. k + 1 + 1 = k + 2
      OBVIOUS
    <2> QED
      BY <1>4, <1>7, <1>8, <1>9, <1>10, <2>1 DEF IsPath
  <1> QED
    BY <1>5, <1>6, <1>11 DEF q

\* Every simple path is one.
LEMMA SimplePathsArePaths ==
  ASSUME input \in Inputs, GraphResolves, NEW k \in 0 .. 33, NEW p \in SimplePaths[k]
  PROVE  IsPath(p, k)
  <1> DEFINE T == {n \in Nat : n \in 0 .. 33 => \A r \in SimplePaths[n] : IsPath(r, n)}
  <1>1. 0 \in T
    <2> SUFFICES ASSUME NEW r \in SimplePaths[0] PROVE IsPath(r, 0)
      OBVIOUS
    <2>1. PICK m \in Baseline : r = [nodes |-> <<m>>, edges |-> <<>>]
      BY SimplePathsAre
    <2>2. r \in PathRecord
      <3>1. 0 \in 0 .. 33
        OBVIOUS
      <3> QED
        BY <3>1, SimplePathsAre
    <2>3. r.nodes = <<m>> /\ r.edges = <<>> /\ Len(<<m>>) = 1 /\ <<m>>[1] = m
      BY <2>1
    <2> QED
      BY <2>2, <2>3 DEF IsPath
  <1>2. \A n \in Nat : n \in T => n + 1 \in T
    <2> SUFFICES ASSUME NEW n \in Nat, n \in T, n + 1 \in 0 .. 33, NEW r \in SimplePaths[n + 1]
                 PROVE  IsPath(r, n + 1)
      OBVIOUS
    <2>1. n \in 0 .. 32 /\ n \in 0 .. 33
      OBVIOUS
    <2>2. PICK s \in SimplePaths[n] : \E e \in GoesOn(s, n) : r = Longer(s, e)
      BY <2>1, SimplePathsAre DEF LongerPaths
    <2>3. PICK e \in GoesOn(s, n) : r = Longer(s, e)
      BY <2>2
    <2>4. IsPath(s, n)
      BY <2>1
    <2> QED
      BY <2>3, <2>4, LongerIs
  <1>3. Nat \subseteq T
    <2> HIDE DEF T
    <2> QED
      BY <1>1, <1>2, Induct
  <1> QED
    BY <1>3

\* Sequences of one length with the same elements are equal.
LEMMA SameSequence ==
  ASSUME NEW S, NEW s \in Seq(S), NEW t \in Seq(S), NEW n \in Nat, Len(s) = n, Len(t) = n,
         \A i \in 1 .. n : s[i] = t[i]
  PROVE  s = t
  BY SeqEqual

\* A path is known by where it begins and the dependencies it takes.
LEMMA SamePath ==
  ASSUME NEW k \in Nat, NEW p, NEW q, IsPath(p, k), IsPath(q, k),
         p.nodes[1] = q.nodes[1], \A i \in 1 .. k : p.edges[i] = q.edges[i]
  PROVE  p = q
  <1>1. /\ p.nodes \in Seq(Memories) /\ p.edges \in Seq(Edge)
        /\ Len(p.nodes) = k + 1 /\ Len(p.edges) = k
        /\ q.nodes \in Seq(Memories) /\ q.edges \in Seq(Edge)
        /\ Len(q.nodes) = k + 1 /\ Len(q.edges) = k
        /\ p = [nodes |-> p.nodes, edges |-> p.edges]
        /\ q = [nodes |-> q.nodes, edges |-> q.edges]
    BY DEF IsPath, PathRecord
  <1>2. ASSUME NEW i \in 1 .. k + 1 PROVE p.nodes[i] = q.nodes[i]
    <2>1. CASE i = 1
      BY <2>1
    <2>2. CASE i # 1
      <3>1. i - 1 \in 1 .. k /\ (i - 1) + 1 = i
        BY <2>2
      <3>2. p.edges[i - 1].to = p.nodes[i]
        <4>1. \A j \in 1 .. k : p.edges[j].to = p.nodes[j + 1]
          BY DEF IsPath
        <4> QED
          BY <3>1, <4>1
      <3>3. q.edges[i - 1].to = q.nodes[i]
        <4>1. \A j \in 1 .. k : q.edges[j].to = q.nodes[j + 1]
          BY DEF IsPath
        <4> QED
          BY <3>1, <4>1
      <3>4. p.edges[i - 1] = q.edges[i - 1]
        BY <3>1
      <3> QED
        BY <3>2, <3>3, <3>4
    <2> QED
      BY <2>1, <2>2
  <1>3. p.edges = q.edges
    <2>1. Len(p.edges) = k /\ Len(q.edges) = k /\ p.edges \in Seq(Edge) /\ q.edges \in Seq(Edge)
      BY <1>1
    <2> QED
      BY <2>1, SameSequence
  <1>4. p.nodes = q.nodes
    <2>1. /\ Len(p.nodes) = k + 1 /\ Len(q.nodes) = k + 1
          /\ p.nodes \in Seq(Memories) /\ q.nodes \in Seq(Memories)
      BY <1>1
    <2>2. k + 1 \in Nat
      OBVIOUS
    <2> QED
      BY <1>2, <2>1, <2>2, SameSequence
  <1> QED
    BY <1>1, <1>3, <1>4

\* There are finitely many of them.
LEMMA SimplePathsFinite ==
  ASSUME input \in Inputs, GraphResolves
  PROVE  \A k \in 0 .. 33 : IsFiniteSet(SimplePaths[k])
  <1> DEFINE T == {n \in Nat : n \in 0 .. 33 => IsFiniteSet(SimplePaths[n])}
  <1>0. IsFiniteSet(DependencyGraph)
    <2> DEFINE edge == [m \in Dependencies |->
                          [from |-> Resolve(LinkOf(m).from), to |-> Resolve(LinkOf(m).to),
                           by |-> m]]
    <2>1. IsFiniteSet(Dependencies)
      <3>1. Dependencies \subseteq Memories
        BY DEF Dependencies, Active
      <3> QED
        BY <3>1, FS_Subset, ConstantsAssumption
    <2>2. edge \in Surjection(Dependencies, DependencyGraph)
      BY DEF Surjection, DependencyGraph
    <2> HIDE DEF edge
    <2> QED
      BY <2>1, <2>2, FS_Surjection
  <1>1. 0 \in T
    <2> DEFINE path == [m \in Baseline |-> [nodes |-> <<m>>, edges |-> <<>>]]
    <2>1. IsFiniteSet(Baseline)
      <3>1. Baseline \subseteq Memories
        BY DEF Baseline
      <3> QED
        BY <3>1, FS_Subset, ConstantsAssumption
    <2>2. path \in Surjection(Baseline, SimplePaths[0])
      <3>1. SimplePaths[0] = {[nodes |-> <<m>>, edges |-> <<>>] : m \in Baseline}
        BY SimplePathsAre
      <3> QED
        BY <3>1 DEF Surjection
    <2>3. IsFiniteSet(SimplePaths[0])
      <3> HIDE DEF path
      <3> QED
        BY <2>1, <2>2, FS_Surjection
    <2> QED
      BY <2>3
  <1>2. \A n \in Nat : n \in T => n + 1 \in T
    <2> SUFFICES ASSUME NEW n \in Nat, n \in T, n + 1 \in 0 .. 33
                 PROVE  IsFiniteSet(SimplePaths[n + 1])
      OBVIOUS
    <2> DEFINE pairs == SimplePaths[n] \X DependencyGraph
               path == [x \in pairs |-> Longer(x[1], x[2])]
               all == {path[x] : x \in pairs}
    <2>1. n \in 0 .. 32 /\ IsFiniteSet(SimplePaths[n])
      OBVIOUS
    <2>2. IsFiniteSet(pairs)
      BY <1>0, <2>1, FS_Product
    <2>3. path \in Surjection(pairs, all)
      <3> HIDE DEF pairs
      <3> QED
        BY DEF Surjection
    <2>4. IsFiniteSet(all)
      <3> HIDE DEF pairs, path, all
      <3> QED
        BY <2>2, <2>3, FS_Surjection
    <2>5. SimplePaths[n + 1] \subseteq all
      <3> SUFFICES ASSUME NEW r \in SimplePaths[n + 1] PROVE r \in all
        OBVIOUS
      <3>1. SimplePaths[n + 1] = LongerPaths(SimplePaths[n], n)
        BY <2>1, SimplePathsAre
      <3>2. PICK s \in SimplePaths[n] : \E e \in GoesOn(s, n) : r = Longer(s, e)
        BY <3>1 DEF LongerPaths
      <3>3. PICK e \in GoesOn(s, n) : r = Longer(s, e)
        BY <3>2
      <3>4. e \in DependencyGraph
        BY <3>3 DEF GoesOn
      <3>5. <<s, e>> \in pairs /\ <<s, e>>[1] = s /\ <<s, e>>[2] = e
        BY <3>4
      <3>6. path[<<s, e>>] = r
        BY <3>3, <3>5
      <3> HIDE DEF pairs, path
      <3> QED
        BY <3>5, <3>6
    <2> HIDE DEF all
    <2> QED
      BY <2>4, <2>5, FS_Subset
  <1>3. Nat \subseteq T
    <2> HIDE DEF T
    <2> QED
      BY <1>1, <1>2, Induct
  <1> QED
    BY <1>3

-----------------------------------------------------------------------------
(* The search over the simple paths.                                       *)

\* With its i-th dependency, p leaves the path q on the stack s, by one that is left.
Branches(p, q, s, i) ==
  /\ i <= Len(p.edges) /\ p.edges[i] \in s[i].left
  /\ \A j \in 1 .. i - 1 : p.edges[j] = q.edges[j]

\* The path p has not been walked yet; R are the direct selections that are left.
Ahead(p, q, s, R) ==
  /\ p.nodes[1] \in R
  /\ \/ s = <<>>
     \/ p.nodes[1] # s[1].node
     \/ \E i \in 1 .. Len(s) : Branches(p, q, s, i)

\* q is the path on the stack s.
OnStack(q, s) ==
  /\ q \in SimplePaths[Len(s) - 1]
  /\ \A i \in 1 .. Len(s) : /\ s[i].node = q.nodes[i]
                            /\ s[i].left \subseteq EdgesFrom(DependencyGraph, q.nodes[i])
  /\ \A i \in 1 .. Len(s) - 1 : q.edges[i] \notin s[i].left

\* The paths that may be walked.
Short == UNION {SimplePaths[k] : k \in 1 .. policy.max_depth}

\* Those that have been walked.
Walked(q, s, R) == {p \in Short : ~ Ahead(p, q, s, R)}

\* The n paths that have been walked are not too long, and every other one is ahead.
WalkFits(q, s, R, n) ==
  /\ s # <<>> => OnStack(q, s) /\ s[1].node \in R
  /\ Len(s) <= policy.max_depth + 1
  /\ \A p \in SimplePaths[policy.max_depth + 1] : Ahead(p, q, s, R)
  /\ n = Cardinality(Walked(q, s, R))

\* The path search where a cycle is tolerated.
SimpleInv ==
  /\ roots \subseteq Baseline
  /\ \A m \in Memories : memo[m] = Unknown
  /\ \E q : WalkFits(q, stack, roots, steps)

\* What the path search has found out so far.
PathInv == IF policy.fail_on_cycle THEN AcyclicInv ELSE SimpleInv

\* What the path search has found out, and why a call has failed.
SearchInv ==
  /\ phase \in {"select", "resolve"} =>
       stack = <<>> /\ steps = 0 /\ \A m \in Memories : memo[m] = Unknown
  /\ phase = "validate" => PathInv
  /\ phase \in {"expand", "done"} => PathsWithin(policy.max_depth)
  /\ phase = "failed" => ~ Plannable

\* Two paths begin with the same n dependencies.
SameEdges(p, q, n) ==
  p.nodes[1] = q.nodes[1] /\ \A j \in 1 .. n : p.edges[j] = q.edges[j]

\* The path r is q with one dependency, the n-th, more.
OneLonger(r, q, e, n) ==
  /\ Len(r.edges) = n /\ r.edges[n] = e /\ r.nodes[1] = q.nodes[1]
  /\ \A i \in 1 .. n - 1 : r.edges[i] = q.edges[i]

\* Paths that begin with the same dependencies visit the same memories.
LEMMA SameBeginning ==
  ASSUME NEW k \in Nat, NEW p, IsPath(p, k), NEW n \in Nat, NEW q, IsPath(q, n),
         n <= k, SameEdges(p, q, n)
  PROVE  \A j \in 1 .. n + 1 : p.nodes[j] = q.nodes[j]
  <1> SUFFICES ASSUME NEW j \in 1 .. n + 1 PROVE p.nodes[j] = q.nodes[j]
    OBVIOUS
  <1>1. CASE j = 1
    BY <1>1 DEF SameEdges
  <1>2. CASE j # 1
    <2>1. j - 1 \in 1 .. n /\ (j - 1) + 1 = j /\ j - 1 \in 1 .. k
      BY <1>2
    <2>2. \A i \in 1 .. k : p.edges[i].to = p.nodes[i + 1]
      BY DEF IsPath
    <2>3. \A i \in 1 .. n : q.edges[i].to = q.nodes[i + 1]
      BY DEF IsPath
    <2>4. p.edges[j - 1] = q.edges[j - 1]
      BY <2>1 DEF SameEdges
    <2>5. p.edges[j - 1].to = p.nodes[j] /\ q.edges[j - 1].to = q.nodes[j]
      BY <2>1, <2>2, <2>3
    <2> QED
      BY <2>4, <2>5
  <1> QED
    BY <1>1, <1>2

\* The path on a stack of L frames has L memories.
LEMMA OnStackIs ==
  ASSUME input \in Inputs, GraphResolves, NEW L \in 1 .. 33, NEW s, Len(s) = L,
         NEW q, OnStack(q, s)
  PROVE  IsPath(q, L - 1) /\ Len(q.edges) = L - 1 /\ Len(q.nodes) = L
  <1> DEFINE n == L - 1
  <1>1. n \in 0 .. 33 /\ n + 1 = L /\ q \in SimplePaths[n]
    BY DEF OnStack
  <1> HIDE DEF n
  <1>2. IsPath(q, n)
    BY <1>1, SimplePathsArePaths
  <1>3. Len(q.edges) = n /\ Len(q.nodes) = L
    BY <1>1, <1>2 DEF IsPath
  <1> QED
    BY <1>2, <1>3 DEF n

\* The path on the stack, and one dependency more.
LEMMA LongerOnStack ==
  ASSUME input \in Inputs, GraphResolves, NEW L \in 1 .. 33, NEW s, Len(s) = L,
         NEW q, OnStack(q, s), NEW e
  PROVE  OneLonger(Longer(q, e), q, e, L)
  <1>1. IsPath(q, L - 1) /\ Len(q.edges) = L - 1 /\ Len(q.nodes) = L
    BY OnStackIs
  <1>2. q.nodes \in Seq(Memories) /\ q.edges \in Seq(Edge)
    BY <1>1 DEF IsPath, PathRecord
  <1> QED
    BY <1>1, <1>2 DEF Longer, OneLonger

\* What begins with a direct selection is ahead when that has just been entered.
LEMMA EnteredAhead ==
  ASSUME input \in Inputs, GraphResolves, NEW k \in 1 .. 33, NEW p \in SimplePaths[k],
         NEW R, NEW f, f.left = EdgesFrom(DependencyGraph, f.node), NEW q
  PROVE  Ahead(p, q, <<f>>, R) <=> p.nodes[1] \in R
  <1>1. Len(<<f>>) = 1 /\ <<f>>[1] = f /\ <<f>> # <<>>
    OBVIOUS
  <1>2. ASSUME p.nodes[1] = f.node PROVE Branches(p, q, <<f>>, 1)
    <2>1. 1 \in 1 .. k /\ k \in 0 .. 33
      OBVIOUS
    <2>2. IsPath(p, k)
      BY <2>1, SimplePathsArePaths
    <2>3. Len(p.edges) = k /\ p.edges[1] \in DependencyGraph /\ p.edges[1].from = p.nodes[1]
      BY <2>1, <2>2 DEF IsPath
    <2>4. p.edges[1] \in f.left
      BY <1>2, <2>3 DEF EdgesFrom
    <2> QED
      BY <1>1, <2>1, <2>3, <2>4 DEF Branches
  <1> QED
    BY <1>1, <1>2 DEF Ahead

\* A dependency that leads back to the path on the stack begins no path.
LEMMA RevisitAhead ==
  ASSUME input \in Inputs, GraphResolves, NEW k \in 1 .. 33, NEW p \in SimplePaths[k],
         NEW R, NEW q, NEW s, NEW t, NEW L \in 1 .. 33, NEW e,
         Len(s) = L, Len(t) = L, s # <<>>, t # <<>>, OnStack(q, s),
         NEW o \in 1 .. L, e.to = q.nodes[o],
         \A i \in 1 .. L - 1 : t[i] = s[i],
         t[L].node = s[L].node, t[L].left = s[L].left \ {e}
  PROVE  Ahead(p, q, t, R) <=> Ahead(p, q, s, R)
  <1>1. s[1].node = t[1].node
    OBVIOUS
  <1>2. ASSUME NEW i \in 1 .. L, p.nodes[1] = s[1].node
        PROVE  Branches(p, q, t, i) <=> Branches(p, q, s, i)
    <2>1. CASE i # L
      <3>1. t[i] = s[i]
        BY <2>1
      <3> QED
        BY <3>1 DEF Branches
    <2>2. CASE i = L
      <3>1. ASSUME Branches(p, q, s, L), p.edges[L] = e PROVE FALSE
        <4>1. k \in 0 .. 33 /\ k \in Nat /\ L - 1 \in Nat /\ (L - 1) + 1 = L
          OBVIOUS
        <4>2. IsPath(p, k) /\ IsPath(q, L - 1)
          BY <4>1, SimplePathsArePaths, OnStackIs
        <4>3. Len(p.edges) = k
          BY <4>2 DEF IsPath
        <4>4. L \in 1 .. k /\ L - 1 <= k /\ o \in 1 .. k + 1 /\ L + 1 \in 1 .. k + 1 /\ o # L + 1
          BY <3>1, <4>3 DEF Branches
        <4>5. p.nodes[1] = q.nodes[1] /\ \A j \in 1 .. L - 1 : p.edges[j] = q.edges[j]
          BY <1>2, <3>1 DEF Branches, OnStack
        <4>6. \A j \in 1 .. L : p.nodes[j] = q.nodes[j]
          <5> DEFINE n == L - 1
          <5>1. n \in Nat /\ n <= k /\ IsPath(q, n) /\ n + 1 = L /\ SameEdges(p, q, n)
            BY <4>1, <4>2, <4>4, <4>5 DEF SameEdges
          <5> HIDE DEF n
          <5>2. \A j \in 1 .. n + 1 : p.nodes[j] = q.nodes[j]
            BY <4>1, <4>2, <5>1, SameBeginning
          <5> QED
            BY <5>1, <5>2
        <4>7. p.nodes[o] = e.to
          BY <4>6
        <4>8. p.nodes[L + 1] = e.to
          <5>1. \A j \in 1 .. k : p.edges[j].to = p.nodes[j + 1]
            BY <4>2 DEF IsPath
          <5> QED
            BY <3>1, <4>4, <5>1
        <4>9. p.nodes[o] # p.nodes[L + 1]
          <5>1. \A j, l \in 1 .. k + 1 : j # l => p.nodes[j] # p.nodes[l]
            BY <4>2 DEF IsPath
          <5> QED
            BY <4>4, <5>1
        <4> QED
          BY <4>7, <4>8, <4>9
      <3> QED
        BY <2>2, <3>1 DEF Branches
    <2> QED
      BY <2>1, <2>2
  <1> QED
    BY <1>1, <1>2 DEF Ahead

\* When a dependency of the path on the stack is followed, only the path it leads to is
\* no longer ahead.
LEMMA PushAhead ==
  ASSUME input \in Inputs, GraphResolves, NEW k \in 1 .. 33, NEW p \in SimplePaths[k],
         NEW R, NEW q, NEW s, NEW t, NEW L \in 1 .. 33, NEW e,
         Len(s) = L, Len(t) = L + 1, s # <<>>, t # <<>>, OnStack(q, s),
         \A i \in 1 .. L - 1 : t[i] = s[i],
         e \in s[L].left, t[L].node = s[L].node, t[L].left = s[L].left \ {e},
         t[L + 1].left = EdgesFrom(DependencyGraph, e.to), s[1].node \in R,
         NEW r \in SimplePaths[L], OneLonger(r, q, e, L)
  PROVE  Ahead(p, r, t, R) <=> Ahead(p, q, s, R) /\ p # r
  <1>1. /\ s[1].node = t[1].node /\ L \in 0 .. 33 /\ L - 1 \in 0 .. 33 /\ k \in 0 .. 33
        /\ L \in Nat
    OBVIOUS
  <1>0. IsPath(p, k) /\ Len(p.edges) = k
    <2>1. IsPath(p, k)
      BY <1>1, SimplePathsArePaths
    <2> QED
      BY <2>1 DEF IsPath
  <1>2. q \in SimplePaths[L - 1] /\ s[1].node = q.nodes[1]
        /\ \A i \in 1 .. L - 1 : q.edges[i] \notin s[i].left
    BY DEF OnStack
  <1>3. /\ Len(r.edges) = L /\ r.edges[L] = e /\ r.nodes[1] = q.nodes[1]
        /\ \A i \in 1 .. L - 1 : r.edges[i] = q.edges[i]
    BY DEF OneLonger
  <1>4. ASSUME NEW i \in 1 .. L - 1 PROVE Branches(p, r, t, i) <=> Branches(p, q, s, i)
    <2>1. t[i] = s[i] /\ \A j \in 1 .. i - 1 : r.edges[j] = q.edges[j]
      BY <1>3
    <2> QED
      BY <2>1 DEF Branches
  <1>5. (\E i \in 1 .. L : Branches(p, q, s, i)) <=>
          (\E i \in 1 .. L - 1 : Branches(p, q, s, i)) \/ Branches(p, q, s, L)
    <2>1. \A i \in 1 .. L : i \in 1 .. L - 1 \/ i = L
      OBVIOUS
    <2>2. L \in 1 .. L /\ \A i \in 1 .. L - 1 : i \in 1 .. L
      OBVIOUS
    <2> QED
      BY <2>1, <2>2
  <1>6. (\E i \in 1 .. L + 1 : Branches(p, r, t, i)) <=>
          \/ \E i \in 1 .. L - 1 : Branches(p, q, s, i)
          \/ Branches(p, r, t, L) \/ Branches(p, r, t, L + 1)
    <2>1. \A i \in 1 .. L + 1 : i \in 1 .. L - 1 \/ i = L \/ i = L + 1
      OBVIOUS
    <2>2. L \in 1 .. L + 1 /\ L + 1 \in 1 .. L + 1 /\ \A i \in 1 .. L - 1 : i \in 1 .. L + 1
      OBVIOUS
    <2> QED
      BY <1>4, <2>1, <2>2
  <1>7. Branches(p, r, t, L) \/ Branches(p, r, t, L + 1) => Branches(p, q, s, L)
    <2>1. ASSUME Branches(p, r, t, L) PROVE Branches(p, q, s, L)
      BY <1>3, <2>1 DEF Branches
    <2>2. ASSUME Branches(p, r, t, L + 1) PROVE Branches(p, q, s, L)
      <3>1. \A j \in 1 .. L : p.edges[j] = r.edges[j]
        BY <1>1, <2>2 DEF Branches
      <3>2. Len(p.edges) = k
        BY <1>0
      <3>3. L + 1 <= Len(p.edges)
        BY <2>2 DEF Branches
      <3>4. p.edges[L] = e /\ \A j \in 1 .. L - 1 : p.edges[j] = q.edges[j]
        BY <1>3, <3>1
      <3> QED
        BY <3>2, <3>3, <3>4 DEF Branches
    <2> QED
      BY <2>1, <2>2
  <1>8. ASSUME Branches(p, q, s, L), p.nodes[1] = s[1].node, p # r
        PROVE  Branches(p, r, t, L) \/ Branches(p, r, t, L + 1)
    <2>1. /\ L <= Len(p.edges) /\ p.edges[L] \in s[L].left
          /\ \A j \in 1 .. L - 1 : p.edges[j] = q.edges[j]
      BY <1>8 DEF Branches
    <2>2. CASE p.edges[L] # e
      BY <1>3, <2>1, <2>2 DEF Branches
    <2>3. CASE p.edges[L] = e
      <3>1. \A j \in 1 .. L : p.edges[j] = r.edges[j]
        <4>1. \A j \in 1 .. L : j \in 1 .. L - 1 \/ j = L
          OBVIOUS
        <4> QED
          BY <1>3, <2>1, <2>3, <4>1
      <3>2. Len(p.edges) = k /\ k >= L
        BY <1>0, <2>1
      <3>3. k # L
        <4> SUFFICES ASSUME k = L PROVE FALSE
          OBVIOUS
        <4>2. IsPath(p, L) /\ IsPath(r, L)
          BY <1>1, SimplePathsArePaths
        <4> QED
          BY <1>1, <1>2, <1>3, <1>8, <3>1, <4>2, SamePath
      <3>4. L + 1 \in 1 .. k /\ L \in 1 .. k
        BY <3>2, <3>3
      <3>5. p.edges[L + 1].from = p.nodes[L + 1] /\ p.edges[L + 1] \in DependencyGraph
        <4>1. \A j \in 1 .. k : p.edges[j].from = p.nodes[j] /\ p.edges[j] \in DependencyGraph
          BY <1>0 DEF IsPath
        <4> QED
          BY <3>4, <4>1
      <3>6. p.nodes[L + 1] = e.to
        <4>1. \A j \in 1 .. k : p.edges[j].to = p.nodes[j + 1]
          BY <1>0 DEF IsPath
        <4> QED
          BY <2>3, <3>4, <4>1
      <3>7. p.edges[L + 1] \in t[L + 1].left
        BY <3>5, <3>6 DEF EdgesFrom
      <3>8. (L + 1) - 1 = L /\ L + 1 <= Len(p.edges)
        BY <3>2, <3>4
      <3> QED
        BY <3>1, <3>7, <3>8 DEF Branches
    <2> QED
      BY <2>2, <2>3
  <1>9. ~ Ahead(r, r, t, R)
    <2>1. ~ Branches(r, r, t, L) /\ ~ Branches(r, r, t, L + 1)
      BY <1>3 DEF Branches
    <2>2. \A i \in 1 .. L - 1 : ~ Branches(r, r, t, i)
      BY <1>2, <1>3 DEF Branches
    <2>3. \A i \in 1 .. L + 1 : i \in 1 .. L - 1 \/ i = L \/ i = L + 1
      OBVIOUS
    <2>4. \A i \in 1 .. L + 1 : ~ Branches(r, r, t, i)
      BY <2>1, <2>2, <2>3
    <2> QED
      BY <1>1, <1>2, <1>3, <2>4 DEF Ahead
  <1>10. ASSUME p # r PROVE Ahead(p, r, t, R) <=> Ahead(p, q, s, R)
    BY <1>1, <1>5, <1>6, <1>7, <1>8, <1>10 DEF Ahead
  <1> QED
    BY <1>9, <1>10

\* The path that a dependency leads to is ahead until it is followed.
LEMMA NextIsAhead ==
  ASSUME input \in Inputs, GraphResolves, NEW R, NEW q, NEW s, NEW L \in 1 .. 33, NEW e,
         Len(s) = L, s # <<>>, OnStack(q, s), e \in s[L].left, s[1].node \in R,
         NEW r, OneLonger(r, q, e, L)
  PROVE  Ahead(r, q, s, R)
  <1>1. L \in 1 .. L
    OBVIOUS
  <1>2. s[1].node = q.nodes[1]
    BY DEF OnStack
  <1>3. /\ Len(r.edges) = L /\ r.edges[L] = e /\ r.nodes[1] = q.nodes[1]
        /\ \A i \in 1 .. L - 1 : r.edges[i] = q.edges[i]
    BY DEF OneLonger
  <1>4. Branches(r, q, s, L)
    BY <1>3 DEF Branches
  <1> QED
    BY <1>1, <1>2, <1>3, <1>4 DEF Ahead

\* When a memory that has no dependency left is left, the same paths are ahead.
LEMMA LeftAhead ==
  ASSUME NEW p, NEW R, NEW q, NEW r, NEW s, NEW t, NEW L \in 2 .. 33,
         Len(s) = L, Len(t) = L - 1, s # <<>>, t # <<>>, s[L].left = {},
         \A i \in 1 .. L - 1 : t[i] = s[i], \A i \in 1 .. L - 2 : r.edges[i] = q.edges[i]
  PROVE  Ahead(p, r, t, R) <=> Ahead(p, q, s, R)
  <1>1. \A i \in 1 .. L - 1 : Branches(p, r, t, i) <=> Branches(p, q, s, i)
    <2> SUFFICES ASSUME NEW i \in 1 .. L - 1
                 PROVE  Branches(p, r, t, i) <=> Branches(p, q, s, i)
      OBVIOUS
    <2>1. t[i] = s[i] /\ \A j \in 1 .. i - 1 : r.edges[j] = q.edges[j]
      OBVIOUS
    <2> QED
      BY <2>1 DEF Branches
  <1>2. ~ Branches(p, q, s, L)
    BY DEF Branches
  <1>3. \A i \in 1 .. L : i \in 1 .. L - 1 \/ i = L
    OBVIOUS
  <1>4. 1 \in 1 .. L - 1 /\ \A i \in 1 .. L - 1 : i \in 1 .. L
    OBVIOUS
  <1> QED
    BY <1>1, <1>2, <1>3, <1>4 DEF Ahead

\* When a direct selection is left, what is ahead begins with another one.
LEMMA RootLeftAhead ==
  ASSUME NEW p, NEW R, NEW q, NEW r, NEW s, Len(s) = 1, s # <<>>, s[1].left = {}
  PROVE  Ahead(p, r, <<>>, R \ {s[1].node}) <=> Ahead(p, q, s, R)
  <1>1. \A i \in 1 .. Len(s) : i = 1
    OBVIOUS
  <1>2. ~ Branches(p, q, s, 1)
    BY DEF Branches
  <1> QED
    BY <1>1, <1>2 DEF Ahead

\* SimplePaths, of a graph and the direct selections.
SimplePathsOf(base, g) ==
  LET paths[k \in 0 .. 33] ==
        IF k = 0 THEN {[nodes |-> <<m>>, edges |-> <<>>] : m \in base}
        ELSE LET shorter == paths[k - 1] IN
             UNION {{[nodes |-> Append(p.nodes, e.to), edges |-> Append(p.edges, e)] :
                       e \in {x \in g : /\ x.from = p.nodes[k]
                                        /\ \A i \in 1 .. k : p.nodes[i] # x.to}} :
                      p \in shorter}
  IN  paths

\* What has been walked depends on the input alone, but for the search's own state.
LEMMA FrozenPaths ==
  ASSUME input' = input
  PROVE  /\ SimplePaths' = SimplePaths /\ Short' = Short
         /\ \A q, s, R, n : WalkFits(q, s, R, n)' <=> WalkFits(q, s, R, n)
  <1>1. SimplePaths = SimplePathsOf(Baseline, DependencyGraph)
    BY DEF SimplePaths, SimplePathsOf
  <1>2. (SimplePaths = SimplePathsOf(Baseline, DependencyGraph))'
    BY DEF SimplePaths, SimplePathsOf
  <1>3. SimplePaths' = SimplePaths
    BY <1>1, <1>2, Frozen
  <1>4. policy' = policy /\ DependencyGraph' = DependencyGraph
    BY Frozen
  <1>5. Short' = Short
    BY <1>3, <1>4 DEF Short
  <1>6. \A q, s : OnStack(q, s)' <=> OnStack(q, s)
    BY <1>3, <1>4 DEF OnStack, EdgesFrom
  <1>7. \A q, s, R : Walked(q, s, R)' = Walked(q, s, R)
    BY <1>5 DEF Walked, Ahead, Branches
  <1>8. \A q, s, R, n : WalkFits(q, s, R, n)' <=> WalkFits(q, s, R, n)
    BY <1>3, <1>4, <1>6, <1>7 DEF WalkFits, Ahead, Branches
  <1> QED
    BY <1>3, <1>5, <1>8

\* The paths that may be walked are finitely many, and within the lengths there are.
LEMMA ShortFacts ==
  ASSUME Context, GraphInv
  PROVE  /\ IsFiniteSet(Short)
         /\ \A p \in Short : \E k \in 1 .. 33 : p \in SimplePaths[k]
         /\ \A k \in 1 .. policy.max_depth : SimplePaths[k] \subseteq Short
  <1> DEFINE d == policy.max_depth
             levels == {SimplePaths[k] : k \in 1 .. d}
             level == [k \in 1 .. d |-> SimplePaths[k]]
  <1>1. d \in 0 .. 32
    BY LimitType
  <1> HIDE DEF d
  <1>2. \A k \in 1 .. d : k \in 1 .. 33 /\ k \in 0 .. 33
    BY <1>1
  <1>3. level \in Surjection(1 .. d, levels)
    BY DEF Surjection
  <1>4. IsFiniteSet(1 .. d)
    BY <1>1, FS_Interval
  <1>5. IsFiniteSet(levels)
    <2> HIDE DEF level, levels
    <2> QED
      BY <1>3, <1>4, FS_Surjection
  <1>6. \A T \in levels : IsFiniteSet(T)
    BY <1>2, SimplePathsFinite DEF Context, GraphInv
  <1>7. Short = UNION levels
    BY DEF Short, d
  <1>8. IsFiniteSet(Short)
    <2> HIDE DEF levels
    <2> QED
      BY <1>5, <1>6, <1>7, FS_UNION
  <1> QED
    BY <1>2, <1>7, <1>8 DEF d

\* The lengths of the paths that may be walked, and the one that is too long.
LEMMA Lengths ==
  ASSUME Context
  PROVE  /\ policy.max_depth + 1 \in 1 .. 33 /\ policy.max_depth + 1 \in 0 .. 33
         /\ policy.max_depth \in Nat /\ policy.max_depth + 1 \in Nat
         /\ \A L \in 1 .. policy.max_depth :
              L \in 1 .. 33 /\ L \in 0 .. 33 /\ L \in Nat /\ L # policy.max_depth + 1
              /\ L + 1 <= policy.max_depth + 1
  <1>1. policy.max_depth \in 0 .. 32
    BY LimitType
  <1> QED
    BY <1>1

\* A step after which the same paths are ahead walks none.
LEMMA WalkStays ==
  ASSUME Context, GraphInv, NEW q, NEW s, NEW R, NEW n, WalkFits(q, s, R, n),
         NEW r, NEW t, NEW T,
         t # <<>> => OnStack(r, t) /\ t[1].node \in T,
         Len(t) <= policy.max_depth + 1,
         \A k \in 1 .. 33 : \A p \in SimplePaths[k] : Ahead(p, r, t, T) <=> Ahead(p, q, s, R)
  PROVE  WalkFits(r, t, T, n)
  <1>1. \A p \in Short : Ahead(p, r, t, T) <=> Ahead(p, q, s, R)
    BY ShortFacts
  <1>2. Walked(r, t, T) = Walked(q, s, R)
    BY <1>1 DEF Walked
  <1>3. policy.max_depth + 1 \in 1 .. 33
    BY Lengths
  <1>4. \A p \in SimplePaths[policy.max_depth + 1] : Ahead(p, r, t, T)
    BY <1>3 DEF WalkFits
  <1> QED
    BY <1>2, <1>4 DEF WalkFits

\* A step after which one path that may be walked is no longer ahead has walked it.
LEMMA WalkGrows ==
  ASSUME Context, GraphInv, NEW q, NEW s, NEW R, NEW n, WalkFits(q, s, R, n),
         NEW L \in 1 .. policy.max_depth, NEW r \in SimplePaths[L], NEW t, NEW T,
         OnStack(r, t), t[1].node \in T, Len(t) = L + 1, Ahead(r, q, s, R),
         \A k \in 1 .. 33 : \A p \in SimplePaths[k] :
           Ahead(p, r, t, T) <=> Ahead(p, q, s, R) /\ p # r
  PROVE  WalkFits(r, t, T, n + 1)
  <1> DEFINE d == policy.max_depth
  <1>1. /\ d + 1 \in 1 .. 33 /\ d + 1 \in 0 .. 33 /\ L \in 0 .. 33 /\ L \in Nat
        /\ d + 1 \in Nat /\ L # d + 1 /\ L + 1 <= d + 1
    BY Lengths
  <1>2. \A p \in Short : Ahead(p, r, t, T) <=> Ahead(p, q, s, R) /\ p # r
    BY ShortFacts
  <1>3. r \in Short
    BY ShortFacts
  <1>4. Walked(r, t, T) = Walked(q, s, R) \cup {r} /\ r \notin Walked(q, s, R)
    BY <1>2, <1>3 DEF Walked
  <1>5. IsFiniteSet(Walked(q, s, R))
    <2>1. Walked(q, s, R) \subseteq Short
      BY DEF Walked
    <2> QED
      BY <2>1, ShortFacts, FS_Subset
  <1>6. Cardinality(Walked(r, t, T)) = n + 1
    <2>1. n = Cardinality(Walked(q, s, R))
      BY DEF WalkFits
    <2> QED
      BY <1>4, <1>5, <2>1, FS_AddElement
  <1>7. \A p \in SimplePaths[d + 1] : Ahead(p, r, t, T)
    <2> SUFFICES ASSUME NEW p \in SimplePaths[d + 1] PROVE Ahead(p, r, t, T)
      OBVIOUS
    <2>1. Ahead(p, q, s, R)
      BY DEF WalkFits
    <2> HIDE DEF d
    <2>2. IsPath(p, d + 1) /\ IsPath(r, L)
      BY <1>1, SimplePathsArePaths DEF Context, GraphInv
    <2>3. Len(p.edges) = d + 1 /\ Len(r.edges) = L
      BY <2>2 DEF IsPath
    <2> QED
      BY <1>1, <2>1, <2>3
  <1> QED
    BY <1>1, <1>6, <1>7 DEF WalkFits

\* The path on the stack, one memory after the other.
LEMMA WalkFacts ==
  ASSUME Context, GraphInv, NEW q, WalkFits(q, stack, roots, steps), stack # <<>>
  PROVE  /\ Len(stack) \in 1 .. 33 /\ Len(stack) - 1 \in 0 .. 32
         /\ Len(stack) <= policy.max_depth + 1
         /\ OnStack(q, stack) /\ stack[1].node \in roots /\ Top = stack[Len(stack)]
         /\ stack \in Seq(Frame) /\ DOMAIN stack = 1 .. Len(stack)
         /\ \A i \in 1 .. Len(stack) : stack[i] \in Frame /\ stack[i].node = q.nodes[i]
         /\ \A x \in Top.left : x \in DependencyGraph /\ x.from = q.nodes[Len(stack)]
         /\ \A m : OnPath(m) <=> \E i \in 1 .. Len(stack) : q.nodes[i] = m
  <1>1. stack \in Seq(Frame) /\ OnStack(q, stack) /\ stack[1].node \in roots
        /\ Len(stack) <= policy.max_depth + 1
    BY DEF Context, TypeOK, WalkFits
  <1>2. Len(stack) \in Nat \ {0} /\ DOMAIN stack = 1 .. Len(stack)
    BY <1>1
  <1>3. policy.max_depth \in 0 .. 32
    BY LimitType
  <1>4. Len(stack) \in 1 .. 33 /\ Len(stack) - 1 \in 0 .. 32
    <2>1. \A d \in 0 .. 32 : \A n \in Nat \ {0} : n <= d + 1 => n \in 1 .. 33 /\ n - 1 \in 0 .. 32
      OBVIOUS
    <2> QED
      BY <1>1, <1>2, <1>3, <2>1
  <1>5. Len(stack) \in 1 .. Len(stack)
    BY <1>2
  <1>6. \A i \in 1 .. Len(stack) : stack[i] \in Frame
    BY <1>1
  <1>7. \A i \in 1 .. Len(stack) : /\ stack[i].node = q.nodes[i]
                                   /\ stack[i].left \subseteq EdgesFrom(DependencyGraph, q.nodes[i])
    BY <1>1 DEF OnStack
  <1>8. Top = stack[Len(stack)]
    BY DEF Top
  <1>9. \A x \in Top.left : x \in DependencyGraph /\ x.from = q.nodes[Len(stack)]
    BY <1>5, <1>7, <1>8 DEF EdgesFrom
  <1>10. \A m : OnPath(m) <=> \E i \in 1 .. Len(stack) : q.nodes[i] = m
    BY <1>2, <1>7 DEF OnPath
  <1> QED
    BY <1>1, <1>2, <1>4, <1>6, <1>7, <1>8, <1>9, <1>10

\* A frame that is pushed.
LEMMA PushedFrame ==
  ASSUME Context, NEW e \in graph
  PROVE  [node |-> e.to, left |-> EdgesFrom(graph, e.to), longest |-> 0] \in Frame
  <1>1. graph \subseteq Edge /\ e \in Edge
    BY DEF Context, TypeOK
  <1>2. e.to \in Memories /\ EdgesFrom(graph, e.to) \subseteq Edge
    BY <1>1 DEF Edge, EdgesFrom
  <1> QED
    BY <1>2 DEF Frame

\* A direct selection is entered where a cycle is tolerated.
LEMMA SimpleEnter ==
  ASSUME Context, GraphInv, ~ policy.fail_on_cycle, SimpleInv, NEW r \in Memories, EnterRoot(r)
  PROVE  phase' # "failed" /\ SimpleInv'
  <1> DEFINE f == [node |-> r, left |-> EdgesFrom(graph, r), longest |-> 0]
             z == [nodes |-> <<r>>, edges |-> <<>>]
  <1>1. /\ phase = "validate" /\ stack = <<>> /\ r \in roots /\ r \in Baseline /\ memo[r] = Unknown
        /\ graph = DependencyGraph /\ GraphResolves /\ input \in Inputs
    BY DEF EnterRoot, SimpleInv, GraphInv, Context
  <1>2. /\ phase' = phase /\ stack' = <<f>> /\ input' = input /\ roots' = roots
        /\ memo' = memo /\ steps' = steps
    BY <1>1 DEF EnterRoot, Push
  <1>3. PICK q : WalkFits(q, <<>>, roots, steps)
    BY <1>1 DEF SimpleInv
  <1>4. f.node = r /\ f.left = EdgesFrom(DependencyGraph, f.node)
    BY <1>1
  <1>5. OnStack(z, <<f>>) /\ <<f>>[1].node \in roots /\ Len(<<f>>) <= policy.max_depth + 1
    <2>1. Len(<<f>>) = 1 /\ <<f>>[1] = f /\ 1 - 1 = 0
      OBVIOUS
    <2>2. z \in SimplePaths[0]
      BY <1>1, SimplePathsAre
    <2>3. z.nodes[1] = r
      OBVIOUS
    <2> HIDE DEF f, z
    <2>4. \A i \in 1 .. 1 : i = 1
      OBVIOUS
    <2>5. OnStack(z, <<f>>)
      BY <1>4, <2>1, <2>2, <2>3, <2>4 DEF OnStack
    <2>6. 1 <= policy.max_depth + 1
      BY Lengths
    <2> QED
      BY <1>1, <1>4, <2>1, <2>5, <2>6
  <1> HIDE DEF f, z
  <1>6. \A k \in 1 .. 33 : \A p \in SimplePaths[k] :
          Ahead(p, z, <<f>>, roots) <=> Ahead(p, q, <<>>, roots)
    BY <1>1, <1>4, EnteredAhead DEF Ahead
  <1>7. WalkFits(z, <<f>>, roots, steps)
    BY <1>3, <1>5, <1>6, WalkStays
  <1>8. WalkFits(z, stack', roots', steps')
    BY <1>2, <1>7
  <1>9. \E y : WalkFits(y, stack, roots, steps)'
    BY <1>2, <1>8, FrozenPaths
  <1>10. Baseline' = Baseline
    BY <1>2, Frozen
  <1> QED
    BY <1>1, <1>2, <1>9, <1>10 DEF SimpleInv

\* A dependency is followed where a cycle is tolerated, or leads back.
LEMMA SimpleFollow ==
  ASSUME Context, GraphInv, ~ policy.fail_on_cycle, SimpleInv, NEW e \in graph, FollowSimple(e)
  PROVE  /\ phase' = "failed" => ~ PathsWithin(policy.max_depth)
         /\ phase' # "failed" => SimpleInv'
  <1> DEFINE L == Len(stack)
             g == [Top EXCEPT !.left = @ \ {e}]
             rest == ReplaceTop(g)
             f == [node |-> e.to, left |-> EdgesFrom(graph, e.to), longest |-> 0]
  <1>1. /\ phase = "validate" /\ stack # <<>> /\ e \in Top.left /\ input' = input
        /\ graph = DependencyGraph /\ GraphResolves /\ input \in Inputs
    BY DEF FollowSimple, Fail, GraphInv, Context
  <1>2. PICK q : WalkFits(q, stack, roots, steps)
    BY DEF SimpleInv
  <1>3. /\ L \in 1 .. 33 /\ L - 1 \in 0 .. 32 /\ L <= policy.max_depth + 1 /\ L \in 0 .. 33
        /\ OnStack(q, stack) /\ stack[1].node \in roots /\ Top = stack[L] /\ Top \in Frame
        /\ stack \in Seq(Frame) /\ e.from = q.nodes[L]
    <2>1. Len(stack) \in 1 .. Len(stack)
      BY <1>1, <1>2, WalkFacts
    <2> QED
      BY <1>1, <1>2, <2>1, WalkFacts
  <1>4. g.node = Top.node /\ g.left = Top.left \ {e}
    BY <1>3 DEF Frame
  <1>5. /\ Len(rest) = L /\ rest[L] = g /\ rest # <<>> /\ \A i \in 1 .. L - 1 : rest[i] = stack[i]
    <2> HIDE DEF g
    <2> QED
      BY <1>3 DEF ReplaceTop
  <1> HIDE DEF g, rest
  <1>6. CASE OnPath(e.to)
    <2>1. /\ stack' = rest /\ phase' = phase /\ roots' = roots /\ memo' = memo /\ steps' = steps
      BY <1>6 DEF FollowSimple, rest, g
    <2>2. PICK o \in 1 .. L : q.nodes[o] = e.to
      BY <1>1, <1>2, <1>6, WalkFacts
    <2>3. \A k \in 1 .. 33 : \A p \in SimplePaths[k] :
            Ahead(p, q, rest, roots) <=> Ahead(p, q, stack, roots)
      <3> SUFFICES ASSUME NEW k \in 1 .. 33, NEW p \in SimplePaths[k]
                   PROVE  Ahead(p, q, rest, roots) <=> Ahead(p, q, stack, roots)
        OBVIOUS
      <3> HIDE DEF L
      <3>1. Len(stack) = L
        BY DEF L
      <3>2. rest[L].node = stack[L].node /\ rest[L].left = stack[L].left \ {e}
        BY <1>3, <1>4, <1>5
      <3> QED
        BY <1>1, <1>3, <1>5, <2>2, <3>1, <3>2, RevisitAhead
    <2>4. OnStack(q, rest) /\ rest[1].node \in roots
      <3>1. \A i \in 1 .. L : rest[i].node = stack[i].node /\ rest[i].left \subseteq stack[i].left
        <4>1. \A i \in 1 .. L : i \in 1 .. L - 1 \/ i = L
          BY <1>3
        <4> QED
          BY <1>3, <1>4, <1>5, <4>1
      <3>2. \A i \in 1 .. L - 1 : i \in 1 .. L
        BY <1>3
      <3>3. 1 \in 1 .. L
        BY <1>3
      <3> QED
        BY <1>3, <1>5, <3>1, <3>2, <3>3 DEF OnStack
    <2>5. WalkFits(q, rest, roots, steps)
      BY <1>2, <1>3, <1>5, <2>3, <2>4, WalkStays
    <2>6. \E y : WalkFits(y, stack, roots, steps)'
      BY <1>1, <2>1, <2>5, FrozenPaths
    <2>7. Baseline' = Baseline
      BY <1>1, Frozen
    <2> QED
      BY <1>1, <2>1, <2>6, <2>7 DEF SimpleInv
  <1>7. CASE ~ OnPath(e.to)
    <2> DEFINE r == Longer(q, e)
    <2>1. r \in SimplePaths[L] /\ OneLonger(r, q, e, L) /\ IsPath(q, L - 1)
          /\ \A i \in 1 .. L : r.nodes[i] = q.nodes[i]
          /\ r.nodes[L + 1] = e.to
      <3> DEFINE n == L - 1
      <3>1. n \in 0 .. 32 /\ n \in Nat /\ n + 1 = L /\ n + 2 = L + 1 /\ q \in SimplePaths[n]
        BY <1>3 DEF OnStack
      <3>2. IsPath(q, n)
        BY <1>1, <1>3, OnStackIs
      <3>3. OneLonger(r, q, e, L)
        BY <1>1, <1>3, LongerOnStack
      <3> HIDE DEF n
      <3>4. e \in GoesOn(q, n)
        <4>1. \A i \in 1 .. n + 1 : q.nodes[i] # e.to
          BY <1>1, <1>2, <1>7, <3>1, WalkFacts
        <4> QED
          BY <1>1, <1>3, <3>1, <4>1 DEF GoesOn
      <3>5. r \in LongerPaths(SimplePaths[n], n)
        BY <3>1, <3>4 DEF LongerPaths
      <3>6. SimplePaths[n + 1] = LongerPaths(SimplePaths[n], n)
        BY <1>1, <3>1, SimplePathsAre
      <3>7. (\A i \in 1 .. n + 1 : r.nodes[i] = q.nodes[i]) /\ r.nodes[n + 2] = e.to
        BY <1>1, <3>1, <3>2, <3>4, LongerIs
      <3>8. r \in SimplePaths[L]
        BY <3>1, <3>5, <3>6
      <3>9. IsPath(q, L - 1)
        BY <3>2 DEF n
      <3> HIDE DEF r, L
      <3> QED
        BY <3>1, <3>3, <3>7, <3>8, <3>9
    <2> HIDE DEF r
    <2>2. Ahead(r, q, stack, roots)
      BY <1>1, <1>3, <2>1, NextIsAhead
    <2>3. CASE L > policy.max_depth \/ OutOfSteps
      <3>1. phase' = "failed"
        BY <1>7, <2>3 DEF FollowSimple, Fail
      <3>2. CASE L > policy.max_depth
        <4>1. L = policy.max_depth + 1
          BY <1>3, <3>2, Lengths
        <4>2. SimplePaths[policy.max_depth + 1] # {}
          BY <2>1, <4>1
        <4> QED
          BY <3>1, <4>2 DEF PathsWithin
      <3>3. CASE ~ (L > policy.max_depth)
        <4>1. L \in 1 .. policy.max_depth
          BY <1>3, <3>3, Lengths
        <4>2. /\ r \in Short /\ r \notin Walked(q, stack, roots)
              /\ Walked(q, stack, roots) \subseteq Short
          BY <2>1, <2>2, <4>1, ShortFacts DEF Walked
        <4>3. IsFiniteSet(Short)
          BY ShortFacts
        <4>4. IsFiniteSet(Walked(q, stack, roots)) /\ steps = Cardinality(Walked(q, stack, roots))
          BY <1>2, <4>2, <4>3, FS_Subset DEF WalkFits
        <4>5. Cardinality(Walked(q, stack, roots) \cup {r}) = steps + 1
          BY <4>2, <4>4, FS_AddElement
        <4>6. Walked(q, stack, roots) \cup {r} \subseteq Short
          BY <4>2
        <4>7. steps + 1 <= Cardinality(Short) /\ Cardinality(Short) \in Nat
          BY <4>3, <4>5, <4>6, FS_Subset, FS_CardinalityType
        <4>8. ~ (Cardinality(Short) <= StepBudget)
          <5>1. steps \in Nat /\ StepBudget \in Nat
            BY ConstantsAssumption DEF Context, TypeOK
          <5>2. steps + 1 > StepBudget
            BY <2>3, <3>3 DEF OutOfSteps
          <5> QED
            BY <4>7, <5>1, <5>2
        <4> QED
          BY <3>1, <4>8 DEF PathsWithin, Short
      <3> QED
        BY <3>2, <3>3
    <2>4. CASE ~ (L > policy.max_depth \/ OutOfSteps)
      <3> DEFINE t == Append(rest, f)
      <3>1. /\ stack' = t /\ steps' = steps + 1 /\ phase' = phase
            /\ roots' = roots /\ memo' = memo
        BY <1>7, <2>4 DEF FollowSimple, Push, rest, g
      <3>2. L \in 1 .. policy.max_depth
        BY <1>3, <2>4, Lengths
      <3>3. /\ Len(t) = L + 1 /\ t # <<>> /\ t[L + 1] = f /\ t[L] = g
            /\ \A i \in 1 .. L - 1 : t[i] = stack[i]
        <4>1. rest \in Seq(Frame)
          <5>1. rest = [stack EXCEPT ![L] = g]
            BY DEF rest, ReplaceTop
          <5>2. g \in Frame
            BY <1>3 DEF g, Frame
          <5> HIDE DEF f
          <5> QED
            BY <1>3, <5>1, <5>2
        <4>3. f \in Frame
          BY PushedFrame
        <4> HIDE DEF f, L
        <4>2. Len(rest) = L /\ L \in Nat
          BY <1>3, <1>5
        <4> QED
          BY <1>3, <1>5, <4>1, <4>2, <4>3
      <3>4. f.node = e.to /\ f.left = EdgesFrom(DependencyGraph, e.to)
        BY <1>1
      <3> HIDE DEF t, f
      <3>5. \A i \in 1 .. L + 1 : i \in 1 .. L - 1 \/ i = L \/ i = L + 1
        BY <1>3
      <3>6. OnStack(r, t)
        <4>1. \A i \in 1 .. L - 1 : i \in 1 .. L /\ i \in 1 .. L - 1
          BY <1>3
        <4>2. L \in 1 .. L /\ Len(t) - 1 = L
          BY <1>3, <3>3
        <4>3. /\ \A i \in 1 .. L : stack[i].node = q.nodes[i]
              /\ \A i \in 1 .. L : stack[i].left \subseteq EdgesFrom(DependencyGraph, q.nodes[i])
              /\ \A i \in 1 .. L - 1 : q.edges[i] \notin stack[i].left
          BY <1>3 DEF OnStack
        <4>4. \A i \in 1 .. L + 1 : /\ t[i].node = r.nodes[i]
                                    /\ t[i].left \subseteq EdgesFrom(DependencyGraph, r.nodes[i])
          <5>1. ASSUME NEW i \in 1 .. L - 1
                PROVE  /\ t[i].node = r.nodes[i]
                       /\ t[i].left \subseteq EdgesFrom(DependencyGraph, r.nodes[i])
            BY <2>1, <3>3, <4>1, <4>3
          <5>2. /\ t[L].node = r.nodes[L]
                /\ t[L].left \subseteq EdgesFrom(DependencyGraph, r.nodes[L])
            BY <1>3, <1>4, <2>1, <3>3, <4>2, <4>3
          <5>3. /\ t[L + 1].node = r.nodes[L + 1]
                /\ t[L + 1].left \subseteq EdgesFrom(DependencyGraph, r.nodes[L + 1])
            BY <1>3, <2>1, <3>3, <3>4, <3>5
          <5> QED
            BY <3>5, <5>1, <5>2, <5>3
        <4>5. \A i \in 1 .. L : r.edges[i] \notin t[i].left
          <5>1. r.edges[L] = e /\ \A i \in 1 .. L - 1 : r.edges[i] = q.edges[i]
            BY <2>1 DEF OneLonger
          <5>2. \A i \in 1 .. L : i \in 1 .. L - 1 \/ i = L
            BY <1>3
          <5> QED
            BY <1>4, <3>3, <4>3, <5>1, <5>2
        <4> QED
          BY <2>1, <3>3, <4>2, <4>4, <4>5 DEF OnStack
      <3>7. t[1].node \in roots
        <4>1. CASE L = 1
          BY <1>3, <1>4, <3>3, <4>1
        <4>2. CASE L # 1
          <5> HIDE DEF L
          <5>1. 1 \in 1 .. L - 1
            BY <1>3, <4>2
          <5> QED
            BY <1>3, <3>3, <5>1
        <4> QED
          BY <4>1, <4>2
      <3>8. \A k \in 1 .. 33 : \A p \in SimplePaths[k] :
              Ahead(p, r, t, roots) <=> Ahead(p, q, stack, roots) /\ p # r
        <4> SUFFICES ASSUME NEW k \in 1 .. 33, NEW p \in SimplePaths[k]
                     PROVE  Ahead(p, r, t, roots) <=> Ahead(p, q, stack, roots) /\ p # r
          OBVIOUS
        <4> HIDE DEF L
        <4>1. Len(stack) = L
          BY DEF L
        <4>2. t[L].node = stack[L].node /\ t[L].left = stack[L].left \ {e}
          BY <1>3, <1>4, <3>3
        <4>3. t[L + 1].left = EdgesFrom(DependencyGraph, e.to) /\ e \in stack[L].left
          BY <1>1, <1>3, <3>3, <3>4
        <4>4. L \in 1 .. 33 /\ OnStack(q, stack) /\ stack[1].node \in roots
          BY <1>3
        <4>5. r \in SimplePaths[L] /\ OneLonger(r, q, e, L)
          BY <2>1
        <4>6. stack # <<>> /\ input \in Inputs /\ GraphResolves
          BY <1>1
        <4>7. Len(t) = L + 1 /\ t # <<>> /\ \A i \in 1 .. L - 1 : t[i] = stack[i]
          BY <3>3
        <4> QED
          BY <4>1, <4>2, <4>3, <4>4, <4>5, <4>6, <4>7, PushAhead
      <3>9. WalkFits(r, t, roots, steps + 1)
        BY <1>2, <2>1, <2>2, <3>2, <3>3, <3>6, <3>7, <3>8, WalkGrows
      <3>10. \E y : WalkFits(y, stack, roots, steps)'
        BY <1>1, <3>1, <3>9, FrozenPaths
      <3>11. Baseline' = Baseline
        BY <1>1, Frozen
      <3> QED
        BY <1>1, <3>1, <3>10, <3>11 DEF SimpleInv
    <2> QED
      BY <2>3, <2>4
  <1> QED
    BY <1>6, <1>7

\* A path of at least one dependency is a shorter one, and its last dependency.
LEMMA WithoutLastEdge ==
  ASSUME input \in Inputs, GraphResolves, NEW n \in 0 .. 32, NEW q \in SimplePaths[n + 1]
  PROVE  \E r \in SimplePaths[n] : /\ \A i \in 1 .. n + 1 : r.nodes[i] = q.nodes[i]
                                   /\ \A i \in 1 .. n : r.edges[i] = q.edges[i]
  <1>1. SimplePaths[n + 1] = LongerPaths(SimplePaths[n], n)
    BY SimplePathsAre
  <1>2. PICK r \in SimplePaths[n] : \E e \in GoesOn(r, n) : q = Longer(r, e)
    BY <1>1 DEF LongerPaths
  <1>3. PICK e \in GoesOn(r, n) : q = Longer(r, e)
    BY <1>2
  <1>4. n \in 0 .. 33 /\ n \in Nat
    OBVIOUS
  <1>5. IsPath(r, n)
    BY <1>4, SimplePathsArePaths
  <1>6. /\ \A i \in 1 .. n + 1 : q.nodes[i] = r.nodes[i]
        /\ \A i \in 1 .. n : q.edges[i] = r.edges[i]
    BY <1>3, <1>4, <1>5, LongerIs
  <1> QED
    BY <1>6

\* A memory is left where a cycle is tolerated.
LEMMA SimpleLeave ==
  ASSUME Context, GraphInv, ~ policy.fail_on_cycle, SimpleInv, Leave
  PROVE  phase' # "failed" /\ SimpleInv'
  <1> DEFINE L == Len(stack)
             t == SubSeq(stack, 1, L - 1)
  <1>1. /\ phase = "validate" /\ stack # <<>> /\ Top.left = {}
        /\ graph = DependencyGraph /\ GraphResolves /\ input \in Inputs
    BY DEF Leave, GraphInv, Context
  <1>2. /\ phase' = phase /\ stack' = t /\ input' = input /\ memo' = memo /\ steps' = steps
        /\ roots' = IF L = 1 THEN roots \ {Top.node} ELSE roots
    BY <1>1 DEF Leave
  <1>3. PICK q : WalkFits(q, stack, roots, steps)
    BY DEF SimpleInv
  <1>4. /\ L \in 1 .. 33 /\ L - 1 \in 0 .. 32 /\ L <= policy.max_depth + 1
        /\ OnStack(q, stack) /\ stack[1].node \in roots /\ Top = stack[L] /\ stack \in Seq(Frame)
    BY <1>1, <1>3, WalkFacts
  <1>5. /\ Len(t) = L - 1 /\ t \in Seq(Frame) /\ \A i \in 1 .. L - 1 : t[i] = stack[i]
    BY <1>1, <1>4, WithoutLast
  <1> HIDE DEF t
  <1>6. Baseline' = Baseline
    BY <1>2, Frozen
  <1>7. \E y : WalkFits(y, t, roots', steps)
    <2>1. CASE L = 1
      <3>1. t = <<>> /\ Len(t) = 0
        BY <1>5, <2>1
      <3>2. roots' = roots \ {stack[1].node} /\ stack[1].left = {}
        BY <1>1, <1>2, <1>4, <2>1
      <3>3. \A k \in 1 .. 33 : \A p \in SimplePaths[k] :
              Ahead(p, q, <<>>, roots') <=> Ahead(p, q, stack, roots)
        <4>1. Len(stack) = 1 /\ stack # <<>> /\ stack[1].left = {}
          BY <1>1, <2>1, <3>2
        <4>2. \A p : Ahead(p, q, <<>>, roots \ {stack[1].node}) <=> Ahead(p, q, stack, roots)
          BY <4>1, RootLeftAhead
        <4> QED
          BY <3>2, <4>2
      <3>4. Len(t) <= policy.max_depth + 1
        BY <3>1, Lengths
      <3>5. WalkFits(q, <<>>, roots', steps)
        BY <1>3, <3>1, <3>3, <3>4, WalkStays
      <3> QED
        BY <3>1, <3>5
    <2>2. CASE L # 1
      <3> HIDE DEF L
      <3> DEFINE n == L - 2
      <3>1. /\ L \in 2 .. 33 /\ n \in 0 .. 32 /\ n + 1 = L - 1 /\ n = L - 2 /\ L - 1 # 0
            /\ (L - 1) - 1 = n
        BY <1>4, <2>2
      <3>2. q \in SimplePaths[n + 1] /\ Len(stack) = L
        BY <1>4, <3>1 DEF OnStack, L
      <3> HIDE DEF n
      <3>3. PICK r \in SimplePaths[n] : /\ \A i \in 1 .. n + 1 : r.nodes[i] = q.nodes[i]
                                        /\ \A i \in 1 .. n : r.edges[i] = q.edges[i]
        BY <1>1, <3>1, <3>2, WithoutLastEdge
      <3>4. t # <<>> /\ stack[L].left = {} /\ \A i \in 1 .. L - 2 : r.edges[i] = q.edges[i]
        BY <1>1, <1>4, <1>5, <3>1, <3>3
      <3>5. \A p : Ahead(p, r, t, roots) <=> Ahead(p, q, stack, roots)
        BY <1>1, <1>5, <3>1, <3>2, <3>4, LeftAhead
      <3>6. OnStack(r, t)
        <4>1. /\ \A i \in 1 .. L : stack[i].node = q.nodes[i]
              /\ \A i \in 1 .. L : stack[i].left \subseteq EdgesFrom(DependencyGraph, q.nodes[i])
              /\ \A i \in 1 .. L - 1 : q.edges[i] \notin stack[i].left
          BY <1>4, <3>2 DEF OnStack
        <4>2. \A i \in 1 .. L - 1 : i \in 1 .. L /\ i \in 1 .. n + 1
          BY <3>1
        <4>3. \A i \in 1 .. (L - 1) - 1 : i \in 1 .. L - 1 /\ i \in 1 .. n
          BY <3>1
        <4>4. \A i \in 1 .. L - 1 : /\ t[i].node = r.nodes[i]
                                    /\ t[i].left \subseteq EdgesFrom(DependencyGraph, r.nodes[i])
          BY <1>5, <3>3, <4>1, <4>2
        <4>5. \A i \in 1 .. (L - 1) - 1 : r.edges[i] \notin t[i].left
          BY <1>5, <3>3, <4>1, <4>3
        <4> QED
          BY <1>5, <3>1, <3>3, <4>4, <4>5 DEF OnStack
      <3>7. t[1].node \in roots /\ roots' = roots
        <4>1. 1 \in 1 .. L - 1
          BY <3>1
        <4> QED
          BY <1>2, <1>4, <1>5, <2>2, <4>1
      <3>8. Len(t) <= policy.max_depth + 1
        <4>1. \A d \in Nat : L <= d + 1 => L - 1 <= d + 1
          BY <3>1
        <4> QED
          BY <1>4, <1>5, <4>1, Lengths
      <3>9. WalkFits(r, t, roots, steps)
        BY <1>3, <3>5, <3>6, <3>7, <3>8, WalkStays
      <3> QED
        BY <3>7, <3>9
    <2> QED
      BY <2>1, <2>2
  <1>8. \E y : WalkFits(y, stack, roots, steps)'
    BY <1>2, <1>7, FrozenPaths
  <1>9. roots' \subseteq Baseline
    BY <1>2 DEF SimpleInv
  <1> QED
    BY <1>1, <1>2, <1>6, <1>8, <1>9 DEF SimpleInv

\* The path search has not begun.
SearchReady ==
  /\ Context /\ GraphInv /\ roots = Baseline /\ stack = <<>> /\ steps = 0
  /\ \A m \in Memories : memo[m] = Unknown

\* The path search begins with every path ahead, and ends with none.
LEMMA SearchBegins == SearchReady => PathInv
  <1> SUFFICES ASSUME SearchReady PROVE PathInv
    OBVIOUS
  <1>0. /\ Context /\ GraphInv /\ roots = Baseline /\ stack = <<>> /\ steps = 0
        /\ \A m \in Memories : memo[m] = Unknown
    BY DEF SearchReady
  <1>1. AcyclicInv
    <2>1. Len(stack) = 0
      BY <1>0
    <2>2. \A i \in 1 .. Len(stack) : FALSE
      BY <2>1
    <2>3. \A i \in 1 .. Len(stack) - 1 : FALSE
      BY <2>1
    <2> QED
      BY <1>0, <2>2, <2>3 DEF AcyclicInv
  <1>2. SimpleInv
    <2>1. \A p, q : Ahead(p, q, <<>>, Baseline) <=> p.nodes[1] \in Baseline
      BY DEF Ahead
    <2>2. \A k \in 1 .. 33 : \A p \in SimplePaths[k] : p.nodes[1] \in Baseline
      <3> SUFFICES ASSUME NEW k \in 1 .. 33, NEW p \in SimplePaths[k]
                   PROVE  p.nodes[1] \in Baseline
        OBVIOUS
      <3>1. k \in 0 .. 33
        OBVIOUS
      <3>2. IsPath(p, k)
        BY <1>0, <3>1, SimplePathsArePaths DEF Context, GraphInv
      <3> QED
        BY <3>2 DEF IsPath
    <2>3. Walked(0, <<>>, Baseline) = {}
      BY <1>0, <2>1, <2>2, ShortFacts DEF Walked
    <2>4. \A p \in SimplePaths[policy.max_depth + 1] : Ahead(p, 0, <<>>, Baseline)
      BY <1>0, <2>1, <2>2, Lengths
    <2>5. Len(<<>>) <= policy.max_depth + 1
      <3>1. policy.max_depth + 1 \in Nat /\ Len(<<>>) = 0
        BY <1>0, Lengths
      <3>2. \A n \in Nat : 0 <= n
        OBVIOUS
      <3> QED
        BY <3>1, <3>2
    <2>6. WalkFits(0, <<>>, Baseline, 0)
      BY <2>3, <2>4, <2>5, FS_EmptySet DEF WalkFits
    <2> QED
      BY <1>0, <2>6 DEF SimpleInv
  <1> QED
    BY <1>1, <1>2 DEF PathInv

\* When no direct selection is left, all paths are within the limits.
LEMMA SearchEnds ==
  ASSUME Context, GraphInv, roots = {}, stack = <<>>,
         PathInv
  PROVE  PathsWithin(policy.max_depth)
  <1>1. CASE policy.fail_on_cycle
    BY <1>1, TooLong DEF PathInv, AcyclicInv
  <1>2. CASE ~ policy.fail_on_cycle
    <2>1. PICK q : WalkFits(q, <<>>, {}, steps)
      BY <1>2 DEF PathInv, SimpleInv
    <2>2. \A p : ~ Ahead(p, q, <<>>, {})
      BY DEF Ahead
    <2>3. SimplePaths[policy.max_depth + 1] = {}
      BY <2>1, <2>2 DEF WalkFits
    <2>4. Walked(q, <<>>, {}) = Short
      BY <2>2 DEF Walked
    <2>5. Cardinality(Short) = steps /\ steps <= StepBudget
      BY <2>1, <2>4, ConstantsAssumption DEF WalkFits, Context, TypeOK
    <2> QED
      BY <1>2, <2>3, <2>5 DEF PathsWithin, Short
  <1> QED
    BY <1>1, <1>2

-----------------------------------------------------------------------------
(* Whether there is a bundle.                                              *)

\* Whether there is a bundle depends on the input alone.
LEMMA FrozenPlan ==
  ASSUME input' = input
  PROVE  /\ PathsWithin(policy.max_depth)' = PathsWithin(policy.max_depth)
         /\ Plannable' = Plannable
  <1>1. /\ policy' = policy /\ Baseline' = Baseline /\ DependencyGraph' = DependencyGraph
        /\ Routable' = Routable /\ GraphResolves' = GraphResolves
        /\ Distances' = Distances /\ RequiredEdges' = RequiredEdges
        /\ \A e, d : Blocked(e, d)' = Blocked(e, d)
    BY Frozen
  <1> DEFINE N == 33 + Cardinality(Memories)
  <1>2. Steps = StepsOf(Baseline, DependencyGraph, N)
    BY DEF Steps, StepsOf
  <1>3. (Steps = StepsOf(Baseline, DependencyGraph, N))'
    BY DEF Steps, StepsOf
  <1>4. Steps' = Steps
    BY <1>1, <1>2, <1>3
  <1>5. SimplePaths' = SimplePaths
    BY FrozenPaths
  <1>6. PathsWithin(policy.max_depth)' = PathsWithin(policy.max_depth)
    BY <1>1, <1>4, <1>5 DEF PathsWithin
  <1> QED
    BY <1>1, <1>6 DEF Plannable, EdgesFrom

\* A step that leaves the path search alone keeps what it has found out.
LEMMA PathInvStays ==
  ASSUME UNCHANGED vars, PathInv
  PROVE  PathInv'
  <1>1. /\ input' = input /\ graph' = graph /\ roots' = roots /\ stack' = stack
        /\ memo' = memo /\ steps' = steps
    BY DEF vars, search
  <1>2. policy' = policy /\ Baseline' = Baseline
    BY <1>1, Frozen
  <1>3. ASSUME AcyclicInv PROVE AcyclicInv'
    <2>1. \A m, k : HasWalk(m, k)' <=> HasWalk(m, k)
      BY <1>1, FrozenWalks
    <2>2. \A f : FrameFits(f)' <=> FrameFits(f)
      BY <1>1, FramesStay
    <2>3. \A i \in 1 .. Len(stack') : FrameFits(stack[i])'
      BY <1>1, <1>3, <2>2 DEF AcyclicInv
    <2> QED
      BY <1>1, <1>2, <1>3, <2>1, <2>3 DEF AcyclicInv
  <1>4. ASSUME SimpleInv PROVE SimpleInv'
    <2>1. \E q : WalkFits(q, stack, roots, steps)'
      <3>1. PICK q : WalkFits(q, stack, roots, steps)
        BY <1>4 DEF SimpleInv
      <3>2. WalkFits(q, stack', roots', steps')
        BY <1>1, <3>1
      <3> QED
        BY <1>1, <3>2, FrozenPaths
    <2> QED
      BY <1>1, <1>2, <1>4, <2>1 DEF SimpleInv
  <1> QED
    BY <1>2, <1>3, <1>4 DEF PathInv

\* A step of the path search.
LEMMA PathStep ==
  ASSUME Context, RouteInv, phase = "validate", PathInv, ~ StartExpansion, Next
  PROVE  /\ phase' = "failed" => ~ Plannable
         /\ phase' # "failed" => phase' = "validate" /\ PathInv'
  <1>1. input' = input /\ policy' = policy
    BY InputFixed, Frozen
  <1>2. GraphInv
    BY DEF RouteInv
  <1>3. \/ \E r \in Memories : EnterRoot(r)
        \/ \E e \in graph : FollowAcyclic(e) \/ FollowSimple(e)
        \/ Leave
    BY DEF Next, Select, ResolveGraph, StartExpansion, Follow, Dequeue, Finish, Terminated
  <1>4. phase' = "failed" \/ phase' = "validate"
    BY <1>3 DEF EnterRoot, FollowAcyclic, FollowSimple, Leave, Fail
  <1>5. CASE policy.fail_on_cycle
    <2>1. AcyclicInv
      BY <1>5 DEF PathInv
    <2>2. ~ \E e \in graph : FollowSimple(e)
      BY <1>5 DEF FollowSimple
    <2>3. /\ phase' = "failed" => ~ PathsWithin(policy.max_depth)
          /\ phase' # "failed" => AcyclicInv'
      BY <1>2, <1>3, <1>5, <2>1, <2>2, AcyclicEnter, AcyclicFollow, AcyclicLeave
    <2> QED
      BY <1>1, <1>4, <1>5, <2>3 DEF PathInv, Plannable
  <1>6. CASE ~ policy.fail_on_cycle
    <2>1. SimpleInv
      BY <1>6 DEF PathInv
    <2>2. ~ \E e \in graph : FollowAcyclic(e)
      BY <1>6 DEF FollowAcyclic
    <2>3. /\ phase' = "failed" => ~ PathsWithin(policy.max_depth)
          /\ phase' # "failed" => SimpleInv'
      BY <1>2, <1>3, <1>6, <2>1, <2>2, SimpleEnter, SimpleFollow, SimpleLeave
    <2> QED
      BY <1>1, <1>4, <1>6, <2>3 DEF PathInv, Plannable
  <1> QED
    BY <1>5, <1>6

\* A dependency that may not be followed stands against the bundle.
LEMMA BlockedIsCause ==
  ASSUME Context, RouteInv, NEW e \in graph, Follow(e), Fail
  PROVE  ~ Plannable
  <1>1. phase = "expand" /\ queue # <<>> /\ e \in left
    BY DEF Follow
  <1>2. GraphInv /\ ExpansionInv
    BY <1>1 DEF RouteInv
  <1>3. Blocked(e, best_depth[Head(queue)] + 1)
    BY <1>1 DEF Follow, Fail
  <1>4. queue \in Seq(Memories) /\ Head(queue) = queue[1] /\ 1 \in 1 .. Len(queue)
        /\ Head(queue) \in Memories
    BY <1>1 DEF Context, TypeOK
  <1>5. e.from = Head(queue)
    BY <1>1, <1>2 DEF ExpansionInv, QueueFits, FirstEdges, EdgesFrom
  <1>6. Reached(e.from)
    BY <1>2, <1>4, <1>5 DEF ExpansionInv, QueueFits
  <1>7. e.from \in Required /\ best_depth[e.from] = Distance(e.from)
    BY <1>2, <1>4, <1>5, <1>6 DEF ExpansionInv, DepthsFit
  <1>8. e \in RequiredEdges
    BY <1>2, <1>7, RequiredFacts
  <1>9. Blocked(e, Distances[e.from] + 1)
    BY <1>3, <1>5, <1>7 DEF Distance
  <1> QED
    BY <1>8, <1>9 DEF Plannable

\* A search that is set up is ready.
LEMMA SearchReadied ==
  ASSUME SearchReady'
  PROVE  PathInv'
  BY SearchBegins, PTL

\* Every step of a call keeps what the path search has found out.
LEMMA SearchStep ==
  ASSUME Context, Context', RouteInv, RouteInv', SearchInv, [Next]_vars
  PROVE  SearchInv'
  <1>1. /\ input' = input /\ policy' = policy /\ Baseline' = Baseline
        /\ PathsWithin(policy.max_depth)' = PathsWithin(policy.max_depth)
        /\ Plannable' = Plannable
    BY InputFixed, Frozen, FrozenPlan
  <1>2. CASE Select
    <2>1. phase = "select" /\ search' = search
      BY <1>2 DEF Select, Fail
    <2>2. phase' = "failed" => ~ Plannable
      BY <1>2 DEF Select, Fail, Plannable
    <2>3. phase' \in {"failed", "resolve"}
      BY <1>2 DEF Select, Fail
    <2> QED
      BY <1>1, <2>1, <2>2, <2>3 DEF SearchInv, search
  <1>3. CASE ResolveGraph
    <2>1. phase = "resolve" /\ SelectionInv
      BY <1>3 DEF ResolveGraph, RouteInv
    <2>2. CASE phase' = "failed"
      <3>1. \/ ~ GraphResolves
            \/ ~ policy.enabled /\ \E m \in selected : EdgesFrom(DependencyGraph, m) # {}
        BY <1>3, <2>2 DEF ResolveGraph
      <3>2. ~ Plannable
        BY <2>1, <3>1 DEF Plannable, SelectionInv
      <3> QED
        BY <1>1, <2>2, <3>2 DEF SearchInv
    <2>3. CASE phase' # "failed"
      <3>1. /\ phase' = "validate" /\ roots' = selected /\ stack' = stack /\ memo' = memo
            /\ steps' = steps
        BY <1>3, <2>3 DEF ResolveGraph, Fail
      <3>2. GraphInv'
        BY <3>1 DEF RouteInv
      <3>3. SearchReady'
        BY <1>1, <2>1, <3>1, <3>2 DEF SearchReady, SearchInv, SelectionInv
      <3> QED
        BY <3>1, <3>3, SearchReadied DEF SearchInv
    <2> QED
      BY <2>2, <2>3
  <1>4. CASE phase = "validate" /\ ~ StartExpansion /\ Next
    BY <1>1, <1>4, PathStep DEF SearchInv
  <1>5. CASE StartExpansion
    <2>1. phase = "validate" /\ stack = <<>> /\ roots = {} /\ phase' = "expand"
      BY <1>5 DEF StartExpansion
    <2>2. PathsWithin(policy.max_depth)
      BY <2>1, SearchEnds DEF RouteInv, SearchInv
    <2> QED
      BY <1>1, <2>1, <2>2 DEF SearchInv
  <1>6. CASE \E e \in graph : Follow(e)
    <2>1. PICK e \in graph : Follow(e)
      BY <1>6
    <2>2. phase = "expand"
      BY <2>1 DEF Follow
    <2>3. CASE Fail
      BY <1>1, <2>1, <2>3, BlockedIsCause DEF SearchInv, Fail
    <2>4. CASE ~ Fail
      <3>1. phase' = "expand"
        BY <2>1, <2>2, <2>4 DEF Follow
      <3> QED
        BY <1>1, <2>2, <3>1 DEF SearchInv
    <2> QED
      BY <2>3, <2>4
  <1>7. CASE Dequeue \/ Finish
    <2>1. phase = "expand" /\ phase' \in {"expand", "done"}
      BY <1>7 DEF Dequeue, Finish
    <2> QED
      BY <1>1, <2>1 DEF SearchInv
  <1>8. CASE UNCHANGED vars
    <2>1. phase' = phase /\ stack' = stack /\ steps' = steps /\ memo' = memo
      BY <1>8 DEF vars, search
    <2>2. phase = "validate" => PathInv'
      BY <1>8, PathInvStays DEF SearchInv
    <2> QED
      BY <1>1, <2>1, <2>2 DEF SearchInv
  <1> QED
    BY <1>2, <1>3, <1>4, <1>5, <1>6, <1>7, <1>8 DEF Next, EnterRoot, FollowAcyclic, FollowSimple,
       Leave, Terminated

\* A call that has ended has told whether there is a bundle.
LEMMA EndsRightly ==
  ASSUME Context, RouteInv, SearchInv
  PROVE  BundleIffPlannable
  <1>1. phase = "failed" => ~ Plannable
    BY DEF SearchInv
  <1>2. ASSUME phase = "done" PROVE Plannable
    <2>1. /\ Routable /\ GraphInv /\ ExpansionInv /\ queue = <<>>
          /\ PathsWithin(policy.max_depth)
      BY <1>2 DEF RouteInv, SearchInv
    <2>2. \A e \in RequiredEdges : ~ Blocked(e, Distances[e.from] + 1)
      BY <2>1, AllReached DEF Settled, Distance
    <2> QED
      BY <2>1, <2>2 DEF Plannable, GraphInv
  <1> QED
    BY <1>1, <1>2 DEF BundleIffPlannable

\* A call begins with nothing found out.
LEMMA RouteBegins ==
  ASSUME Init
  PROVE  Context /\ RouteInv /\ SearchInv
  <1>1. Context
    BY ConstantsAssumption DEF Init, Context, TypeOK, NoDiagnostic, Diagnostic
  <1> QED
    BY <1>1 DEF Init, RouteInv, SearchInv

\* A bundle that is written (_expand_dependencies has returned) holds the direct
\* selections, every dependency of a memory it holds and, where the profile says so,
\* the relationship records: these and nothing else, in whatever order the searches
\* take roots and edges.
THEOREM BundlesAreClosures == Spec => []ClosureIsExact
  <1>1. Init => Context /\ RouteInv
    BY RouteBegins
  <1>2. Context /\ RouteInv /\ [Next]_vars => Context' /\ RouteInv'
    BY StepType, RouteStep
  <1>3. Context /\ RouteInv => ClosureIsExact
    BY DoneIsClosure
  <1> QED
    BY <1>1, <1>2, <1>3, PTL DEF Spec

\* "expand once at shortest depth for stable diagnostics": the diagnostics of a bundle
\* name the memories that need each one, all of them, and the least depth at which it
\* is needed, in whatever order the queue was filled.
THEOREM DiagnosticsAreExact == Spec => []DiagnosticsExact
  <1>1. Init => Context /\ RouteInv
    BY RouteBegins
  <1>2. Context /\ RouteInv /\ [Next]_vars => Context' /\ RouteInv'
    BY StepType, RouteStep
  <1>3. Context /\ RouteInv => DiagnosticsExact
    BY DoneIsExplained
  <1> QED
    BY <1>1, <1>2, <1>3, PTL DEF Spec

\* plan_bundle raises a RoutingError only where a rule stands against the bundle (the
\* target, an endpoint, a path too long, a cycle, more paths than the budget, a blocked
\* dependency), and returns a bundle only where none does: both searches, in whatever
\* order, decide what the input alone says.
THEOREM BundlesIffPlannable == Spec => []BundleIffPlannable
  <1>1. Init => Context /\ RouteInv /\ SearchInv
    BY RouteBegins
  <1>2. Context /\ RouteInv /\ SearchInv /\ [Next]_vars => Context' /\ RouteInv' /\ SearchInv'
    BY StepType, RouteStep, SearchStep
  <1>3. Context /\ RouteInv /\ SearchInv => BundleIffPlannable
    BY EndsRightly
  <1> QED
    BY <1>1, <1>2, <1>3, PTL DEF Spec

=============================================================================
