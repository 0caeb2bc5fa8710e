----------------------------- MODULE MCRouting -----------------------------
(***************************************************************************)
(* The calls of the router that TLC enumerates: small dependency graphs,   *)
(* and one graph under every single rule of every layer.                   *)
(***************************************************************************)
EXTENDS Routing

CONSTANTS a, b, c, link1, link2, link3, key, other

Facts == {a, b, c}
Relations == {link1, link2, link3}
MCMemories == Facts \cup Relations

NoExclusions ==
  [records |-> {}, types |-> {}, epistemic |-> {}, sources |-> {}, paths |-> {}]

Plain ==
  [approval |-> "approved", state |-> "active", sensitivity |-> 0, type |-> "fact",
   tags |-> {}, epistemic |-> "verified", confidence |-> 10, sources |-> {},
   paths |-> {}, terms |-> {}, notes |-> {}, key |-> NoKey, link |-> NoLink]

Missing == [Plain EXCEPT !.state = "tombstoned"]

Id(m) == [memory |-> m, key |-> NoKey]
Named(k) == [memory |-> NoMemory, key |-> k]

Requires(p, q) ==
  [Plain EXCEPT !.type = "relationship", !.link = [from |-> p, to |-> q]]

Selector == [enabled |-> TRUE, min_matches |-> 1, search_notes |-> FALSE, aliases |-> {}]

Policy(depth, acyclic, include) ==
  [enabled |-> TRUE, max_depth |-> depth, fail_on_cycle |-> acyclic,
   include_relationship_records |-> include]

MCProfile ==
  [include_tags |-> {"root"}, exclude_tags |-> {}, types |-> {}, max_sensitivity |-> 1,
   task |-> Selector, exclusions |-> NoExclusions, dependencies |-> Policy(2, TRUE, FALSE)]

MCTarget ==
  [enabled |-> TRUE, max_sensitivity |-> 1, min_confidence |-> 0, allowed_types |-> {},
   denied_types |-> {}, denied_tags |-> {}, denied_epistemic |-> {},
   verified_types |-> {}, require_application |-> FALSE, exclusions |-> NoExclusions]

Call(records, profile, target) ==
  [records |-> records, profile |-> profile, target |-> target,
   exclusions |-> NoExclusions, tags |-> {}, task |-> NoTask, applications |-> {}]

(***************************************************************************)
(* Graphs: up to three dependencies, stated by link1 to link3, between     *)
(* three facts and the relationship records themselves.                    *)
(***************************************************************************)
Arcs == {<<a, b>>, <<a, c>>, <<b, c>>, <<b, a>>, <<c, a>>, <<c, b>>}
RelationArcs == {<<link1, c>>, <<b, link1>>, <<a, link2>>}

Stated(arcs) == [m \in MCMemories |->
  IF m \in Facts
  THEN [Plain EXCEPT !.tags = IF m = a THEN {"root"} ELSE {}]
  ELSE IF arcs[m] = <<>> THEN Missing ELSE Requires(Id(arcs[m][1]), Id(arcs[m][2]))]

\* link1, link2 and link3 are used in this order.
ArcChoices ==
  {f \in [Relations -> Arcs \cup RelationArcs \cup {<<>>}] :
     /\ f[link2] = <<>> => f[link3] = <<>>
     /\ f[link1] \in {<<a, b>>, <<b, c>>, <<b, a>>}}

\* A record of the graph, if any, that is too sensitive, and one that is
\* selected directly besides a.
Variants(arcs) ==
  {[[Stated(arcs) EXCEPT ![m].sensitivity = 2] EXCEPT ![n].tags = {"root"}] :
     m \in {b, link1}, n \in {a, c}}
  \cup {Stated(arcs), [Stated(arcs) EXCEPT ![c].tags = {"root"}]}

GraphCalls ==
  {Call(g, [MCProfile EXCEPT !.dependencies = Policy(d, f, i)], MCTarget) :
     g \in UNION {Variants(arcs) : arcs \in ArcChoices},
     d \in 0 .. 2, f \in BOOLEAN, i \in BOOLEAN}

(***************************************************************************)
(* Rules: b, or the record link1 that says a requires b, or a itself,      *)
(* meets one rule of one layer.                                            *)
(***************************************************************************)
Marked(p, q) ==
  [Plain EXCEPT !.tags = {"odd"} \cup p, !.epistemic = "inferred", !.confidence = 5,
                !.sources = {"obs"}, !.paths = {"path"}, !.type = q]

\* The record x differs from the others in all that a rule can be about.
Odd(x) == [m \in MCMemories |->
  LET tags == IF m = a THEN {"root"} ELSE {} IN
  IF m \in {link2, link3, c} THEN Missing
  ELSE LET plain == IF m = x THEN Marked(tags, "claim") ELSE [Plain EXCEPT !.tags = tags]
       IN  IF m = link1
           THEN [plain EXCEPT !.type = "relationship", !.link = [from |-> Id(a), to |-> Id(b)]]
           ELSE plain]

TypeOf(x) == IF x = link1 THEN "relationship" ELSE "claim"

ExclusionsFor(x) ==
  {[NoExclusions EXCEPT !.records = {x}], [NoExclusions EXCEPT !.types = {TypeOf(x)}],
   [NoExclusions EXCEPT !.epistemic = {"inferred"}], [NoExclusions EXCEPT !.sources = {"obs"}],
   [NoExclusions EXCEPT !.paths = {"path"}]}

ProfilesFor(x) ==
  {[MCProfile EXCEPT !.exclude_tags = {"odd"}], [MCProfile EXCEPT !.types = {"fact"}],
   [MCProfile EXCEPT !.types = {"fact", TypeOf(x)}]}
  \cup {[MCProfile EXCEPT !.exclusions = e] : e \in ExclusionsFor(x)}

TargetsFor(x) ==
  {[MCTarget EXCEPT !.enabled = FALSE], [MCTarget EXCEPT !.min_confidence = 6],
   [MCTarget EXCEPT !.allowed_types = {"fact", "relationship"}],
   [MCTarget EXCEPT !.denied_types = {TypeOf(x)}], [MCTarget EXCEPT !.denied_tags = {"odd"}],
   [MCTarget EXCEPT !.denied_epistemic = {"inferred"}],
   [MCTarget EXCEPT !.verified_types = {"claim"}], [MCTarget EXCEPT !.require_application = TRUE]}
  \cup {[MCTarget EXCEPT !.exclusions = e] : e \in ExclusionsFor(x)}

Applied == {[memory |-> m, key |-> NoKey] : m \in {a, b}}

RuleCallsFor(x) ==
  LET calls == {Call(Odd(x), p, MCTarget) : p \in ProfilesFor(x)}
               \cup {Call(Odd(x), MCProfile, g) : g \in TargetsFor(x)}
               \cup {[Call(Odd(x), MCProfile, MCTarget) EXCEPT !.exclusions = e] :
                       e \in ExclusionsFor(x)}
      ceilings == {[Call([Odd(x) EXCEPT ![x].sensitivity = n], MCProfile, MCTarget)
                      EXCEPT !.profile.max_sensitivity = i, !.target.max_sensitivity = j] :
                      n \in 0 .. 3, i \in 0 .. 2, j \in 0 .. 2}
  IN  {[q EXCEPT !.applications = f, !.profile.dependencies = Policy(2, TRUE, i)] :
         q \in calls \cup ceilings, f \in {{}, Applied}, i \in BOOLEAN}

(***************************************************************************)
(* Endpoints by semantic key, given or derived, unique or not; a profile   *)
(* without expansion; tasks.                                               *)
(***************************************************************************)
KeyedGraphs ==
  {[[Odd(b) EXCEPT ![b].key = k, ![a].key = j, ![c] = Plain]
      EXCEPT ![link1].link = [from |-> p, to |-> q]] :
     k \in {key, other, NoKey}, j \in {key, NoKey},
     p \in {Id(a), Id(link3), Named(other)},
     q \in {Id(b), Named(key), [memory |-> b, key |-> key], Named(NoKey)}}

KeyedCalls ==
  {[Call(g, MCProfile, MCTarget) EXCEPT !.applications = f, !.profile.dependencies.enabled = d] :
     g \in KeyedGraphs, d \in BOOLEAN,
     f \in {{}, {[memory |-> b, key |-> other]},
            {[memory |-> b, key |-> other], [memory |-> b, key |-> key]},
            {[memory |-> c, key |-> key]}}}

TaskCalls ==
  {[Call([Odd(b) EXCEPT ![a].terms = {"rust"}, ![b].notes = {"rust", "parser"}], MCProfile, MCTarget)
      EXCEPT !.task = w, !.tags = g, !.profile.include_tags = {},
             !.profile.task = [enabled |-> e, min_matches |-> n, search_notes |-> v,
                               aliases |-> {[phrase |-> {"code"}, alias |-> {"rust"}]}]] :
     w \in {{}, {"code"}, {"rust", "parser"}}, g \in {{}, {"odd"}},
     e \in BOOLEAN, n \in 1 .. 2, v \in BOOLEAN}

MCInputs ==
  (RuleCallsFor(a) \cup RuleCallsFor(b) \cup RuleCallsFor(link1) \cup KeyedCalls \cup TaskCalls)
    \cup GraphCalls

=============================================================================
