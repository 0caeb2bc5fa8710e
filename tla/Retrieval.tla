----------------------------- MODULE Retrieval -----------------------------
(***************************************************************************)
(* What a search of the derived indexes promises (tools/indexes.py,        *)
(* search_cache): an answer computed from the canonical memory itself, as  *)
(* it is at one moment of the search, or an error.  There is no index in   *)
(* this module.                                                            *)
(***************************************************************************)
EXTENDS Integers, Sequences, FiniteSets

CONSTANTS
  Procs,      \* processes that search
  Memories,   \* the states of the memory: sets of records
  Queries,    \* queries: [terms, limit]
  Stopwords,  \* words that are not tokens
  None        \* no search, no answer yet

VARIABLES
  memory,     \* the canonical memory
  asked       \* what each process asked and what it was told

vars == <<memory, asked>>

Matched(r, q) == {t \in q.terms \ Stopwords : \E i \in DOMAIN r.words : r.words[i] = t}

Score(r, q) == Cardinality(Matched(r, q))

\* Only approved, active memory is found.
Candidates(m, q) == {r \in m : r.active /\ Matched(r, q) # {}}

\* More of the terms; among equals the smaller id.
Better(a, b, q) ==
  Score(a, q) > Score(b, q) \/ (Score(a, q) = Score(b, q) /\ a.id < b.id)

Rank(m, r, q) == Cardinality({c \in Candidates(m, q) : Better(c, r, q)})

\* The best records, at most q.limit of them, each with its place.
Answer(m, q) ==
  {[id |-> r.id, place |-> Rank(m, r, q), matched |-> Matched(r, q)] :
     r \in {c \in Candidates(m, q) : Rank(m, c, q) < q.limit}}

Init == memory \in Memories /\ asked = [p \in Procs |-> None]

Change == memory' \in Memories /\ UNCHANGED asked

Ask(p, q) ==
  /\ asked' = [asked EXCEPT ![p] = [query |-> q, found |-> None]]
  /\ UNCHANGED memory

Pending(p) == asked[p] # None /\ asked[p].found = None

Tell(p) ==
  /\ Pending(p)
  /\ asked' = [asked EXCEPT ![p] = [query |-> @.query, found |-> Answer(memory, @.query)]]
  /\ UNCHANGED memory

Refuse(p) ==
  /\ Pending(p)
  /\ asked' = [asked EXCEPT ![p] = None]
  /\ UNCHANGED memory

Next ==
  \/ Change
  \/ \E p \in Procs : Tell(p) \/ Refuse(p) \/ \E q \in Queries : Ask(p, q)

Spec == Init /\ [][Next]_vars

=============================================================================
