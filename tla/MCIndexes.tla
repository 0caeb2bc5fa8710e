----------------------------- MODULE MCIndexes -----------------------------
(***************************************************************************)
(* A small instance of Indexes for TLC: a memory in which a fact is        *)
(* replaced by another, a relationship joins them by one key and one       *)
(* memory, and a word becomes rarer.                                       *)
(***************************************************************************)
EXTENDS Indexes, TLC

Fact(id, active, words, supersedes) ==
  [id |-> id, active |-> active, words |-> words, refs |-> {7}, supersedes |-> supersedes,
   relationship |-> FALSE, content |-> None]

MCRelationship(id, content) ==
  [id |-> id, active |-> TRUE, words |-> <<"x">>, refs |-> {}, supersedes |-> None,
   relationship |-> TRUE, content |-> content]

Knows == [relation |-> "knows", left |-> [kind |-> "semantic", ref |-> 7],
          right |-> [kind |-> "memory", ref |-> 1]]

MCMemories == {
  {Fact(1, TRUE, <<"x", "y", "the">>, None), MCRelationship(2, Knows)},
  {Fact(1, FALSE, <<"x", "y", "the">>, None), Fact(3, TRUE, <<"y", "x", "x">>, 1),
   MCRelationship(2, Knows), MCRelationship(4, [Knows EXCEPT !.left = None])}}

MCQueries == {[terms |-> {"x", "y", "the"}, limit |-> 1], [terms |-> {"the"}, limit |-> 1]}

MCSymmetry == Permutations(Procs) \cup Permutations(Inodes)

MCDimension == [w \in Words |-> IF w = "y" THEN 1 ELSE 0]

=============================================================================
