----------------------------- MODULE MCArchives -----------------------------
(***************************************************************************)
(* A small instance of Archives for TLC: a workspace with every kind of    *)
(* file, one with an approved candidate and the temporary file of a dead   *)
(* command, and archives made elsewhere: whole ones of both classes, one   *)
(* whose bytes are not the listed ones, one of a later version, and ones   *)
(* that are consistent but do not make a governed workspace.               *)
(***************************************************************************)
EXTENDS Archives, TLC

CONSTANTS core, evidence, fact, style

Fresh == [n \in {"policy"} |-> {}]

Approved ==
  [n \in {"curation policy", "curation temp", "candidates", "decisions"} |->
     IF n \in {"candidates", "decisions"} THEN {fact} ELSE {}]
  @@ [n \in {"observations", "receipts"} |-> {core}] @@ Fresh

Grown ==
  [n \in {"applications", "mutations", "supersession", "memory", "snapshots", "content", "index",
          "enrichment"} |->
     CASE n = "applications" -> {[id |-> fact, version |-> 0]}
       [] n = "supersession" -> {}
       [] n = "enrichment" -> {style}
       [] n \in {"mutations", "memory"} -> {[id |-> fact, version |-> 1]}
       [] OTHER -> {evidence}]
  @@ [n \in {"observations", "receipts"} |-> {core, evidence}]
  @@ [n \in DOMAIN Approved \ {"curation temp"} |-> Approved[n]]

Made(files) == [class |-> "minimum", known |-> TRUE, listed |-> files, members |-> files]

Whole == [n \in DOMAIN Grown \ {"content", "index", "snapshots"} |-> Grown[n]]

MCForeign == {
  Made(Whole), [Made(Grown) EXCEPT !.class = "full"],
  [Made(Whole) EXCEPT !.members = [n \in DOMAIN Whole |-> {}]],
  [Made(Whole) EXCEPT !.known = FALSE],
  [Made(Whole) EXCEPT !.class = "full"],
  Made([Whole EXCEPT !["memory"] = {}]),
  Made([Whole EXCEPT !["enrichment"] = {fact}]),
  Made([n \in {"README.txt"} |-> {}] @@ Whole)}

MCBeginnings ==
  [files : {Approved, Grown}, archive : {None}] \cup [files : {Nothing}, archive : MCForeign]

MCRequests ==
  {[class |-> c, extra |-> None] : c \in Classes} \cup {[class |-> "minimum", extra |-> style]}

MCSymmetry == Permutations(Paths) \cup Permutations(Procs)

MCCites == [c \in Candidates |-> core]

=============================================================================
