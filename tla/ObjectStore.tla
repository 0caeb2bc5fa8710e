---------------------------- MODULE ObjectStore ----------------------------
(***************************************************************************)
(* What tools/storage.py promises of an encrypted store: a map from        *)
(* logical paths to data.  Only put and delete change the map.  From the   *)
(* moment a deletion has begun its path takes no new data, until the data  *)
(* is gone and the deletion is recorded.  Nothing changes while the store  *)
(* is sealed by a key rotation.                                            *)
(***************************************************************************)
CONSTANTS Paths, Data, Absent

VARIABLES
  contents,  \* [Paths -> Data \cup {Absent}]
  doomed,    \* the paths whose deletion has begun
  sealed     \* a key rotation is in progress

vars == <<contents, doomed, sealed>>

Init == contents = [x \in Paths |-> Absent] /\ doomed = {} /\ sealed = FALSE

Put(x, d) ==
  /\ ~ sealed /\ x \notin doomed
  /\ contents' = [contents EXCEPT ![x] = d]
  /\ UNCHANGED <<doomed, sealed>>

Doom(x) ==
  /\ ~ sealed /\ contents[x] # Absent
  /\ doomed' = doomed \cup {x}
  /\ UNCHANGED <<contents, sealed>>

Erase(x) ==
  /\ ~ sealed /\ x \in doomed
  /\ contents' = [contents EXCEPT ![x] = Absent]
  /\ UNCHANGED <<doomed, sealed>>

Finish(x) ==
  /\ ~ sealed /\ x \in doomed /\ contents[x] = Absent
  /\ doomed' = doomed \ {x}
  /\ UNCHANGED <<contents, sealed>>

Seal == sealed' = ~ sealed /\ UNCHANGED <<contents, doomed>>

Next ==
  \/ \E x \in Paths : Doom(x) \/ Erase(x) \/ Finish(x) \/ \E d \in Data : Put(x, d)
  \/ Seal

Spec == Init /\ [][Next]_vars

=============================================================================
