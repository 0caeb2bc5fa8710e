----------------------------- MODULE MCCuration -----------------------------
(***************************************************************************)
(* Small instances of Curation for TLC.  Contents "rust" and "go" answer   *)
(* the same semantic key, "note" has no key of its own.                    *)
(***************************************************************************)
EXTENDS Curation

MCContents == {"rust", "go", "note"}
MCDerivedKey == [c \in MCContents |-> IF c = "note" THEN "none" ELSE "language"]

MCProposal(content, sensitivity, epistemic, sourced) ==
  [type |-> "preference", content |-> content, sensitivity |-> sensitivity,
   confidence |-> 5, epistemic |-> epistemic, sourced |-> sourced]

Rust == MCProposal("rust", 1, "user_asserted", FALSE)
RustVerified == MCProposal("rust", 1, "verified", TRUE)
Go == MCProposal("go", 1, "parsed", TRUE)
Note == MCProposal("note", 1, "parsed", TRUE)

OneProposal == {Rust}
TwoProposals == {Rust, Go}
KeyedProposals == {Rust, Note}
VerifiedProposal == {RustVerified}

=============================================================================
