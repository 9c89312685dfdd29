------------------------- MODULE MCApprovalMemory --------------------------
EXTENDS ApprovalMemory, TLC

(* People, documents and workers are interchangeable. *)
Interchangeable == Permutations(People) \cup Permutations(Docs) \cup Permutations(Workers)
=============================================================================
