--------------------------- MODULE MCApprovalDB ----------------------------
(* Instances of ApprovalDB.  Handlers are split over two workers: h1 and    *)
(* every handler not named runs in w1, h2 in w2.                            *)
EXTENDS ApprovalDB, TLC

CONSTANTS h2, w1, w2

SplitOverWorkers == [h \in Handlers |-> IF h = h2 THEN w2 ELSE w1]

Documents == Permutations(Docs)

RequestsAndDocuments == Permutations(Requests) \cup Permutations(Docs)
=============================================================================
