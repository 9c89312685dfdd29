--------------------------- MODULE MCTokenRefresh ---------------------------
(* Instances of TokenRefresh.  All its runs assume fairness, so none uses   *)
(* the symmetry of the requests.                                            *)
EXTENDS TokenRefresh
=============================================================================
