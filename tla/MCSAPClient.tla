---------------------------- MODULE MCSAPClient ----------------------------
(* Instances of SAPClient.  Its runs check liveness or have one caller, so  *)
(* none uses the symmetry of the callers.                                   *)
EXTENDS SAPClient
=============================================================================
