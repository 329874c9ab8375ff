------------------------- MODULE MCCloudCredential -------------------------
(* Calls about load balancers and for node metadata, and the watcher. *)
EXTENDS CloudCredential

CONSTANTS c1, c2, r1, r2
=============================================================================
