-------------------------- MODULE MCMetadataCache --------------------------
(* One node name, and two calls that may be in progress.                   *)
EXTENDS MetadataCache

CONSTANTS n1, c1, c2
=============================================================================
