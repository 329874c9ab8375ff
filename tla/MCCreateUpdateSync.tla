------------------------- MODULE MCCreateUpdateSync -------------------------
(* Two services wait for nodes while three others are updated. *)
EXTENDS CreateUpdateSync, TLC

CONSTANTS e1, e2, u1, u2, u3

MCEnsurer == {e1, e2}
MCUpdater == {u1, u2, u3}
=============================================================================
