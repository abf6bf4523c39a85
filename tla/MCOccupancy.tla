----------------------------- MODULE MCOccupancy -----------------------------
(***************************************************************************)
(* Small instances of Occupancy: two sensors that share a group.           *)
(***************************************************************************)
EXTENDS Occupancy, TLC

CONSTANTS s1, s2, g1, g2, g3

MCTargets == s1 :> {g1, g2} @@ s2 :> {g2, g3}
MCKeepalive == {s1}

=============================================================================
