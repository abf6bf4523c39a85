----------------------------- MODULE MCSessions -----------------------------
(***************************************************************************)
(* Small instances of Lifecycle and its Sessions: two clients compete for  *)
(* one slot.                                                               *)
(***************************************************************************)
EXTENDS Lifecycle

CONSTANTS c1, c2

TwoClients == {c1, c2}

=============================================================================
