----------------------------- MODULE MCEnforcer -----------------------------
(* Instances of Enforcer: two process ids, so that an id can be reused. *)
EXTENDS Enforcer

TwoPids == {4, 8}
=============================================================================
