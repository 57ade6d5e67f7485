------------------------- MODULE MCMeterAssignment -------------------------
(* Instances of MeterAssignment for TLC. *)
EXTENDS MeterAssignment, TLC

CONSTANTS u, v, r, s, t, a, k

MCUsers == {u, v}
MCRegistrations == {r, s, t}
MCAdmins == {a}
MCBulks == {k}
MCOwner == r :> u @@ s :> v @@ t :> u @@ a :> u
MCWish == a :> 1
MCSymmetry == Permutations({r, t})
=============================================================================
