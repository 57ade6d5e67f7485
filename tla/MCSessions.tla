----------------------------- MODULE MCSessions -----------------------------
(* Instances of Sessions for TLC. *)
EXTENDS Sessions, TLC

CONSTANTS v, w, p, q

MCRequests == {v, w}
MCPasswords == {p, q}
MCSymmetry == Permutations(MCRequests) \cup Permutations(MCPasswords)
=============================================================================
