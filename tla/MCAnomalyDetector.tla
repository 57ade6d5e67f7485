------------------------- MODULE MCAnomalyDetector -------------------------
(* Instances of AnomalyDetector for TLC. *)
EXTENDS AnomalyDetector, TLC

CONSTANTS m1, m2

MCLoads == {1, 4, 7, 24}
MCMeters == {m1, m2}
MCSymmetry == Permutations(MCMeters)
=============================================================================
