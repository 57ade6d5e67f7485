-------------------------- MODULE MCTariffService --------------------------
(* Instances of TariffService for TLC: the base price of the configuration, *)
(* 5.00 rupees, and its threshold of 0.01.                                  *)
EXTENDS TariffService, TLC

Symmetry == Permutations(Requests)
=============================================================================
