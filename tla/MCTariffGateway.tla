-------------------------- MODULE MCTariffGateway --------------------------
(* An instance of TariffGateway for TLC: an override the service accepts    *)
(* and one that only the gateway does.                                      *)
EXTENDS TariffGateway, TLC

Symmetry == Permutations(Requests)
=============================================================================
