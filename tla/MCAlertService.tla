--------------------------- MODULE MCAlertService ---------------------------
(* Instances of AlertService for TLC.  A unit of time is a minute: the 30   *)
(* seconds of an outage are less than one, so OutageAfter is 0; the spans   *)
(* of five minutes are shortened to the horizon of the instance.            *)
EXTENDS AlertService, TLC

Symmetry == Permutations(Requests)
=============================================================================
