---------------------------- MODULE MCIngestion ----------------------------
(* Instances of Ingestion for TLC: a sender of a batch, and one that posts  *)
(* a reading of the batch alone.                                            *)
EXTENDS Ingestion, TLC

CONSTANTS a, b, x, y

MCReadings == {a, b}
MCSenders  == {x, y}
MCSingles  == {y}
MCLoad     == (x :> {a, b}) @@ (y :> {b})
=============================================================================
