------------------------- MODULE MCStreamAggregator -------------------------
(* Instances of StreamAggregator for TLC.  Width: one tick is a minute, and *)
(* a 15-minute bucket lasts two ticks, enough for a bucket of one kind to   *)
(* end while one of the other kind goes on.                                 *)
EXTENDS StreamAggregator, TLC

MCKinds1m   == {"1m"}
MCKindsBoth == {"1m", "15m"}
MCWidth1m   == [k \in MCKinds1m |-> 1]
MCWidthBoth == [k \in MCKindsBoth |-> IF k = "1m" THEN 1 ELSE 2]

Symmetry == Permutations(Meters) \cup Permutations(Timers)
=============================================================================
