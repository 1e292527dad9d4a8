------------------------- MODULE MCDeadLetterQueue -------------------------
(* Instances of DeadLetterQueue for TLC. *)
EXTENDS DeadLetterQueue

CONSTANTS p1, p2

\* Two listens, a second apart.
Pair        == {p1, p2}
PairDates   == p1 :> 1 @@ p2 :> 2
PairListens == p1 :> 1 @@ p2 :> 2
=============================================================================
