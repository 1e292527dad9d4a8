-------------------------- MODULE MCScrobbleClient --------------------------
(* Instances of ScrobbleClient for TLC: who plays what when. *)
EXTENDS ScrobbleClient, TLC

CONSTANTS p1, p2, p3, p4

\* Two listens at one time.
Pair        == {p1, p2}
PairDates   == p1 :> 1 @@ p2 :> 1
PairListens == p1 :> 1 @@ p2 :> 2

\* One listen reported by two sources, and a later one.
Trio        == {p1, p2, p3}
TrioDates   == p1 :> 1 @@ p2 :> 1 @@ p3 :> 2
TrioListens == p1 :> 1 @@ p2 :> 1 @@ p3 :> 2

\* One listen reported twice, between an earlier and a later one.
Four        == {p1, p2, p3, p4}
FourDates   == p1 :> 1 @@ p2 :> 2 @@ p3 :> 3 @@ p4 :> 4
FourListens == p1 :> 1 @@ p2 :> 2 @@ p3 :> 2 @@ p4 :> 3
=============================================================================
