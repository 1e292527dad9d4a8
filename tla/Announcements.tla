--------------------------- MODULE Announcements ---------------------------
(***************************************************************************)
(* What a source promises its clients: every listen it learns of is told   *)
(* to each client the source is configured for, once in the life of the    *)
(* process, and the listens of one announcement in the order of their      *)
(* dates.  Other clients hear nothing.                                     *)
(***************************************************************************)
EXTENDS Naturals, Sequences, SequencesExt, FiniteSetsExt

CONSTANTS
  Clients,
  Subscribed,  \* the clients the source is configured for
  MaxListens   \* bound on the listens of a behaviour

VARIABLES
  listens,     \* listens so far: 1..listens, in the order of their dates
  told         \* what each client was told since the process started

vars == <<listens, told>>

Init == listens \in 0..MaxListens /\ told = [c \in Clients |-> <<>>]

\* The listens of S by their dates.
InOrder(S) ==
  [i \in 1..Cardinality(S) |-> CHOOSE l \in S : Cardinality({m \in S : m < l}) = i - 1]

Listen ==
  /\ listens < MaxListens
  /\ listens' = listens + 1
  /\ UNCHANGED told

Tell ==
  \E S \in SUBSET (1..listens) :
    /\ S # {}
    /\ \A c \in Subscribed : S \cap ToSet(told[c]) = {}
    /\ told' = [c \in Clients |->
                  IF c \in Subscribed THEN told[c] \o InOrder(S) ELSE told[c]]
    /\ UNCHANGED listens

Restart == told' = [c \in Clients |-> <<>>] /\ UNCHANGED listens

Next == Listen \/ Tell \/ Restart

Spec == Init /\ [][Next]_vars
=============================================================================
