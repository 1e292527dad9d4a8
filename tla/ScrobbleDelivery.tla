-------------------------- MODULE ScrobbleDelivery --------------------------
(***************************************************************************)
(* What a scrobble client promises of the plays it is given, whatever its  *)
(* loop, its retries and its restarts do: a play stays pending until it is *)
(* scrobbled, refused or found not to need a scrobble, and a listen the    *)
(* service holds is not scrobbled again.                                   *)
(***************************************************************************)
EXTENDS Naturals

CONSTANTS
  Plays,   \* plays that sources may hand to the client
  Date,    \* their play dates
  Listen,  \* the listen each reports
  History  \* plays the service holds at first

VARIABLES
  pending,   \* handed to the client and not settled
  refused,   \* in the dead letter queue
  settled,   \* neither pending nor refused any more
  recorded   \* plays the service holds, whatever becomes of the client

vars == <<pending, refused, settled, recorded>>

Init ==
  /\ pending = {} /\ refused = {} /\ settled = {}
  /\ recorded = History

Announce(p) ==
  /\ p \notin pending \cup refused \cup settled
  /\ pending' = pending \cup {p}
  /\ UNCHANGED <<refused, settled, recorded>>

Known(p) == \E q \in recorded : Listen[q] = Listen[p]

\* The service records the play while the client still waits for its reply.
Scrobble(p) ==
  /\ p \in pending /\ ~Known(p)
  /\ recorded' = recorded \cup {p}
  /\ UNCHANGED <<pending, refused, settled>>

\* The play needs no scrobble (any more): its listen is recorded, or a scrobble
\* that is no older is.
Settle(p) ==
  /\ p \in pending
  /\ Known(p) \/ \E q \in recorded : Date[p] <= Date[q]
  /\ pending' = pending \ {p}
  /\ settled' = settled \cup {p}
  /\ UNCHANGED <<refused, recorded>>

Refuse(p) ==
  /\ p \in pending /\ ~Known(p)
  /\ pending' = pending \ {p}
  /\ refused' = refused \cup {p}
  /\ UNCHANGED <<settled, recorded>>

\* The process is started anew: what it held in memory is gone.
Restart ==
  /\ pending' = {} /\ refused' = {} /\ settled' = {}
  /\ UNCHANGED recorded

Next ==
  \/ \E p \in Plays : Announce(p) \/ Scrobble(p) \/ Settle(p) \/ Refuse(p)
  \/ Restart

Spec == Init /\ [][Next]_vars
=============================================================================
