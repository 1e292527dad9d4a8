----------------------------- MODULE Discovery -----------------------------
(***************************************************************************)
(* How a source that reads a history finds new plays and hands them to its *)
(* clients: processBacklog(), the body of doPolling(), discover() and      *)
(* scrobble() of AbstractSource, and the fan-out of ScrobbleClients.       *)
(*                                                                         *)
(* Listens are numbered in the order of their dates.  Several calls of     *)
(* poll() may read the backlog at once; one of them polls (SourcePolling). *)
(***************************************************************************)
EXTENDS Integers, Sequences, SequencesExt, FiniteSetsExt

CONSTANTS
  Clients,         \* the clients ScrobbleClients has built
  Configured,      \* `clients` of the source: empty for all of them
  Polls,           \* calls of poll() under way at once (a bound)
  MaxStored,       \* plays kept in recentDiscoveredPlays
  PollLimit,       \* plays that one poll reads
  BacklogLimit,    \* plays that a backlog reads
  ScrobbleBacklog, \* options.scrobbleBacklog
  OldestFirst,     \* the source sorts what it reads by date
  MaxListens, MaxFaults, MaxStarts, \* bounds: listens, failed requests, calls of poll()
  MaxLag           \* bound on the listens made while one answer is on its way

ASSUME DiscoveryAssumption ==
  /\ Configured \subseteq Clients
  /\ {MaxStored, PollLimit, BacklogLimit} \subseteq Nat \ {0}
  /\ {ScrobbleBacklog, OldestFirst} \subseteq BOOLEAN
  /\ {MaxListens, MaxFaults, MaxStarts, MaxLag} \subseteq Nat

VARIABLES
  listens,     \* listens the service knows: 1..listens
  discovered,  \* recentDiscoveredPlays of the platform, in the order of discovery
  queued,      \* what queueScrobble() of each client was called with, in this process
  pc,          \* where each call of poll() waits
  answer,      \* what the service returned to it
  faults, starts

vars == <<listens, discovered, queued, pc, answer, faults, starts>>

\* The loop of doPolling(): a request, the pause before a play that is seconds old is
\* handed on, and the sleep to the next one.
Looping == {"poll", "settle", "sleep"}
----------------------------------------------------------------------------
\* The service's latest plays, and the order the source returns them in.
Latest(n) ==
  LET k == IF n < listens THEN n ELSE listens
  IN  [i \in 1..k |-> IF OldestFirst THEN listens - k + i ELSE listens + 1 - i]

\* Mutant of AlreadyDiscovered: only the newest entry is compared.
LastDiscovered(l, list) == list # <<>> /\ list[Len(list)] = l

\* existingDiscovered(): plays of one listen match.
AlreadyDiscovered(l, list) == l \in ToSet(list)

\* FixedSizeList.add: the earliest entry leaves a full list.
AddToDiscovered(l, list) ==
  Append(IF Len(list) < MaxStored THEN list ELSE Tail(list), l)

\* discover(): one play after the other, so that a play is compared with those
\* found just before it.
DiscoverOne(acc, l) ==
  IF AlreadyDiscovered(l, acc.list)
    THEN acc
    ELSE [list |-> AddToDiscovered(l, acc.list), new |-> acc.new \cup {l}]
Discover(plays) ==
  LET after[n \in 0..Len(plays)] ==
        IF n = 0 THEN [list |-> discovered, new |-> {}]
                 ELSE DiscoverOne(after[n - 1], plays[n])
  IN  after[Len(plays)]

\* Mutant of Batch: only the newest of the new plays is handed on.
OnlyNewest(S) == IF S = {} THEN <<>> ELSE <<Max(S)>>

\* scrobble(): the event carries the new plays by date, each behind as many as precede
\* it; ScrobbleClients queues them with every client the source names, or with all.
Batch(S)   == [i \in 1..Cardinality(S) |->
                 CHOOSE l \in S : Cardinality({m \in S : m < l}) = i - 1]
Subscribed == IF Configured = {} THEN Clients ELSE Configured
HandOn(S)  ==
  queued' = [c \in Clients |-> IF c \in Subscribed THEN queued[c] \o Batch(S) ELSE queued[c]]

Goto(c, l) == pc' = [pc EXCEPT ![c] = l]
Fault      == faults < MaxFaults /\ faults' = faults + 1

Init ==
  /\ listens \in 0..MaxListens
  /\ discovered = <<>>
  /\ queued = [c \in Clients |-> <<>>]
  /\ pc = [c \in Polls |-> "free"]
  /\ answer = [c \in Polls |-> <<>>]
  /\ faults = 0 /\ starts = 0
----------------------------------------------------------------------------
\* Somebody listens to something.
Listen ==
  /\ listens < MaxListens
  /\ \A c \in Polls : answer[c] # <<>> => listens < Max(ToSet(answer[c])) + MaxLag
  /\ listens' = listens + 1
  /\ UNCHANGED <<discovered, queued, pc, answer, faults, starts>>

\* poll() is called: the backlog is requested.
Start(c) ==
  /\ pc[c] = "free" /\ starts < MaxStarts
  /\ starts' = starts + 1
  /\ Goto(c, "backlog")
  /\ UNCHANGED <<listens, discovered, queued, answer, faults>>

\* The service answers a request for the backlog.
BacklogAnswered(c) ==
  /\ pc[c] = "backlog"
  /\ answer' = [answer EXCEPT ![c] = Latest(BacklogLimit)]
  /\ Goto(c, "gotBacklog")
  /\ UNCHANGED <<listens, discovered, queued, faults, starts>>

\* processBacklog() discovers what the answer holds and hands it on when configured
\* to; then the call polls, or returns because another one does.
ProcessBacklog(c) ==
  /\ pc[c] = "gotBacklog"
  /\ discovered' = Discover(answer[c]).list
  /\ IF ScrobbleBacklog THEN HandOn(Discover(answer[c]).new) ELSE UNCHANGED queued
  /\ answer' = [answer EXCEPT ![c] = <<>>]
  /\ Goto(c, IF \E d \in Polls : pc[d] \in Looping THEN "free" ELSE "poll")
  /\ UNCHANGED <<listens, faults, starts>>

\* The service answers a poll; a play that is seconds old delays what follows.
PollAnswered(c) ==
  /\ pc[c] = "poll"
  /\ answer' = [answer EXCEPT ![c] = Latest(PollLimit)]
  /\ Goto(c, "settle")
  /\ UNCHANGED <<listens, discovered, queued, faults, starts>>

\* The body of doPolling() after the pause.
PollDiscovers(c) ==
  /\ pc[c] = "settle"
  /\ discovered' = Discover(answer[c]).list
  /\ HandOn(Discover(answer[c]).new)
  /\ answer' = [answer EXCEPT ![c] = <<>>]
  /\ Goto(c, "sleep")
  /\ UNCHANGED <<listens, faults, starts>>

WakeUp(c) ==
  /\ pc[c] = "sleep"
  /\ Goto(c, "poll")
  /\ UNCHANGED <<listens, discovered, queued, answer, faults, starts>>

\* A request fails: poll() returns, and the heartbeat calls it again.
RequestFails(c) ==
  /\ pc[c] \in {"backlog", "poll"} /\ Fault
  /\ Goto(c, "free")
  /\ UNCHANGED <<listens, discovered, queued, answer, starts>>

\* A user restarts the source: its loop ends.
Stop(c) ==
  /\ pc[c] = "sleep" /\ starts < MaxStarts
  /\ Goto(c, "free")
  /\ UNCHANGED <<listens, discovered, queued, answer, faults, starts>>

\* The process ends and starts again: nothing of this is persisted.
Crash ==
  /\ Fault
  /\ discovered' = <<>>
  /\ queued' = [c \in Clients |-> <<>>]
  /\ pc' = [c \in Polls |-> "free"]
  /\ answer' = [c \in Polls |-> <<>>]
  /\ UNCHANGED <<listens, starts>>

\* The heartbeat finds that nobody polls.
Heartbeat(c) ==
  /\ pc[c] = "free"
  /\ \A d \in Polls : pc[d] \notin Looping
  /\ \A d \in Polls : pc[d] # "backlog"
  /\ Goto(c, "backlog")
  /\ UNCHANGED <<listens, discovered, queued, answer, faults, starts>>

Goes(c) ==
  BacklogAnswered(c) \/ ProcessBacklog(c) \/ PollAnswered(c) \/ PollDiscovers(c) \/ WakeUp(c)

Next ==
  \/ Listen \/ Crash
  \/ \E c \in Polls : Start(c) \/ Goes(c) \/ RequestFails(c) \/ Stop(c) \/ Heartbeat(c)

Spec == Init /\ [][Next]_vars

\* Requests are answered, pauses end, and the heartbeat comes round.
FairSpec == /\ Spec
            /\ \A c \in Polls : WF_vars(Goes(c))
            /\ WF_vars(\E c \in Polls : Heartbeat(c))
----------------------------------------------------------------------------
\* The source keeps the promise of Announcements, whichever calls of poll() read the
\* same backlog at once, hold stale answers, are stopped, fail or die with the process.
Promise == INSTANCE Announcements WITH told <- queued
KeepsPromise == Promise!Spec

\* Every listen reaches every client the source is configured for, however requests
\* fail and the process restarts, unless later ones take its place in the answers.
ListensReachClients ==
  \A l \in 1..MaxListens : \A c \in Subscribed :
    (l <= listens) ~> (l \in ToSet(queued[c]) \/ l + PollLimit <= listens)
=============================================================================
