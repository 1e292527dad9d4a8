--------------------------- MODULE ScrobbleClient ---------------------------
(***************************************************************************)
(* The scrobble queue of AbstractScrobbleClient: sources queue plays, one  *)
(* processing loop submits them upstream in play-date order, checks each   *)
(* for a scrobble that exists already, moves plays the service refuses to  *)
(* the dead letter queue, and retries, stops and restarts.                 *)
(*                                                                         *)
(* JavaScript runs a callback to completion: control changes hands only at *)
(* an await that leaves the event loop turn (a request or a timer).  pc[r] *)
(* is where coroutine r waits; the labels in Running are the stretches of  *)
(* code between two awaits, during which nothing else may step.            *)
(***************************************************************************)
EXTENDS Naturals, Sequences, FiniteSets, FiniteSetsExt, Functions

CONSTANTS
  Plays,          \* queue entries: each has the nanoid queueScrobble gives it
  Date,           \* Date[p]: the play date of p, in seconds
  Listen,         \* Listen[p]: plays of one listen match in existingScrobble
  NewFromSource,  \* plays with meta.newFromSource
  History,        \* plays the service holds when the program is first started
  Runners,        \* coroutines that can run startScrobbling at the same time
  NoPlay,         \* not a play: nothing is in flight
  MaxStored,      \* MAX_STORED_SCROBBLES
  InitialFetch,   \* refreshInitialCount
  MaxRetries,     \* maxPollRetries
  RefreshEnabled, \* refreshEnabled
  PromptRefresh,  \* refreshMinInterval passes between any two queue checks
  LostReplies,    \* a request may be accepted upstream and still fail here
  MaxFaults,      \* bound: failures of requests and of initialisations
  MaxRequests,    \* bound: POST /api/client/init requests
  MaxCrashes      \* bound: crashes of the process

ASSUME PlaysAssumption ==
  /\ Date \in [Plays -> Nat \ {0}]
  /\ Plays = DOMAIN Listen
  /\ NewFromSource \subseteq Plays
  /\ History \subseteq Plays
  /\ NoPlay \notin Plays

ASSUME LimitsAssumption ==
  /\ MaxStored \in Nat \ {0}
  /\ InitialFetch \in 1 .. MaxStored
  /\ MaxRetries \in Nat
  /\ RefreshEnabled \in BOOLEAN
  /\ PromptRefresh \in BOOLEAN
  /\ LostReplies \in BOOLEAN
  /\ MaxFaults \in Nat
  /\ MaxRequests \in Nat
  /\ MaxCrashes \in Nat

VARIABLES
  queue,        \* queuedScrobbles
  dead,         \* deadLetterScrobbles
  scrobbled,    \* scrobbledPlayObjs: what this process scrobbled, in which order
  tracksScrobbled, \* tracksScrobbled: how many that were
  recent,       \* recentScrobbles: what the last refresh returned
  oldest,       \* oldestScrobbleTime, 0 when undefined
  newest,       \* newestScrobbleTime, 0 when undefined
  lastDate,     \* lastScrobbledPlayDate, 0 when undefined
  lastCheck,    \* lastScrobbleCheck, 0 before the first refresh
  scrobbling,   \* scrobbling
  stopSignal,   \* userScrobblingStopSignal # undefined
  retries,      \* scrobbleRetries
  ready,        \* isReady(): built, connected and authenticated
  initializing, \* initializing
  pc,           \* where each coroutine is
  inflight,     \* currQueuedPlay of each coroutine
  window,       \* what the service answered each coroutine's fetch with
  accepted,     \* how often the service has recorded each play
  announced,    \* plays with a 'scrobbleQueued' event since the process started
  dequeued,     \* plays with a 'scrobbleDequeued' event since then
  now,          \* the clock
  faults, requests, crashes

listVars    == <<queue, dead>>
recordVars  == <<scrobbled, tracksScrobbled, lastDate>>
refreshVars == <<recent, oldest, newest, lastCheck>>
loopVars    == <<scrobbling, stopSignal, retries>>
readyVars   == <<ready, initializing>>
eventVars   == <<announced, dequeued>>
boundVars   == <<faults, requests, crashes>>
worldVars   == <<accepted, now>>  \* what outlives a crash
vars == <<listVars, recordVars, refreshVars, loopVars, readyVars, eventVars,
          boundVars, pc, inflight, window, worldVars>>

-----------------------------------------------------------------------------
\* Labels of the code between two awaits, of the awaits of doProcessing, and
\* of the awaits outside it.
Running    == {"start", "outer", "inner", "take", "throw"}
Processing == {"outer", "inner", "refresh", "take", "submit", "reply", "sleep"}
Waiting    == {"idle", "stopping", "init", "initFetch", "beat", "beatFetch", "backoff"}

Yielded == \A r \in Runners : pc[r] \notin Running

Goto(r, label) == pc' = [pc EXCEPT ![r] = label]

\* Mutant of Sortings: push without sort.
Unsorted(s) == {s}

\* Array.sort with sortByOldestPlayDate: it never returns 0 for two dates, so plays
\* of one date may come out in any order.  What has no date goes last.
NotAfter(a, b) == b = NoPlay \/ (a # NoPlay /\ Date[a] <= Date[b])
Sortings(s) ==
  { [i \in DOMAIN s |-> s[f[i]]] :
      f \in {g \in Bijection(DOMAIN s, DOMAIN s) :
               \A i, j \in DOMAIN s : i < j => NotAfter(s[g[i]], s[g[j]])} }

\* What the service can return when asked for its `limit` latest scrobbles.
Upstream == {p \in Plays : accepted[p] > 0}
Latest(limit) ==
  { S \in SUBSET Upstream :
      /\ Cardinality(S) = IF Cardinality(Upstream) < limit
                          THEN Cardinality(Upstream) ELSE limit
      /\ \A p \in S, q \in Upstream \ S : Date[q] <= Date[p] }

\* Mutants of TooOld and AlreadyScrobbled: the wrong date, and half of the record.
NotAfterLastCheck(p)  == Date[p] <= lastCheck
ScrobbledHere(p)      == \E s \in scrobbled : Listen[s.play] = Listen[p]
\* timeFrameIsValid (negated), and alreadyScrobbled by way of existingScrobble.
TooOld(p) == oldest # 0 /\ Date[p] <= oldest
AlreadyScrobbled(p) == \E q \in {s.play : s \in scrobbled} \cup recent : Listen[q] = Listen[p]

\* Mutant of ShouldRefresh: only ever refreshes what is stale.
OnlyWhenStale(minPassed, stale) == RefreshEnabled /\ stale

\* shouldRefreshScrobble, given whether refreshMinInterval has passed since the
\* last check and whether that check is older than refreshStaleAfter.
ShouldRefresh(minPassed, stale) ==
  /\ RefreshEnabled
  /\ IF \/ lastCheck < Date[queue[Len(queue)]]
        \/ queue[1] \in NewFromSource /\ lastDate > Date[queue[1]]
     THEN minPassed
     ELSE stale
MinIntervalPassed == IF lastCheck = 0 \/ PromptRefresh THEN {TRUE} ELSE BOOLEAN
Stale             == IF lastCheck = 0 THEN {TRUE} ELSE BOOLEAN

Earliest(p, S) == \A q \in S : Date[p] <= Date[q]
Newest(p, S)   == \A q \in S : Date[q] <= Date[p]

\* refreshScrobbles, when the service has answered: recentScrobbles, the dates at its
\* ends, and the scrobbled list without the plays timeFrameIsValid refuses from now on.
Fetching   == {"refresh", "initFetch", "beatFetch"}
Unanswered == {NoPlay}
Refresh(answer) ==
  /\ lastCheck' = now
  /\ IF RefreshEnabled
     THEN /\ answer # Unanswered
          /\ recent' = answer
          /\ IF answer = {}
             THEN UNCHANGED <<oldest, newest, scrobbled>>
             ELSE /\ \E p \in answer : Earliest(p, answer) /\ oldest' = Date[p]
                  /\ \E p \in answer : Newest(p, answer) /\ newest' = Date[p]
                  /\ scrobbled' = {s \in scrobbled : Date[s.play] > oldest'}
     ELSE UNCHANGED <<recent, oldest, newest, scrobbled>>

\* FixedSizeList.add: the earliest entry leaves a full list.
Record(p) ==
  /\ tracksScrobbled' = tracksScrobbled + 1
  /\ scrobbled' = {s \in scrobbled : \/ Cardinality(scrobbled) < MaxStored
                                    \/ \E t \in scrobbled : t.nth < s.nth}
                  \cup {[nth |-> tracksScrobbled, play |-> p]}
  /\ lastDate' = Date[p]

\* The 'scrobbleDequeued' event, and a mutant of it.
NotReported(p)    == UNCHANGED dequeued
ReportDequeued(p) == dequeued' = dequeued \cup {p}

Fault == faults < MaxFaults /\ faults' = faults + 1

-----------------------------------------------------------------------------
Init ==
  /\ queue = <<>> /\ dead = <<>>
  /\ scrobbled = {} /\ tracksScrobbled = 0
  /\ recent = {} /\ oldest = 0 /\ newest = 0 /\ lastDate = 0 /\ lastCheck = 0
  /\ scrobbling = FALSE /\ stopSignal = FALSE /\ retries = 0
  /\ ready = FALSE /\ initializing = FALSE
  /\ pc = [r \in Runners |-> "idle"]
  /\ inflight = [r \in Runners |-> NoPlay]
  /\ window = [r \in Runners |-> Unanswered]
  /\ accepted = [p \in Plays |-> IF p \in History THEN 1 ELSE 0]
  /\ announced = {} /\ dequeued = {}
  /\ now = 1
  /\ faults = 0 /\ requests = 0 /\ crashes = 0

\* The service answers a fetch; the answer may be old when the client applies it.
UpstreamAnswers(r) ==
  /\ pc[r] \in Fetching /\ window[r] = Unanswered /\ RefreshEnabled
  /\ \E S \in Latest(IF pc[r] = "refresh" THEN MaxStored ELSE InitialFetch) :
       window' = [window EXCEPT ![r] = S]
  /\ UNCHANGED <<listVars, recordVars, refreshVars, loopVars, readyVars, eventVars,
                 boundVars, pc, inflight, worldVars>>

\* queueScrobble, called by a source through ScrobbleClients.scrobble.
QueueScrobble(p) ==
  /\ p \notin announced /\ Date[p] <= now
  /\ announced' = announced \cup {p}
  /\ queue' \in Sortings(Append(queue, p))
  /\ UNCHANGED <<dead, recordVars, refreshVars, loopVars, readyVars, dequeued,
                 boundVars, pc, inflight, window, worldVars>>

\* Time passes, up to the latest play date.
Tick ==
  /\ \E p \in Plays : now < Date[p]
  /\ now' = now + 1
  /\ UNCHANGED <<listVars, recordVars, refreshVars, loopVars, readyVars,
                 eventVars, boundVars, pc, inflight, window, accepted>>

-----------------------------------------------------------------------------
\* The heartbeat of a client that is not ready: tryInitialize, then
\* HeartbeatStart when it succeeds.
HeartbeatInit(r) ==
  /\ pc[r] = "idle" /\ ~ready /\ ~initializing
  /\ initializing' = TRUE
  /\ Goto(r, "beat")
  /\ UNCHANGED <<listVars, recordVars, refreshVars, loopVars, ready, eventVars,
                 boundVars, inflight, window, worldVars>>

\* The heartbeat of a ready client that is not scrobbling: initScrobbleMonitoring,
\* which calls startScrobbling.  Heartbeats do not overlap.
HeartbeatStart(r) ==
  /\ pc[r] = "idle" /\ ready /\ ~scrobbling
  /\ \A q \in Runners : pc[q] \notin {"beat", "beatFetch"}
  /\ retries' = 0
  /\ Goto(r, "start")
  /\ UNCHANGED <<listVars, recordVars, refreshVars, scrobbling, stopSignal,
                 readyVars, eventVars, boundVars, inflight, window, worldVars>>

\* POST /api/client/init while the loop runs: tryStopScrobbling raises the signal.
RequestStop(r) ==
  /\ pc[r] = "idle" /\ scrobbling
  /\ requests < MaxRequests /\ requests' = requests + 1
  /\ stopSignal' = TRUE
  /\ Goto(r, "stopping")
  /\ UNCHANGED <<listVars, recordVars, refreshVars, scrobbling, retries,
                 readyVars, eventVars, faults, crashes, inflight, window, worldVars>>

\* Ten seconds pass and the signal is still there: status 500, signal left set.
StopTimedOut(r) ==
  /\ pc[r] = "stopping" /\ stopSignal
  /\ Goto(r, "idle")
  /\ UNCHANGED <<listVars, recordVars, refreshVars, loopVars, readyVars,
                 eventVars, boundVars, inflight, window, worldVars>>

\* initScrobbleMonitoring({force}): initialize first when the client is not ready
\* or the request forces it, else call startScrobbling, which resets the retries
\* even when the loop runs already.
InitScrobbleMonitoring(r, force) ==
  /\ IF ready /\ ~force
     THEN /\ retries' = 0
          /\ Goto(r, IF scrobbling THEN "idle" ELSE "start")
          /\ UNCHANGED initializing
     ELSE /\ UNCHANGED retries
          /\ initializing' = TRUE
          /\ Goto(r, IF initializing THEN "idle" ELSE "init")
  /\ UNCHANGED <<listVars, recordVars, refreshVars, scrobbling, stopSignal, ready,
                 eventVars, faults, crashes, inflight, window, worldVars>>

\* The rest of the request, once the loop has stopped.
StopAcknowledged(r) ==
  /\ pc[r] = "stopping" /\ ~stopSignal
  /\ UNCHANGED requests
  /\ \E force \in BOOLEAN : InitScrobbleMonitoring(r, force)

\* POST /api/client/init when the loop is not running.
RequestStart(r) ==
  /\ pc[r] = "idle" /\ ~scrobbling
  /\ requests < MaxRequests /\ requests' = requests + 1
  /\ \E force \in BOOLEAN : InitScrobbleMonitoring(r, force)

\* The build, connection and authentication stages of initialize() succeed.  The
\* client is ready from here on, while postInitialize still fetches scrobbles.
StagesSucceed(r) ==
  /\ pc[r] \in {"init", "beat"}
  /\ ready' = TRUE
  /\ Goto(r, IF pc[r] = "init" THEN "initFetch" ELSE "beatFetch")
  /\ UNCHANGED <<listVars, recordVars, refreshVars, loopVars, initializing, eventVars,
                 boundVars, inflight, window, worldVars>>

\* postInitialize ends: a heartbeat leaves the rest to HeartbeatStart, and
\* initScrobbleMonitoring goes on to startScrobbling.
InitSucceeds(r) ==
  /\ pc[r] \in {"initFetch", "beatFetch"}
  /\ initializing' = FALSE
  /\ Refresh(window[r])
  /\ window' = [window EXCEPT ![r] = Unanswered]
  /\ lastDate' = newest'
  /\ UNCHANGED tracksScrobbled
  /\ IF pc[r] = "beatFetch"
     THEN Goto(r, "idle") /\ UNCHANGED retries
     ELSE Goto(r, IF scrobbling THEN "idle" ELSE "start") /\ retries' = 0
  /\ UNCHANGED <<listVars, scrobbling, stopSignal, ready, eventVars, boundVars, inflight,
                 worldVars>>

\* initialize() throws.  A failed stage leaves the client not ready; a failed
\* fetch of postInitialize leaves it ready, not initialized and not started.
InitFails(r) ==
  /\ pc[r] \in {"init", "beat", "initFetch", "beatFetch"}
  /\ Fault
  /\ ready' = (pc[r] \in {"initFetch", "beatFetch"})
  /\ initializing' = FALSE
  /\ window' = [window EXCEPT ![r] = Unanswered]
  /\ Goto(r, "idle")
  /\ UNCHANGED <<listVars, recordVars, refreshVars, loopVars, eventVars,
                 requests, crashes, inflight, worldVars>>

-----------------------------------------------------------------------------
\* The loop of startScrobbling: one more doProcessing, if retries are left.
RetriesLeft == retries <= MaxRetries  \* mutant of MayProcess: no check of scrobbling
MayProcess  == retries <= MaxRetries /\ ~scrobbling
EnterProcessing(r) ==
  /\ pc[r] = "start"
  /\ IF MayProcess
     THEN Goto(r, "outer") /\ scrobbling' = TRUE
     ELSE Goto(r, "idle") /\ UNCHANGED scrobbling
  /\ UNCHANGED <<listVars, recordVars, refreshVars, stopSignal, retries, readyVars,
                 eventVars, boundVars, inflight, window, worldVars>>

\* doStopScrobbling, and a mutant of it: the signal is not acknowledged.
KeepSignal     == scrobbling' = FALSE /\ UNCHANGED stopSignal
StopScrobbling == scrobbling' = FALSE /\ stopSignal' = FALSE

\* The outer loop of doProcessing.
OuterLoop(r) ==
  /\ pc[r] = "outer"
  /\ IF ~scrobbling \/ stopSignal
     THEN StopScrobbling /\ Goto(r, "idle")
     ELSE UNCHANGED <<scrobbling, stopSignal>> /\ Goto(r, "inner")
  /\ UNCHANGED <<listVars, recordVars, refreshVars, retries, readyVars, eventVars,
                 boundVars, inflight, window, worldVars>>

\* The inner loop: sleep on an empty queue, else refresh first or take at once.
InnerLoop(r) ==
  /\ pc[r] = "inner"
  /\ IF queue = <<>>
     THEN Goto(r, "sleep")
     ELSE \E m \in MinIntervalPassed, s \in Stale :
            Goto(r, IF ShouldRefresh(m, s) THEN "refresh" ELSE "take")
  /\ UNCHANGED <<listVars, recordVars, refreshVars, loopVars, readyVars, eventVars,
                 boundVars, inflight, window, worldVars>>

WakeUp(r) ==
  /\ pc[r] = "sleep"
  /\ Goto(r, "outer")
  /\ UNCHANGED <<listVars, recordVars, refreshVars, loopVars, readyVars, eventVars,
                 boundVars, inflight, window, worldVars>>

RefreshReturns(r) ==
  /\ pc[r] = "refresh"
  /\ Refresh(window[r])
  /\ window' = [window EXCEPT ![r] = Unanswered]
  /\ Goto(r, "take")
  /\ UNCHANGED <<listVars, tracksScrobbled, lastDate, loopVars, readyVars, eventVars, boundVars,
                 inflight, worldVars>>

\* An error leaves doProcessing: scrobbling is reset, the stop signal is not.
\* LeftRunning is a mutant of Interrupted: nor is scrobbling.
LeftRunning(r) == UNCHANGED scrobbling /\ Goto(r, "throw")
Interrupted(r) == scrobbling' = FALSE /\ Goto(r, "throw")

RefreshFails(r) ==
  /\ pc[r] = "refresh"
  /\ Fault
  /\ window' = [window EXCEPT ![r] = Unanswered]
  /\ Interrupted(r)
  /\ UNCHANGED <<listVars, recordVars, refreshVars, stopSignal, retries, readyVars,
                 eventVars, requests, crashes, inflight, worldVars>>

\* shift() the head: drop it when it is out of the time frame or known already,
\* else submit it.
Take(r) ==
  /\ pc[r] = "take"
  /\ LET p == Head(queue) IN
       IF TooOld(p) \/ AlreadyScrobbled(p)
       THEN ReportDequeued(p) /\ Goto(r, "inner") /\ UNCHANGED inflight
       ELSE inflight' = [inflight EXCEPT ![r] = p] /\ Goto(r, "submit") /\ UNCHANGED dequeued
  /\ queue' = Tail(queue)
  /\ UNCHANGED <<dead, recordVars, refreshVars, loopVars, readyVars, announced,
                 boundVars, window, worldVars>>

UpstreamAccepts(r) ==
  /\ pc[r] = "submit"
  /\ accepted' = [accepted EXCEPT ![inflight[r]] = @ + 1]
  /\ Goto(r, "reply")
  /\ UNCHANGED <<listVars, recordVars, refreshVars, loopVars, readyVars, eventVars,
                 boundVars, inflight, window, now>>

ScrobbleSucceeds(r) ==
  /\ pc[r] = "reply"
  /\ Record(inflight[r])
  /\ ReportDequeued(inflight[r])
  /\ inflight' = [inflight EXCEPT ![r] = NoPlay]
  /\ Goto(r, "inner")
  /\ UNCHANGED <<listVars, refreshVars, loopVars, readyVars, announced, boundVars,
                 window, worldVars>>

\* The request failed, or its reply was lost.
ScrobbleFails(r) ==
  /\ \/ pc[r] = "submit"
     \/ LostReplies /\ pc[r] = "reply"
  /\ Fault
  /\ inflight' = [inflight EXCEPT ![r] = NoPlay]

\* ... with an UpstreamError that is no show stopper: addDeadLetterScrobble.
DeadLetter(r) ==
  /\ ScrobbleFails(r)
  /\ dead' \in Sortings(Append(dead, inflight[r]))
  /\ ReportDequeued(inflight[r])
  /\ Goto(r, "inner")
  /\ UNCHANGED <<queue, recordVars, refreshVars, loopVars, readyVars, announced,
                 requests, crashes, window, worldVars>>

\* unshift() of the play that failed, and mutants of it: of a variable that was
\* cleared before, and forgotten.
UnshiftCleared(p) == queue' = <<NoPlay>> \o queue
ForgetPlay(p)     == UNCHANGED queue
Unshift(p)        == queue' = <<p>> \o queue

\* ... with any other error: back to the head of the queue, and out of the loop.
PutBack(r) ==
  /\ ScrobbleFails(r)
  /\ Unshift(inflight[r])
  /\ Interrupted(r)
  /\ UNCHANGED <<dead, recordVars, refreshVars, stopSignal, retries, readyVars,
                 eventVars, requests, crashes, window, worldVars>>

\* The catch of startScrobbling: give up on a client that lost its connection or
\* its authentication, back off while retries are left, else stop for good.
CatchError(r) ==
  /\ pc[r] = "throw"
  /\ \/ ~ready /\ Goto(r, "idle") /\ UNCHANGED retries
     \/ ready /\ retries < MaxRetries /\ Goto(r, "backoff") /\ UNCHANGED retries
     \/ ready /\ retries >= MaxRetries /\ Goto(r, "idle") /\ retries' = retries + 1
  /\ UNCHANGED <<listVars, recordVars, refreshVars, scrobbling, stopSignal, readyVars,
                 eventVars, boundVars, inflight, window, worldVars>>

BackoffOver(r) ==
  /\ pc[r] = "backoff"
  /\ retries' = retries + 1
  /\ Goto(r, "start")
  /\ UNCHANGED <<listVars, recordVars, refreshVars, scrobbling, stopSignal, readyVars,
                 eventVars, boundVars, inflight, window, worldVars>>

\* The process dies and is started again: only the service keeps its state.
Crash ==
  /\ crashes < MaxCrashes /\ crashes' = crashes + 1
  /\ queue' = <<>> /\ dead' = <<>>
  /\ scrobbled' = {} /\ tracksScrobbled' = 0
  /\ recent' = {} /\ oldest' = 0 /\ newest' = 0 /\ lastDate' = 0 /\ lastCheck' = 0
  /\ scrobbling' = FALSE /\ stopSignal' = FALSE /\ retries' = 0
  /\ ready' = FALSE /\ initializing' = FALSE
  /\ pc' = [r \in Runners |-> "idle"]
  /\ inflight' = [r \in Runners |-> NoPlay]
  /\ window' = [r \in Runners |-> Unanswered]
  /\ announced' = {} /\ dequeued' = {}
  /\ UNCHANGED <<accepted, now, faults, requests>>

-----------------------------------------------------------------------------
\* What r does between two awaits, and what resumes it at one.
Run(r) ==
  \/ EnterProcessing(r) \/ OuterLoop(r) \/ InnerLoop(r) \/ Take(r) \/ CatchError(r)
Resume(r) ==
  \/ WakeUp(r) \/ UpstreamAnswers(r) \/ RefreshReturns(r) \/ RefreshFails(r)
  \/ UpstreamAccepts(r) \/ ScrobbleSucceeds(r) \/ DeadLetter(r) \/ PutBack(r)
  \/ BackoffOver(r) \/ StagesSucceed(r) \/ InitSucceeds(r) \/ InitFails(r) \/ StopTimedOut(r) \/ StopAcknowledged(r)
Heartbeat == \E r \in Runners : HeartbeatInit(r) \/ HeartbeatStart(r)
Request   == \E r \in Runners : RequestStop(r) \/ RequestStart(r)

Next ==
  \/ \E r \in Runners : Run(r)
  \/ /\ Yielded
     /\ \/ \E p \in Plays : QueueScrobble(p)
        \/ \E r \in Runners : Resume(r)
        \/ Heartbeat \/ Request \/ Tick \/ Crash

Spec == Init /\ [][Next]_vars

\* The event loop gets to every callback that is due, requests end and timers
\* fire, and the heartbeat beats.  A callback waits while another runs, hence SF.
Fairness ==
  /\ \A r \in Runners : WF_vars(Run(r)) /\ SF_vars(Yielded /\ Resume(r))
  /\ SF_vars(Yielded /\ Heartbeat)
FairSpec == Spec /\ Fairness

-----------------------------------------------------------------------------
\* A hole of the dead letter array is NoPlay; only DeadLetterQueue makes one.
ListTypes == queue \in Seq(Plays) /\ dead \in Seq(Plays \cup {NoPlay})
RecordTypes ==
  /\ scrobbled \subseteq [nth : Nat, play : Plays] /\ tracksScrobbled \in Nat
  /\ recent \subseteq Plays
  /\ oldest \in Nat /\ newest \in Nat /\ lastDate \in Nat /\ lastCheck \in Nat
StateTypes ==
  /\ scrobbling \in BOOLEAN /\ stopSignal \in BOOLEAN /\ retries \in Nat
  /\ ready \in BOOLEAN /\ initializing \in BOOLEAN
PlaceTypes == pc \in [Runners -> Running \cup Processing \cup Waiting]
TaskTypes ==
  /\ inflight \in [Runners -> Plays \cup {NoPlay}]
  /\ window \in [Runners -> (SUBSET Plays) \cup {Unanswered}]
WorldTypes ==
  /\ accepted \in [Plays -> Nat] /\ now \in Nat
  /\ announced \subseteq Plays /\ dequeued \subseteq Plays
  /\ faults \in Nat /\ requests \in Nat /\ crashes \in Nat
TypeOK == ListTypes /\ RecordTypes /\ StateTypes /\ PlaceTypes /\ TaskTypes /\ WorldTypes

\* However many coroutines started, backed off or were stopped, at most one is
\* inside doProcessing, and `scrobbling` says whether one is.
OneProcessor ==
  /\ \A r1, r2 \in Runners : {pc[r1], pc[r2]} \subseteq Processing => r1 = r2
  /\ scrobbling <=> \E r \in Runners : pc[r] \in Processing

\* Every play announced to the client since it started is in exactly one place:
\* once in the queue, in flight, or reported as dequeued.  No error, stop or
\* retry loses a play or leaves it to be processed twice, and a coroutine that is
\* about to shift() finds a play there, even after it waited for a refresh.
InFlight == {inflight[r] : r \in Runners} \ {NoPlay}
EachPlayOnce ==
  /\ announced = Range(queue) \cup InFlight \cup dequeued
  /\ Range(queue) \cap InFlight = {}
  /\ dequeued \cap (Range(queue) \cup InFlight) = {}
  /\ IsInjective(queue)
  /\ \A r1, r2 \in Runners : inflight[r1] # NoPlay /\ inflight[r1] = inflight[r2] => r1 = r2
PlaysAtHand ==
  \A r \in Runners :
    /\ (inflight[r] # NoPlay) = (pc[r] \in {"submit", "reply"})
    /\ pc[r] \in {"refresh", "take"} => queue # <<>>
Conservation == EachPlayOnce /\ PlaysAtHand

\* A dequeued play was scrobbled, is in the dead letter queue, is the listen of a
\* scrobble the service holds, or is no newer than one: the client never drops a
\* play newer than everything it could have compared it with.
DroppedOnlyIfCovered ==
  \A p \in dequeued :
    \/ p \in Range(dead)
    \/ \E q \in Upstream : Listen[q] = Listen[p] \/ Date[p] <= Date[q]

\* The service never holds more copies of a listen than it did at first, or one,
\* but for one more for each lost reply: neither several reports of a listen, a
\* retry, a restart nor a crash makes the client scrobble it again.
Copies(l) == MapThenSumSet(LAMBDA p : accepted[p], {p \in Plays : Listen[p] = l})
InitialCopies(l) == Cardinality({p \in History : Listen[p] = l})
NoDoubleScrobble ==
  \A p \in Plays : Copies(Listen[p]) <= Max({1, InitialCopies(Listen[p])})
                                       + (IF LostReplies THEN faults ELSE 0)

\* A play is submitted only when the client has asked the service for its scrobbles
\* at or after the play's date, even when the play was put back at the head of the
\* queue and others were queued meanwhile.
CheckedSincePlayed ==
  \A r \in Runners : inflight[r] # NoPlay => lastCheck >= Date[inflight[r]]

\* The queue is sorted but for its head, which may be a play that was put back.
SortedBehindHead ==
  \A i, j \in 2 .. Len(queue) : i < j => Date[queue[i]] <= Date[queue[j]]

\* Every play announced is dequeued some day: no failure of the service, no failed
\* initialisation and no stop leaves it in the queue for ever.
AnnouncedIsDequeued == \A p \in Plays : p \in announced ~> p \in dequeued

\* Once failures and requests end the loop runs for good: no stop signal that
\* outlived its request, backoff or used up retries keep the client down.
ClientRecovers == <>[]scrobbling

\* The client, seen from the plays it was given, is the abstract delivery: pending
\* is queued or in flight, refused is dead, and the rest of what was dequeued is
\* settled.  With LostReplies a play may be recorded twice, so this is for FALSE.
Delivery == INSTANCE ScrobbleDelivery WITH
  pending  <- Range(queue) \cup InFlight,
  refused  <- Range(dead),
  settled  <- dequeued \ Range(dead),
  recorded <- Upstream
ImplementsDelivery == Delivery!Spec
=============================================================================
