--------------------------- MODULE SourcePolling ---------------------------
(***************************************************************************)
(* One source that polls its service: how it is initialised                *)
(* (AbstractComponent), how poll(), its retry loop and doPolling() run as  *)
(* coroutines (AbstractSource), and what starts and stops them: the        *)
(* heartbeat and the init request of the API.                              *)
(*                                                                         *)
(* What a poll finds is the subject of module Discovery.                   *)
(***************************************************************************)
EXTENDS Integers

CONSTANTS
  Polls,            \* calls of poll() that can be under way at once (a bound)
  Heart,            \* the heartbeat task, which awaits initialisations itself
  Handlers,         \* init requests that can be under way at once (a bound)
  BuildsData,       \* doBuildInitData() returns something
  ChecksConnection, \* doCheckConnection() returns something
  RequiresAuth, RequiresAuthInteraction,
  MaxRetries,       \* max(0, maxPollRetries)
  MaxFaults,        \* bound on failures of the service
  MaxRequests       \* bound on init requests

ASSUME PollingAssumption ==
  /\ Heart \notin Polls
  /\ {BuildsData, ChecksConnection, RequiresAuth, RequiresAuthInteraction} \subseteq BOOLEAN
  /\ {MaxRetries, MaxFaults, MaxRequests} \subseteq Nat

VARIABLES
  buildOK, connectionOK,  \* "unset", "null", "true" or "false"
  authed, authFailure,
  initializing,
  polling,
  stopSignal,       \* userPollingStopSignal is set
  pollRetries,
  pc,               \* where each coroutine waits
  after,            \* what the initialisation a coroutine is in is for
  forced,           \* its `force` option
  handler,          \* where each init request waits
  wantsForce,       \* its `force` query
  faults, requests

stageVars == <<buildOK, connectionOK, authed, authFailure>>
loopVars  == <<polling, stopSignal, pollRetries>>
coVars    == <<pc, after, forced>>
apiVars   == <<handler, wantsForce>>
bounds    == <<faults, requests>>
vars      == <<stageVars, initializing, loopVars, coVars, apiVars, bounds>>

Initializers == Polls \cup {Heart}

\* Waiting for a reply of the service inside initialize(), inside the loop of
\* doPolling(), and stretches of code that run to their next await.
Stages  == {"build", "connect", "auth", "post"}
Looping == {"fetch", "sleep"}
Running == {"poll", "initialized", "failed", "start", "attempt", "enter", "failure"}
Waiting == {"free", "prepare", "backoff"} \cup Stages \cup Looping

OK == {"null", "true"}
----------------------------------------------------------------------------
IsUsable  == buildOK \in OK /\ connectionOK \in OK
AuthGated == RequiresAuth /\ ~authed
IsReady   == IsUsable /\ ~AuthGated

\* `!this.authGated` tests the function, not its result, and is never true.
CanAuthUnattended == ~RequiresAuthInteraction \/ ~authFailure

\* The event loop: while a coroutine runs, nothing else does.
Idle == \A c \in Initializers : pc[c] \in Waiting

\* The stage initialize() waits in next, and after build and connection are done.
AuthStage(f) ==
  IF ~RequiresAuth \/ (authed /\ ~f) THEN "post"
  ELSE IF authFailure /\ ~f THEN "failed" ELSE "auth"
ConnectStage(f) == IF connectionOK = "true" /\ ~f THEN AuthStage(f) ELSE "connect"
BuildStage(f)   == IF buildOK = "true" /\ ~f THEN ConnectStage(f) ELSE "build"

\* initialize(): the coroutine waits in its first stage.
BeginInit(c, f, next) ==
  /\ initializing' = TRUE
  /\ pc' = [pc EXCEPT ![c] = BuildStage(f)]
  /\ after' = [after EXCEPT ![c] = next]
  /\ forced' = [forced EXCEPT ![c] = f]

Goto(c, l) == pc' = [pc EXCEPT ![c] = l]

\* A call of poll() that nobody awaits, in a free coroutine.
CallPoll(f) ==
  \E c \in Polls :
    /\ pc[c] = "free"
    /\ Goto(c, "poll")
    /\ forced' = [forced EXCEPT ![c] = f]
    /\ UNCHANGED after

Fault == faults < MaxFaults /\ faults' = faults + 1

Init ==
  /\ buildOK = "unset" /\ connectionOK = "unset"
  /\ authed = FALSE /\ authFailure = FALSE /\ initializing = FALSE
  /\ polling = FALSE /\ stopSignal = FALSE /\ pollRetries = 0
  /\ pc = [c \in Initializers |-> "free"]
  /\ after = [c \in Initializers |-> "prepare"]
  /\ forced = [c \in Initializers |-> FALSE]
  /\ handler = [h \in Handlers |-> "idle"]
  /\ wantsForce = [h \in Handlers |-> FALSE]
  /\ faults = 0 /\ requests = 0
----------------------------------------------------------------------------
(* initialize(), for whichever coroutine is in it. *)

BuildReturns(c) ==
  /\ Idle /\ pc[c] = "build"
  /\ buildOK' = IF BuildsData THEN "true" ELSE "null"
  /\ Goto(c, ConnectStage(forced[c]))
  /\ UNCHANGED <<connectionOK, authed, authFailure, initializing, loopVars, after, forced,
                 apiVars, bounds>>

BuildFails(c) ==
  /\ Idle /\ pc[c] = "build" /\ Fault
  /\ buildOK' = "false"
  /\ Goto(c, "failed")
  /\ UNCHANGED <<connectionOK, authed, authFailure, initializing, loopVars, after, forced,
                 apiVars, requests>>

ConnectReturns(c) ==
  /\ Idle /\ pc[c] = "connect"
  /\ connectionOK' = IF ChecksConnection THEN "true" ELSE "null"
  /\ Goto(c, AuthStage(forced[c]))
  /\ UNCHANGED <<buildOK, authed, authFailure, initializing, loopVars, after, forced,
                 apiVars, bounds>>

ConnectFails(c) ==
  /\ Idle /\ pc[c] = "connect" /\ Fault
  /\ connectionOK' = "false"
  /\ Goto(c, "failed")
  /\ UNCHANGED <<buildOK, authed, authFailure, initializing, loopVars, after, forced,
                 apiVars, requests>>

AuthReturns(c) ==
  /\ Idle /\ pc[c] = "auth"
  /\ authed' = TRUE /\ authFailure' = FALSE
  /\ Goto(c, "post")
  /\ UNCHANGED <<buildOK, connectionOK, initializing, loopVars, after, forced, apiVars, bounds>>

\* doAuthentication() returns FALSE: no error, and the component goes on.
AuthDeclined(c) ==
  /\ Idle /\ pc[c] = "auth" /\ Fault
  /\ authed' = FALSE /\ authFailure' = TRUE
  /\ Goto(c, "post")
  /\ UNCHANGED <<buildOK, connectionOK, initializing, loopVars, after, forced, apiVars, requests>>

\* doAuthentication() throws: only an error of the network leaves a way back.
AuthFails(c) ==
  /\ Idle /\ pc[c] = "auth" /\ Fault
  /\ authed' = FALSE
  /\ \E network \in BOOLEAN : authFailure' = ~network
  /\ Goto(c, "failed")
  /\ UNCHANGED <<buildOK, connectionOK, initializing, loopVars, after, forced, apiVars, requests>>

PostReturns(c) ==
  /\ Idle /\ pc[c] = "post"
  /\ Goto(c, "initialized")
  /\ UNCHANGED <<stageVars, initializing, loopVars, after, forced, apiVars, bounds>>

PostFails(c) ==
  /\ Idle /\ pc[c] = "post" /\ Fault
  /\ Goto(c, "failed")
  /\ UNCHANGED <<stageVars, initializing, loopVars, after, forced, apiVars, requests>>

\* The `finally` of initialize(), then the caller: poll() goes on or gives up,
\* the retry loop goes on or counts a failure.
InitEnds(c) ==
  /\ c \in Polls /\ pc[c] \in {"initialized", "failed"}
  /\ initializing' = FALSE
  /\ Goto(c, CASE pc[c] = "initialized" /\ after[c] = "prepare" -> "prepare"
               [] pc[c] = "initialized" /\ after[c] = "attempt" -> "enter"
               [] pc[c] = "failed" /\ after[c] = "prepare"      -> "free"
               [] pc[c] = "failed" /\ after[c] = "attempt"      -> "failure")
  /\ UNCHANGED <<stageVars, loopVars, after, forced, apiVars, bounds>>
----------------------------------------------------------------------------
(* poll(), startPolling() and doPolling(). *)

\* poll(): initialise first when the source is not ready, or on request.
PollEntered(c) ==
  /\ pc[c] = "poll"
  /\ \/ /\ IsReady /\ ~forced[c]
        /\ Goto(c, "prepare")
        /\ UNCHANGED <<initializing, after, forced>>
     \/ /\ ~IsReady \/ forced[c]
        /\ initializing           \* tryInitialize throws, poll() returns
        /\ Goto(c, "free")
        /\ UNCHANGED <<initializing, after, forced>>
     \/ /\ ~IsReady \/ forced[c]
        /\ ~initializing
        /\ BeginInit(c, forced[c], "prepare")
  /\ UNCHANGED <<stageVars, loopVars, apiVars, bounds>>

\* The hooks of poll() and processBacklog() are over, and all is well.
Prepared(c) ==
  /\ Idle /\ pc[c] = "prepare"
  /\ Goto(c, "start")
  /\ UNCHANGED <<stageVars, initializing, loopVars, after, forced, apiVars, bounds>>

\* A hook said no, or the backlog could not be read: poll() returns.
PrepareFails(c) ==
  /\ Idle /\ pc[c] = "prepare" /\ Fault
  /\ Goto(c, "free")
  /\ UNCHANGED <<stageVars, initializing, loopVars, after, forced, apiVars, requests>>

\* Mutant of StartPolling: the retries are not reset.
StartPolling_NoReset(c) ==
  /\ pc[c] = "start"
  /\ Goto(c, IF polling THEN "free" ELSE "attempt")
  /\ UNCHANGED <<stageVars, initializing, loopVars, after, forced, apiVars, bounds>>
\* The head of startPolling(): the retries are everybody's.
StartPolling(c) ==
  /\ pc[c] = "start"
  /\ pollRetries' = 0
  /\ Goto(c, IF polling THEN "free" ELSE "attempt")
  /\ UNCHANGED <<stageVars, initializing, polling, stopSignal, after, forced, apiVars, bounds>>

\* One turn of the retry loop: initialize() (which does not ask whether another
\* initialisation runs), then doPolling().
Attempt(c) ==
  /\ pc[c] = "attempt"
  /\ \/ /\ pollRetries > MaxRetries
        /\ Goto(c, "free")
        /\ UNCHANGED <<initializing, after, forced>>
     \/ /\ pollRetries <= MaxRetries
        /\ ~IsReady /\ buildOK = "true"
        /\ BeginInit(c, FALSE, "attempt")
     \/ /\ pollRetries <= MaxRetries
        /\ IsReady \/ buildOK # "true"
        /\ Goto(c, "enter")
        /\ UNCHANGED <<initializing, after, forced>>
  /\ UNCHANGED <<stageVars, loopVars, apiVars, bounds>>

\* Mutant of EnterPolling: it does not ask whether somebody polls.
EnterPolling_Unchecked(c) ==
  /\ pc[c] = "enter"
  /\ Goto(c, IF stopSignal THEN "free" ELSE "fetch")
  /\ polling' = ~stopSignal /\ stopSignal' = FALSE
  /\ UNCHANGED <<stageVars, initializing, pollRetries, after, forced, apiVars, bounds>>

\* doPolling() from its check to its first request.  The notification between
\* the check and the assignment only crosses a resolved promise.  A pending
\* stop signal ends the loop before its first turn.
EnterPolling(c) ==
  /\ pc[c] = "enter"
  /\ \/ /\ polling
        /\ Goto(c, "free")
        /\ UNCHANGED <<polling, stopSignal>>
     \/ /\ ~polling /\ stopSignal
        /\ Goto(c, "free")
        /\ stopSignal' = FALSE
        /\ UNCHANGED polling
     \/ /\ ~polling /\ ~stopSignal
        /\ Goto(c, "fetch")
        /\ polling' = TRUE
        /\ UNCHANGED stopSignal
  /\ UNCHANGED <<stageVars, initializing, pollRetries, after, forced, apiVars, bounds>>

\* Mutant of Continue: the stop signal is not looked at.
Continue_Deaf(c, next) ==
  IF polling
    THEN Goto(c, next) /\ UNCHANGED <<polling, stopSignal>>
    ELSE Goto(c, "free") /\ polling' = FALSE /\ stopSignal' = FALSE

\* shouldStopPolling(), and doStopPolling() when it says so.
Continue(c, next) ==
  IF polling /\ ~stopSignal
    THEN Goto(c, next) /\ UNCHANGED <<polling, stopSignal>>
    ELSE Goto(c, "free") /\ polling' = FALSE /\ stopSignal' = FALSE

\* getRecentlyPlayed() returned; what it found is discovered.
FetchReturns(c) ==
  /\ Idle /\ pc[c] = "fetch"
  /\ Continue(c, "sleep")
  /\ UNCHANGED <<stageVars, initializing, pollRetries, after, forced, apiVars, bounds>>

\* getRecentlyPlayed() threw.  The message that is searched for a status code is
\* that of the error wrapped around it, so authentication is not touched.
FetchFails(c) ==
  /\ Idle /\ pc[c] = "fetch" /\ Fault
  /\ polling' = FALSE
  /\ Goto(c, "failure")
  /\ UNCHANGED <<stageVars, initializing, stopSignal, pollRetries, after, forced, apiVars, requests>>

\* The end of the interval, or of the half second in which a stop is noticed.
WakeUp(c) ==
  /\ Idle /\ pc[c] = "sleep"
  /\ Continue(c, "fetch")
  /\ UNCHANGED <<stageVars, initializing, pollRetries, after, forced, apiVars, bounds>>

\* The `catch` of startPolling(): the retry is counted after the delay.
CatchError(c) ==
  /\ pc[c] = "failure"
  /\ \/ pollRetries < MaxRetries /\ Goto(c, "backoff") /\ UNCHANGED pollRetries
     \/ pollRetries >= MaxRetries /\ Goto(c, "attempt") /\ pollRetries' = pollRetries + 1
  /\ UNCHANGED <<stageVars, initializing, polling, stopSignal, after, forced, apiVars, bounds>>

BackoffOver(c) ==
  /\ Idle /\ pc[c] = "backoff"
  /\ pollRetries' = pollRetries + 1
  /\ Goto(c, "attempt")
  /\ UNCHANGED <<stageVars, initializing, polling, stopSignal, after, forced, apiVars, bounds>>
----------------------------------------------------------------------------
(* What starts and stops it. *)

\* The heartbeat finds the source ready and not polling.
HeartbeatPolls ==
  /\ Idle /\ pc[Heart] = "free" /\ IsReady /\ ~polling /\ CanAuthUnattended
  /\ CallPoll(FALSE)
  /\ UNCHANGED <<stageVars, initializing, loopVars, apiVars, bounds>>

\* The heartbeat finds a source that is not ready: tryInitialize, awaited.
HeartbeatInit ==
  /\ Idle /\ pc[Heart] = "free" /\ ~IsReady /\ CanAuthUnattended /\ ~initializing
  /\ BeginInit(Heart, FALSE, "heart")
  /\ UNCHANGED <<stageVars, loopVars, apiVars, bounds>>

\* It is initialised, or it is not: the first starts the polling.
HeartbeatInitEnds ==
  /\ pc[Heart] \in {"initialized", "failed"}
  /\ initializing' = FALSE
  /\ LET start == /\ pc[Heart] = "initialized" /\ ~polling /\ CanAuthUnattended
                  /\ \E c \in Polls : pc[c] = "free"
     IN  IF start
           THEN \E c \in Polls :
                  /\ pc[c] = "free"
                  /\ pc' = [pc EXCEPT ![Heart] = "free", ![c] = "poll"]
                  /\ forced' = [forced EXCEPT ![c] = FALSE]
           ELSE Goto(Heart, "free") /\ UNCHANGED forced
  /\ UNCHANGED <<stageVars, loopVars, after, apiVars, bounds>>

\* POST /api/source/init of a source that does not poll.
RequestPoll ==
  /\ Idle /\ ~polling /\ requests < MaxRequests
  /\ \E f \in BOOLEAN : CallPoll(f)
  /\ requests' = requests + 1
  /\ UNCHANGED <<stageVars, initializing, loopVars, apiVars, faults>>

\* The same of a source that polls: tryStopPolling() first.
RequestRestart(h) ==
  /\ Idle /\ polling /\ handler[h] = "idle" /\ requests < MaxRequests
  /\ stopSignal' = TRUE
  /\ handler' = [handler EXCEPT ![h] = "waiting"]
  /\ \E f \in BOOLEAN : wantsForce' = [wantsForce EXCEPT ![h] = f]
  /\ requests' = requests + 1
  /\ UNCHANGED <<stageVars, initializing, polling, pollRetries, coVars, faults>>

\* tryStopPolling() finds its signal gone: the source polls anew.
StopAcknowledged(h) ==
  /\ Idle /\ handler[h] = "waiting" /\ ~stopSignal
  /\ CallPoll(wantsForce[h])
  /\ handler' = [handler EXCEPT ![h] = "idle"]
  /\ UNCHANGED <<stageVars, initializing, loopVars, wantsForce, bounds>>

\* Ten seconds are over.  A loop that sleeps would have noticed; one that waits
\* for its service, or for its next attempt, has not.  The signal stays.
StopGivenUp(h) ==
  /\ Idle /\ handler[h] = "waiting" /\ stopSignal
  /\ \A c \in Polls : pc[c] # "sleep"
  /\ handler' = [handler EXCEPT ![h] = "idle"]
  /\ UNCHANGED <<stageVars, initializing, loopVars, coVars, wantsForce, bounds>>
----------------------------------------------------------------------------
Goes(c) ==
  \/ BuildReturns(c) \/ ConnectReturns(c) \/ AuthReturns(c) \/ PostReturns(c)
Breaks(c) ==
  \/ BuildFails(c) \/ ConnectFails(c) \/ AuthDeclined(c) \/ AuthFails(c) \/ PostFails(c)
PollGoes(c) ==
  \/ InitEnds(c) \/ PollEntered(c) \/ Prepared(c) \/ StartPolling(c) \/ Attempt(c)
  \/ EnterPolling(c) \/ FetchReturns(c) \/ WakeUp(c) \/ CatchError(c) \/ BackoffOver(c)
Beats   == HeartbeatPolls \/ HeartbeatInit
Handles(h) == StopAcknowledged(h) \/ StopGivenUp(h)

Next ==
  \/ \E c \in Initializers : Goes(c) \/ Breaks(c)
  \/ \E c \in Polls : PollGoes(c) \/ PrepareFails(c) \/ FetchFails(c)
  \/ Beats \/ HeartbeatInitEnds
  \/ RequestPoll
  \/ \E h \in Handlers : RequestRestart(h) \/ Handles(h)

Spec == Init /\ [][Next]_vars

\* Every request of a coroutine is answered, every timer fires, and the heartbeat
\* comes round: its two jobs exclude each other, and neither is disabled for ever
\* by its own doing.
Fairness ==
  /\ \A c \in Initializers : WF_vars(Goes(c))
  /\ \A c \in Polls : WF_vars(PollGoes(c))
  /\ SF_vars(HeartbeatPolls) /\ SF_vars(HeartbeatInit) /\ WF_vars(HeartbeatInitEnds)
  /\ \A h \in Handlers : SF_vars(Handles(h))
FairSpec == Spec /\ Fairness
----------------------------------------------------------------------------
\* What the other two properties rest on: whoever initializes has a stage to be in, and
\* only the heartbeat initializes for itself.
PollingTypeOK ==
  /\ {buildOK, connectionOK} \subseteq {"unset", "null", "true", "false"}
  /\ {authed, authFailure, initializing, polling, stopSignal} \subseteq BOOLEAN
  /\ pollRetries \in Nat
  /\ pc \in [Initializers -> Waiting \cup Running]
  /\ after \in [Initializers -> {"prepare", "attempt", "heart"}]
  /\ \A c \in Polls : after[c] # "heart"
  /\ forced \in [Initializers -> BOOLEAN]
  /\ handler \in [Handlers -> {"idle", "waiting"}]
  /\ wantsForce \in [Handlers -> BOOLEAN]
  /\ faults \in 0..MaxFaults /\ requests \in 0..MaxRequests

\* However many calls of poll() the heartbeat, the API and the retry loops have
\* under way, at most one is in the loop of doPolling(), and `polling` tells.
OnePoller ==
  /\ \A c, d \in Polls : pc[c] \in Looping /\ pc[d] \in Looping => c = d
  /\ polling <=> \E c \in Polls : pc[c] \in Looping

\* A source that is asked to stop while it polls does stop, even when the poll
\* under way fails and its retry picks the signal up.
StopIsHonoured == (stopSignal /\ polling) ~> ~polling

\* Once the service answers, the source polls again and goes on doing so, through
\* stale stop signals and abandoned attempts; only an authentication that was
\* refused is left for a user.
SourceRecovers == <>[](polling \/ authFailure)

=============================================================================
