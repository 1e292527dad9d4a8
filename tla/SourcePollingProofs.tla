------------------------- MODULE SourcePollingProofs -------------------------
(***************************************************************************)
(* That a source polls at most once at a time, for any number of calls of  *)
(* poll(), init requests, retries and failures; and that what a polled      *)
(* player's source makes of its server's tags credits the artist they name, *)
(* for any tracks, filters and number of retries.                           *)
(***************************************************************************)
EXTENDS MCSources, TLAPS

\* The two are inductive together: `polling` is what keeps a second coroutine out of
\* the loop, and it is only trusted because whoever is in the loop holds it.
PollingInv == PollingTypeOK /\ OnePoller

----------------------------------------------------------------------------
\* A coroutine that is in no loop before or after a step, and a `polling` that stays:
\* nothing changes for the loop.
LEMMA OutsideTheLoop ==
  ASSUME OnePoller, UNCHANGED polling,
         \A c \in Polls : pc'[c] \in Looping <=> pc[c] \in Looping
  PROVE  OnePoller'
  BY DEF OnePoller

\* One coroutine goes from outside the loop to outside the loop.
LEMMA GoesOutside ==
  ASSUME OnePoller, UNCHANGED polling, NEW c \in Initializers, NEW l,
         pc \in [Initializers -> Waiting \cup Running],
         pc[c] \notin Looping, l \notin Looping, Goto(c, l)
  PROVE  OnePoller'
<1>1. \A d \in Polls : pc'[d] \in Looping <=> pc[d] \in Looping
  BY DEF Goto, Initializers
<1>. QED BY <1>1, OutsideTheLoop

\* A call of poll() takes a free coroutine.
LEMMA CallIsOutside ==
  ASSUME PollingInv, NEW f \in BOOLEAN, CallPoll(f), UNCHANGED polling
  PROVE  /\ OnePoller'
         /\ pc' \in [Initializers -> Waiting \cup Running]
         /\ forced' \in [Initializers -> BOOLEAN]
         /\ after' = after
<1>1. PICK c \in Polls : /\ pc[c] = "free" /\ Goto(c, "poll")
                         /\ forced' = [forced EXCEPT ![c] = f]
                         /\ UNCHANGED after
  BY DEF CallPoll
<1>2. OnePoller'
  BY <1>1, GoesOutside DEF PollingInv, PollingTypeOK, Looping, Initializers
<1>. QED BY <1>1, <1>2 DEF PollingInv, PollingTypeOK, Goto, Initializers, Waiting, Running

\* The stage an initialisation waits in next is one that there is, outside of the loop.
LEMMA StagesAreOutside ==
  ASSUME NEW f \in BOOLEAN
  PROVE  /\ BuildStage(f) \in Stages \cup {"failed"}
         /\ ConnectStage(f) \in Stages \cup {"failed"}
         /\ AuthStage(f) \in Stages \cup {"failed"}
  BY DEF BuildStage, ConnectStage, AuthStage, Stages

\* initialize() is called, for a coroutine that may say so.
LEMMA InitIsOutside ==
  ASSUME PollingInv, NEW c \in Initializers, NEW f \in BOOLEAN, UNCHANGED polling,
         NEW next \in {"prepare", "attempt", "heart"}, c \in Polls => next # "heart",
         pc[c] \notin Looping, BeginInit(c, f, next)
  PROVE  /\ OnePoller'
         /\ initializing' = TRUE
         /\ pc' \in [Initializers -> Waiting \cup Running]
         /\ after' \in [Initializers -> {"prepare", "attempt", "heart"}]
         /\ \A d \in Polls : after'[d] # "heart"
         /\ forced' \in [Initializers -> BOOLEAN]
<1>1. BuildStage(f) \in (Waiting \cup Running) \ Looping
  BY StagesAreOutside DEF Stages, Waiting, Running, Looping
<1>2. OnePoller'
  BY <1>1, GoesOutside DEF BeginInit, Goto, PollingInv, PollingTypeOK
<1>. QED BY <1>1, <1>2 DEF BeginInit, PollingInv, PollingTypeOK, Initializers
----------------------------------------------------------------------------
LEMMA InitEstablishes == Init => PollingInv
<1>. SUFFICES ASSUME Init PROVE PollingInv
  OBVIOUS
<1>1. 0 \in 0..MaxFaults /\ 0 \in 0..MaxRequests
  BY PollingAssumption
<1>2. /\ pc \in [Initializers -> Waiting \cup Running]
      /\ after \in [Initializers -> {"prepare", "attempt", "heart"}]
      /\ \A c \in Polls : after[c] # "heart"
  BY DEF Init, Waiting, Initializers
<1>3. PollingTypeOK
  BY <1>1, <1>2 DEF Init, PollingTypeOK
<1>4. OnePoller
  BY DEF Init, OnePoller, Initializers, Looping
<1>. QED BY <1>3, <1>4 DEF PollingInv

\* A failure of the service is counted.
LEMMA FaultsAreBounded ==
  ASSUME faults \in 0..MaxFaults, Fault
  PROVE  faults' \in 0..MaxFaults
  BY PollingAssumption DEF Fault

\* The replies of the service inside initialize(), good or bad.
LEMMA StagesKeep ==
  ASSUME PollingInv, NEW c \in Initializers, Goes(c) \/ Breaks(c)
  PROVE  PollingInv'
<1>. USE DEF PollingInv, PollingTypeOK, loopVars, apiVars, bounds, stageVars
<1>1. PICK l \in Stages \cup {"failed", "initialized"} : pc[c] \in Stages /\ Goto(c, l)
  <2>1. forced[c] \in BOOLEAN
    OBVIOUS
  <2>. QED BY <2>1, StagesAreOutside DEF Goes, Breaks, BuildReturns, BuildFails, ConnectReturns,
         ConnectFails, AuthReturns, AuthDeclined, AuthFails, PostReturns, PostFails, Stages
<1>2. UNCHANGED <<loopVars, initializing, after, forced, apiVars, requests>>
  BY DEF Goes, Breaks, BuildReturns, BuildFails, ConnectReturns, ConnectFails, AuthReturns,
         AuthDeclined, AuthFails, PostReturns, PostFails
<1>3. /\ {buildOK', connectionOK'} \subseteq {"unset", "null", "true", "false"}
      /\ {authed', authFailure'} \subseteq BOOLEAN
  BY DEF Goes, Breaks, BuildReturns, BuildFails, ConnectReturns, ConnectFails,
         AuthReturns, AuthDeclined, AuthFails, PostReturns, PostFails
<1>5. faults' \in 0..MaxFaults
  BY FaultsAreBounded DEF Goes, Breaks, BuildReturns, BuildFails, ConnectReturns, ConnectFails,
         AuthReturns, AuthDeclined, AuthFails, PostReturns, PostFails
<1>4. OnePoller'
  BY <1>1, <1>2, GoesOutside DEF Stages, Looping
<1>. QED BY <1>1, <1>2, <1>3, <1>4, <1>5 DEF Goto, Stages, Waiting, Running

\* A step that only moves one coroutine, from outside of the loop to outside of it.
LEMMA MoveKeeps ==
  ASSUME PollingInv, NEW c \in Polls, NEW l \in Waiting \cup Running,
         pc[c] \notin Looping, l \notin Looping, Goto(c, l),
         pollRetries' \in Nat, initializing' \in BOOLEAN, faults' \in 0..MaxFaults,
         UNCHANGED <<stageVars, polling, stopSignal, after, forced, apiVars, requests>>
  PROVE  PollingInv'
<1>1. OnePoller'
  BY GoesOutside DEF PollingInv, PollingTypeOK, Initializers
<1>. QED BY <1>1 DEF PollingInv, PollingTypeOK, Goto, Initializers, stageVars, apiVars

\* initialize() begins inside a call of poll() or of the heartbeat.
LEMMA BeginKeeps ==
  ASSUME PollingInv, NEW c \in Initializers, NEW f \in BOOLEAN,
         NEW next \in {"prepare", "attempt", "heart"}, c \in Polls => next # "heart",
         pc[c] \notin Looping, BeginInit(c, f, next),
         UNCHANGED <<stageVars, loopVars, apiVars, bounds>>
  PROVE  PollingInv'
<1>1. /\ OnePoller' /\ initializing' = TRUE
      /\ pc' \in [Initializers -> Waiting \cup Running]
      /\ after' \in [Initializers -> {"prepare", "attempt", "heart"}]
      /\ \A d \in Polls : after'[d] # "heart"
      /\ forced' \in [Initializers -> BOOLEAN]
  BY InitIsOutside DEF loopVars
<1>. QED BY <1>1 DEF PollingInv, PollingTypeOK, stageVars, loopVars, apiVars, bounds

\* A free coroutine calls poll(), whoever asks for it.
LEMMA CallKeeps ==
  ASSUME PollingInv, NEW f \in BOOLEAN, CallPoll(f), requests' \in 0..MaxRequests,
         handler' \in [Handlers -> {"idle", "waiting"}],
         UNCHANGED <<stageVars, initializing, loopVars, wantsForce, faults>>
  PROVE  PollingInv'
<1>1. /\ OnePoller' /\ after' = after
      /\ pc' \in [Initializers -> Waiting \cup Running]
      /\ forced' \in [Initializers -> BOOLEAN]
  BY CallIsOutside DEF loopVars
<1>. QED BY <1>1 DEF PollingInv, PollingTypeOK, stageVars, loopVars

----------------------------------------------------------------------------
\* The coroutine that is in the loop goes on, or ends it and clears `polling`.
LEMMA LoopKeeps ==
  ASSUME PollingInv, NEW c \in Polls, pc[c] \in Looping, NEW next \in Looping, Continue(c, next),
         UNCHANGED <<stageVars, initializing, pollRetries, after, forced, apiVars, bounds>>
  PROVE  PollingInv'
<1>1. PollingTypeOK'
  BY DEF PollingInv, PollingTypeOK, Continue, Goto, Initializers, Looping, Waiting, Running,
         stageVars, apiVars, bounds
<1>2. \A d \in Polls : d # c => pc'[d] = pc[d] /\ pc[d] \notin Looping
  BY DEF PollingInv, PollingTypeOK, OnePoller, Continue, Goto, Initializers
<1>3. CASE polling /\ ~stopSignal
  <2>1. pc'[c] = next /\ polling'
    BY <1>3 DEF Continue, Goto, PollingInv, PollingTypeOK, Initializers
  <2>. QED BY <1>1, <1>2, <2>1 DEF PollingInv, OnePoller
<1>4. CASE ~(polling /\ ~stopSignal)
  <2>1. pc'[c] = "free" /\ ~polling'
    BY <1>4 DEF Continue, Goto, PollingInv, PollingTypeOK, Initializers
  <2>. QED BY <1>1, <1>2, <2>1 DEF PollingInv, OnePoller, Looping
<1>. QED BY <1>3, <1>4

\* The loop ends with an exception.
LEMMA FetchFailsKeeps ==
  ASSUME PollingInv, NEW c \in Polls, FetchFails(c)
  PROVE  PollingInv'
<1>. USE DEF FetchFails
<1>a. faults' \in 0..MaxFaults
  BY FaultsAreBounded DEF PollingInv, PollingTypeOK
<1>1. PollingTypeOK'
  BY <1>a DEF PollingInv, PollingTypeOK, Goto, Initializers, Running, stageVars, apiVars
<1>2. \A d \in Polls : pc'[d] \notin Looping
  BY DEF PollingInv, PollingTypeOK, OnePoller, Goto, Initializers, Looping
<1>. QED BY <1>1, <1>2 DEF PollingInv, OnePoller

\* The one place that sets `polling`, and it looks first.
LEMMA EnterPollingKeeps ==
  ASSUME PollingInv, NEW c \in Polls, EnterPolling(c)
  PROVE  PollingInv'
<1>1. PollingTypeOK'
  BY DEF EnterPolling, PollingInv, PollingTypeOK, Goto, Initializers, Waiting, Looping, stageVars,
         apiVars, bounds
<1>2. CASE polling \/ stopSignal
  <2>1. UNCHANGED polling /\ Goto(c, "free") /\ pc[c] \notin Looping
    BY <1>2 DEF EnterPolling, Looping
  <2>. QED BY <1>1, <2>1, GoesOutside DEF PollingInv, PollingTypeOK, Initializers, Looping
<1>3. CASE ~polling /\ ~stopSignal
  <2>1. polling' /\ pc'[c] = "fetch"
    BY <1>3 DEF EnterPolling, PollingInv, PollingTypeOK, Goto, Initializers
  <2>2. \A d \in Polls : d # c => pc'[d] \notin Looping
    BY <1>3 DEF EnterPolling, PollingInv, PollingTypeOK, OnePoller, Goto, Initializers
  <2>. QED BY <1>1, <2>1, <2>2 DEF PollingInv, OnePoller, Looping
<1>. QED BY <1>2, <1>3

\* The steps of poll() and startPolling() before and after the loop.
LEMMA PollGoesKeeps ==
  ASSUME PollingInv, NEW c \in Polls, PollGoes(c) \/ PrepareFails(c) \/ FetchFails(c)
  PROVE  PollingInv'
<1>. USE DEF loopVars, bounds
<1>a. /\ initializing \in BOOLEAN /\ pollRetries \in Nat /\ faults \in 0..MaxFaults
      /\ forced[c] \in BOOLEAN /\ after[c] \in {"prepare", "attempt"} /\ c \in Initializers
  BY DEF PollingInv, PollingTypeOK, Initializers
<1>1. CASE InitEnds(c)
  <2>1. PICK l \in {"prepare", "enter", "free", "failure"} : Goto(c, l)
    BY <1>1, <1>a DEF InitEnds
  <2>. QED BY <1>1, <1>a, <2>1, MoveKeeps DEF InitEnds, Waiting, Running, Looping
<1>2. CASE PollEntered(c)
  <2>1. CASE Goto(c, "prepare") /\ UNCHANGED <<initializing, after, forced>>
    BY <1>2, <1>a, <2>1, MoveKeeps DEF PollEntered, Waiting, Running, Looping
  <2>2. CASE Goto(c, "free") /\ UNCHANGED <<initializing, after, forced>>
    BY <1>2, <1>a, <2>2, MoveKeeps DEF PollEntered, Waiting, Running, Looping
  <2>3. CASE BeginInit(c, forced[c], "prepare")
    BY <1>2, <1>a, <2>3, BeginKeeps DEF PollEntered, Looping
  <2>. QED BY <1>2, <2>1, <2>2, <2>3 DEF PollEntered
<1>3. CASE Prepared(c)
  BY <1>3, <1>a, MoveKeeps DEF Prepared, Waiting, Running, Looping
<1>4. CASE PrepareFails(c)
  BY <1>4, <1>a, MoveKeeps, FaultsAreBounded DEF PrepareFails, Waiting, Running, Looping
<1>5. CASE StartPolling(c)
  BY <1>5, <1>a, MoveKeeps DEF StartPolling, Waiting, Running, Looping
<1>6. CASE Attempt(c)
  <2>1. CASE Goto(c, "free") /\ UNCHANGED <<initializing, after, forced>>
    BY <1>6, <1>a, <2>1, MoveKeeps DEF Attempt, Waiting, Running, Looping
  <2>2. CASE Goto(c, "enter") /\ UNCHANGED <<initializing, after, forced>>
    BY <1>6, <1>a, <2>2, MoveKeeps DEF Attempt, Waiting, Running, Looping
  <2>3. CASE BeginInit(c, FALSE, "attempt")
    BY <1>6, <1>a, <2>3, BeginKeeps DEF Attempt, Looping
  <2>. QED BY <1>6, <2>1, <2>2, <2>3 DEF Attempt
<1>7. CASE CatchError(c)
  BY <1>7, <1>a, MoveKeeps DEF CatchError, Waiting, Running, Looping
<1>8. CASE BackoffOver(c)
  BY <1>8, <1>a, MoveKeeps DEF BackoffOver, Waiting, Running, Looping
<1>9. CASE FetchReturns(c) \/ WakeUp(c)
  BY <1>9, LoopKeeps DEF FetchReturns, WakeUp, Looping
<1>. QED BY <1>1, <1>2, <1>3, <1>4, <1>5, <1>6, <1>7, <1>8, <1>9, EnterPollingKeeps, FetchFailsKeeps
         DEF PollGoes

----------------------------------------------------------------------------
\* The heartbeat's initialisation ends, and a poll may begin.
LEMMA HeartbeatInitEndsKeeps ==
  ASSUME PollingInv, HeartbeatInitEnds
  PROVE  PollingInv'
<1>1. UNCHANGED polling /\ pc[Heart] \notin Looping /\ Heart \in Initializers
  BY DEF HeartbeatInitEnds, loopVars, Looping, Initializers
<1>2. PollingTypeOK'
  BY <1>1 DEF HeartbeatInitEnds, PollingInv, PollingTypeOK, Goto, Initializers, Waiting, Running,
         stageVars, loopVars, apiVars, bounds
<1>3. \A d \in Polls : pc'[d] \in Looping <=> pc[d] \in Looping
  <2>1. CASE Goto(Heart, "free")
    BY <2>1, <1>1, PollingAssumption DEF Goto, PollingInv, PollingTypeOK, Initializers
  <2>2. CASE \E c \in Polls : pc[c] = "free" /\ pc' = [pc EXCEPT ![Heart] = "free", ![c] = "poll"]
    BY <2>2, <1>1, PollingAssumption DEF PollingInv, PollingTypeOK, Initializers, Looping
  <2>. QED BY <2>1, <2>2 DEF HeartbeatInitEnds
<1>. QED BY <1>1, <1>2, <1>3, OutsideTheLoop DEF PollingInv

\* What starts a poll or asks for a stop moves nobody in the loop.
LEMMA RequestsKeep ==
  ASSUME PollingInv,
         Beats \/ RequestPoll \/ (\E h \in Handlers : RequestRestart(h) \/ Handles(h))
  PROVE  PollingInv'
<1>. USE DEF loopVars, apiVars, bounds
<1>a. /\ requests \in 0..MaxRequests /\ handler \in [Handlers -> {"idle", "waiting"}]
      /\ wantsForce \in [Handlers -> BOOLEAN]
  BY DEF PollingInv, PollingTypeOK
<1>1. CASE HeartbeatPolls
  BY <1>1, <1>a, CallKeeps DEF HeartbeatPolls
<1>2. CASE HeartbeatInit
  BY <1>2, BeginKeeps, PollingAssumption DEF HeartbeatInit, Initializers, Looping
<1>3. CASE RequestPoll
  <2>1. requests' \in 0..MaxRequests
    BY <1>3, <1>a, PollingAssumption DEF RequestPoll
  <2>. QED BY <1>3, <1>a, <2>1, CallKeeps DEF RequestPoll
<1>4. ASSUME NEW h \in Handlers, RequestRestart(h) PROVE PollingInv'
  <2>1. requests' \in 0..MaxRequests
    BY <1>4, <1>a, PollingAssumption DEF RequestRestart
  <2>2. OnePoller'
    BY <1>4, OutsideTheLoop DEF RequestRestart, coVars, PollingInv
  <2>. QED BY <1>4, <1>a, <2>1, <2>2 DEF RequestRestart, PollingInv, PollingTypeOK, stageVars, coVars
<1>5. ASSUME NEW h \in Handlers, StopAcknowledged(h) PROVE PollingInv'
  BY <1>5, <1>a, CallKeeps DEF StopAcknowledged
<1>6. ASSUME NEW h \in Handlers, StopGivenUp(h) PROVE PollingInv'
  <2>1. OnePoller'
    BY <1>6, OutsideTheLoop DEF StopGivenUp, coVars, PollingInv
  <2>. QED BY <1>6, <1>a, <2>1 DEF StopGivenUp, PollingInv, PollingTypeOK, stageVars, coVars
<1>. QED BY <1>1, <1>2, <1>3, <1>4, <1>5, <1>6 DEF Beats, Handles

LEMMA NextKeeps == PollingInv /\ [Next]_vars => PollingInv'
<1>1. CASE PollingInv /\ Next
  BY <1>1, StagesKeep, PollGoesKeeps, HeartbeatInitEndsKeeps, RequestsKeep DEF Next
<1>2. CASE PollingInv /\ UNCHANGED vars
  BY <1>2 DEF PollingInv, PollingTypeOK, OnePoller, vars, stageVars, loopVars, coVars, apiVars, bounds
<1>. QED BY <1>1, <1>2

LEMMA PollingInvAlways == Spec => []PollingInv
  BY InitEstablishes, NextKeeps, PTL DEF Spec

----------------------------------------------------------------------------
\* Every variable of the source's coroutines and handlers has its type, and no call of
\* poll() ends its initialisation as if it were the heartbeat.
THEOREM PollingTypeCorrect == Spec => []PollingTypeOK
<1>1. PollingInv => PollingTypeOK
  BY DEF PollingInv
<1>. QED BY <1>1, PollingInvAlways, PTL

\* However many calls of poll() the heartbeat, the API and the retries have under way, and
\* whatever fails in them, at most one of them is in the loop of doPolling(), and `polling`
\* says whether one is (AbstractSource.ts:394).
THEOREM OnePollerAlways == Spec => []OnePoller
<1>1. PollingInv => OnePoller
  BY DEF PollingInv
<1>. QED BY <1>1, PollingInvAlways, PTL

-----------------------------------------------------------------------------
(* The players: PolledPlayers as MCSources has it, for any kinds of player,   *)
(* tracks, lists and retries.                                                 *)

CONSTANTS SomeKinds, SomeTracks, SomeFilters, SomeRetries

Players == INSTANCE PolledPlayers WITH
    buildOK <- built, connectionOK <- connected, authed <- allowed, authFailure <- refused,
    Kinds <- SomeKinds, Tracks <- SomeTracks, None <- "none", Filters <- SomeFilters,
    MaxRetries <- SomeRetries

\* formatPlayObj of MPD and of Mopidy leaves a play without artists only if the track
\* names nobody.
LEMMA CreditsSomebody ==
  ASSUME NEW t, kind \in {"mpd", "mpdSocket", "mopidy"},
         Players!FormatPlayObj(t).play.artists = {}
  PROVE  t.artist = "none" /\ t.albumArtist = "none" /\ t.other = "none"
<1> USE DEF Players!Given, Players!FirstGiven, Players!Credited
<1>1. CASE kind = "mopidy"
  <2>1. Players!FormatPlayObj(t).play = Players!FormatMopidy(t)
    BY <1>1 DEF Players!FormatPlayObj
  <2>. QED BY <2>1 DEF Players!FormatMopidy
<1>2. CASE kind \in {"mpd", "mpdSocket"}
  <2>1. Players!FormatPlayObj(t).play = Players!FormatMpd(t)
    BY <1>2 DEF Players!FormatPlayObj
  <2>. QED BY <2>1 DEF Players!FormatMpd
<1>. QED BY <1>1, <1>2

\* A play that an MPD or Mopidy source tracks has an artist whenever its track names
\* one: a poll is the one step that changes what is tracked, and each play it adds is
\* one that formatPlayObj has made.
THEOREM CreditsAnArtistAlways == Players!Spec => []CreditsAnArtist
<1>1. Players!Init => CreditsAnArtist
  BY DEF Players!Init, CreditsAnArtist, P!CreditsAnArtist
<1>2. CreditsAnArtist /\ [Players!Next]_(Players!vars) => CreditsAnArtist'
  <2>. SUFFICES ASSUME CreditsAnArtist, [Players!Next]_(Players!vars) PROVE CreditsAnArtist'
    OBVIOUS
  <2>1. CASE UNCHANGED <<kind, tracked>>
    BY <2>1 DEF CreditsAnArtist, P!CreditsAnArtist
  <2>2. CASE Players!Poll
    <3>1. kind' = kind /\ tracked' = Players!Tracked
      BY <2>2 DEF Players!Poll, Players!server
    <3>2. \A p \in Players!Tracked :
             p \in tracked \/ \E t \in Players!Kept : p = Players!FormatPlayObj(t)
      BY DEF Players!Tracked
    <3>3. \A t : Players!FormatPlayObj(t).track = t
      BY DEF Players!FormatPlayObj
    <3>. QED
      BY <3>1, <3>2, <3>3, CreditsSomebody DEF CreditsAnArtist, P!CreditsAnArtist
  <2>. QED
    BY <2>1, <2>2 DEF Players!Next, Players!Starts, Players!Stops, Players!PlayingChanges,
      Players!Reconnects, Players!Source, Players!Heartbeat, Players!BuildInitData,
      Players!CheckConnection, Players!TestAuth, Players!PollFails, Players!BackoffOver,
      Players!server, Players!vars
<1>. QED BY <1>1, <1>2, PTL DEF Players!Spec
=============================================================================
