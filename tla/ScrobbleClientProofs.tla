------------------------ MODULE ScrobbleClientProofs ------------------------
(***************************************************************************)
(* Proofs about ScrobbleClient for every value of its constants: the type  *)
(* invariant, that at most one coroutine processes the queue, and that no  *)
(* play that was announced is lost or processed twice; then what it has    *)
(* checked when it submits a play or drops one: the order of the queue,    *)
(* what a dropped play was compared with, and how recent that is; and at   *)
(* last that it implements ScrobbleDelivery: whatever its coroutines,      *)
(* failures and crashes do, no listen the service holds is scrobbled again *)
(* and a play is settled only when it is known upstream.                   *)
(* Last, about DeadLetterQueue: its workers keep what is proved of the     *)
(* loop, a dead letter is never before the loop and a worker at the same   *)
(* time, the heartbeat retries within the limit, and a removal takes out   *)
(* its own.                                                                *)
(***************************************************************************)
EXTENDS DeadLetterQueue, SequenceTheorems, FiniteSetTheorems, TLAPS

\* Sorting keeps the elements of a sequence and their number, and does not make two
\* of one.
LEMMA SortingsProperties ==
  ASSUME NEW S, NEW s \in Seq(S), NEW t \in Sortings(s)
  PROVE  /\ t \in Seq(S)
         /\ Len(t) = Len(s)
         /\ Range(t) = Range(s)
         /\ IsInjective(s) => IsInjective(t)
<1> DEFINE D == 1 .. Len(s)
<1>1. DOMAIN s = D /\ Len(s) \in Nat /\ s \in [D -> S]
  BY LenProperties
<1>2. PICK f \in Bijection(D, D) : t = [i \in D |-> s[f[i]]]
  BY <1>1 DEF Sortings
<1>3. /\ f \in [D -> D]
      /\ \A a, b \in D : f[a] = f[b] => a = b
      /\ \A d \in D : \E a \in D : f[a] = d
  BY <1>2 DEF Bijection, Injection, Surjection, IsInjective
<1>4. t \in [D -> S]
  BY <1>1, <1>2, <1>3
<1>5. t \in Seq(S) /\ Len(t) = Len(s)
  BY <1>1, <1>4, SeqDef, LenProperties
<1>6. Range(t) = Range(s)
  BY <1>1, <1>2, <1>3, <1>4 DEF Range
<1>7. IsInjective(s) => IsInjective(t)
  BY <1>1, <1>2, <1>3, <1>4 DEF IsInjective
<1> QED
  BY <1>5, <1>6, <1>7

-----------------------------------------------------------------------------
\* The inductive invariant.
Inv == TypeOK /\ OneProcessor /\ Conservation

\* r goes to label; `scrobbling` follows it in and out of doProcessing, which it
\* enters only while it is FALSE.
Moves(r, label) ==
  /\ Goto(r, label)
  /\ scrobbling' = (label \in Processing \/ (pc[r] \notin Processing /\ scrobbling))
  /\ label \in Processing /\ pc[r] \notin Processing => ~scrobbling

\* ... and no play is moved.
LeavesPlays(r, label) ==
  /\ label \in {"submit", "reply"} <=> pc[r] \in {"submit", "reply"}
  /\ label \in {"refresh", "take"} => queue # <<>>
  /\ UNCHANGED <<queue, inflight, announced, dequeued>>

\* Such a step leaves at most one processor.
LEMMA OneProcessorKept ==
  ASSUME TypeOK, OneProcessor, NEW r \in Runners, NEW label, Moves(r, label)
  PROVE  OneProcessor'
<1>1. pc' = [q \in Runners |-> IF q = r THEN label ELSE pc[q]]
  BY DEF TypeOK, PlaceTypes, Moves, Goto
<1>2. ASSUME NEW q \in Runners, q # r
      PROVE  /\ pc'[q] = pc[q]
             /\ pc[q] \in Processing => scrobbling /\ pc[r] \notin Processing
  BY <1>1, <1>2 DEF OneProcessor
<1>3. pc'[r] = label
  BY <1>1
<1>4. ASSUME NEW r1 \in Runners, NEW r2 \in Runners, {pc'[r1], pc'[r2]} \subseteq Processing
      PROVE  r1 = r2
  <2>1. pc'[r1] \in Processing /\ pc'[r2] \in Processing
    BY <1>4
  <2>2. CASE r1 # r /\ r2 # r
    BY <1>2, <2>1, <2>2 DEF OneProcessor
  <2>3. CASE r1 = r /\ r2 # r
    BY <1>2, <1>3, <2>1, <2>3 DEF Moves, OneProcessor
  <2>4. CASE r1 # r /\ r2 = r
    BY <1>2, <1>3, <2>1, <2>4 DEF Moves, OneProcessor
  <2> QED
    BY <2>2, <2>3, <2>4
<1>5. scrobbling' <=> \E q \in Runners : pc'[q] \in Processing
  <2>1. CASE label \in Processing
    BY <1>3, <2>1 DEF Moves
  <2>2. CASE label \notin Processing /\ pc[r] \in Processing
    <3>1. ~scrobbling'
      BY <2>2 DEF Moves
    <3>2. \A q \in Runners : pc'[q] \notin Processing
      BY <1>2, <1>3, <2>2
    <3> QED
      BY <3>1, <3>2
  <2>3. CASE label \notin Processing /\ pc[r] \notin Processing
    <3>1. scrobbling' = scrobbling
      BY <2>3 DEF TypeOK, StateTypes, Moves
    <3>2. (\E q \in Runners : pc[q] \in Processing) <=> \E q \in Runners : pc'[q] \in Processing
      BY <1>2, <1>3, <2>3
    <3> QED
      BY <3>1, <3>2 DEF OneProcessor
  <2> QED
    BY <2>1, <2>2, <2>3
<1> QED
  BY <1>4, <1>5 DEF OneProcessor

\* A step that moves no play keeps the plays where they are.
LEMMA ConservationKept ==
  ASSUME TypeOK, Conservation, NEW r \in Runners, NEW label, Moves(r, label),
         LeavesPlays(r, label)
  PROVE  Conservation'
<1>1. InFlight' = InFlight
  BY DEF InFlight, LeavesPlays
<1>2. \A q \in Runners : pc'[q] = IF q = r THEN label ELSE pc[q]
  BY DEF TypeOK, PlaceTypes, Moves, Goto
<1>3. PlaysAtHand'
  BY <1>2 DEF Conservation, PlaysAtHand, LeavesPlays
<1>4. Range(queue)' = Range(queue) /\ IsInjective(queue)' = IsInjective(queue)
  BY DEF Range, IsInjective, LeavesPlays
<1>5. EachPlayOnce'
  BY <1>1, <1>4 DEF Conservation, EachPlayOnce, LeavesPlays
<1> QED
  BY <1>3, <1>5 DEF Conservation

-----------------------------------------------------------------------------
\* Types.
LEMMA ListTypesKept ==
  ASSUME Inv, Next
  PROVE  ListTypes'
<1>1. ASSUME NEW p \in Plays, QueueScrobble(p) PROVE ListTypes'
  <2>1. Append(queue, p) \in Seq(Plays)
    BY AppendProperties DEF Inv, TypeOK, ListTypes
  <2>2. queue' \in Seq(Plays)
    BY <1>1, <2>1, SortingsProperties DEF QueueScrobble
  <2> QED
    BY <1>1, <2>2 DEF QueueScrobble, Inv, TypeOK, ListTypes
<1>2. ASSUME NEW r \in Runners, Take(r) PROVE ListTypes'
  BY <1>2, HeadTailProperties DEF Take, Inv, TypeOK, ListTypes, Conservation, PlaysAtHand
<1>3. ASSUME NEW r \in Runners, DeadLetter(r) PROVE ListTypes'
  <2>1. inflight[r] \in Plays
    BY <1>3 DEF DeadLetter, ScrobbleFails, Inv, TypeOK, TaskTypes, Conservation, PlaysAtHand
  <2>2. Append(dead, inflight[r]) \in Seq(Plays \cup {NoPlay})
    BY <2>1, AppendProperties DEF Inv, TypeOK, ListTypes
  <2>3. dead' \in Seq(Plays \cup {NoPlay})
    BY <1>3, <2>2, SortingsProperties DEF DeadLetter
  <2> QED
    BY <1>3, <2>3 DEF DeadLetter, Inv, TypeOK, ListTypes
<1>4. ASSUME NEW r \in Runners, PutBack(r) PROVE ListTypes'
  <2>1. inflight[r] \in Plays
    BY <1>4 DEF PutBack, ScrobbleFails, Inv, TypeOK, TaskTypes, Conservation, PlaysAtHand
  <2>2. <<inflight[r]>> \in Seq(Plays)
    BY <2>1
  <2> QED
    BY <1>4, <2>2, ConcatProperties DEF PutBack, Unshift, Inv, TypeOK, ListTypes
<1>5. CASE Crash
  BY <1>5 DEF Crash, ListTypes
<1>6. CASE UNCHANGED listVars
  BY <1>6 DEF listVars, Inv, TypeOK, ListTypes
<1> QED
  BY <1>1, <1>2, <1>3, <1>4, <1>5, <1>6
     DEF Next, Run, Resume, Heartbeat, Request, Tick, HeartbeatInit, HeartbeatStart, RequestStop,
         StopTimedOut, StopAcknowledged, RequestStart, InitScrobbleMonitoring, UpstreamAnswers,
         StagesSucceed, InitSucceeds, InitFails, EnterProcessing, OuterLoop, InnerLoop, WakeUp,
         RefreshReturns, RefreshFails, UpstreamAccepts, ScrobbleSucceeds, CatchError, BackoffOver

\* The play in flight, and what Refresh(r) assigns, have the types they should have.
LEMMA InFlightIsPlay ==
  ASSUME Inv, NEW r \in Runners, pc[r] \in {"submit", "reply"}
  PROVE  inflight[r] \in Plays
BY DEF Inv, TypeOK, TaskTypes, Conservation, PlaysAtHand

LEMMA RefreshTypes ==
  ASSUME Inv, NEW answer \in (SUBSET Plays) \cup {Unanswered}, Refresh(answer)
  PROVE  /\ recent' \subseteq Plays /\ oldest' \in Nat /\ newest' \in Nat /\ lastCheck' \in Nat
         /\ scrobbled' \subseteq [nth : Nat, play : Plays]
<1>1. answer # Unanswered => answer \subseteq Plays
  OBVIOUS
<1>2. \A p \in Plays : Date[p] \in Nat
  BY PlaysAssumption
<1> QED
  BY <1>1, <1>2 DEF Refresh, Inv, TypeOK, RecordTypes, WorldTypes

LEMMA RecordTypesKept ==
  ASSUME Inv, Next
  PROVE  RecordTypes'
<1>1. ASSUME NEW r \in Runners, InitSucceeds(r) PROVE RecordTypes'
  <2>1. /\ Refresh(window[r]) /\ window[r] \in (SUBSET Plays) \cup {Unanswered}
        /\ tracksScrobbled' = tracksScrobbled
    BY <1>1 DEF InitSucceeds, Inv, TypeOK, TaskTypes
  <2>2. lastDate' \in Nat
    BY <1>1, <2>1, RefreshTypes, PlaysAssumption DEF InitSucceeds
  <2> QED
    BY <2>1, <2>2, RefreshTypes DEF Inv, TypeOK, RecordTypes
<1>2. ASSUME NEW r \in Runners, RefreshReturns(r) PROVE RecordTypes'
  <2>1. Refresh(window[r]) /\ window[r] \in (SUBSET Plays) \cup {Unanswered}
    BY <1>2 DEF RefreshReturns, Inv, TypeOK, TaskTypes
  <2> QED
    BY <1>2, <2>1, RefreshTypes DEF RefreshReturns, Inv, TypeOK, RecordTypes
<1>3. ASSUME NEW r \in Runners, ScrobbleSucceeds(r) PROVE RecordTypes'
  <2>1. inflight[r] \in Plays
    BY <1>3, InFlightIsPlay DEF ScrobbleSucceeds
  <2> QED
    BY <1>3, <2>1, PlaysAssumption
       DEF ScrobbleSucceeds, Record, refreshVars, Inv, TypeOK, RecordTypes
<1>4. CASE Crash
  BY <1>4 DEF Crash, RecordTypes
<1>5. CASE UNCHANGED <<recordVars, refreshVars>>
  BY <1>5 DEF recordVars, refreshVars, Inv, TypeOK, RecordTypes
<1> QED
  BY <1>1, <1>2, <1>3, <1>4, <1>5
     DEF Next, Run, Resume, Heartbeat, Request, Tick, HeartbeatInit, HeartbeatStart, RequestStop,
         StopTimedOut, StopAcknowledged, RequestStart, InitScrobbleMonitoring, UpstreamAnswers,
         StagesSucceed, InitFails, EnterProcessing, OuterLoop, InnerLoop, WakeUp, QueueScrobble,
         RefreshFails, UpstreamAccepts, Take, DeadLetter, PutBack, CatchError, BackoffOver

LEMMA StateTypesKept ==
  ASSUME Inv, Next
  PROVE  StateTypes'
<1> USE DEF Inv, TypeOK, StateTypes, loopVars, readyVars
<1>1. CASE UNCHANGED <<loopVars, readyVars>>
  BY <1>1
<1>2. CASE Crash
  BY <1>2 DEF Crash
<1>3. ASSUME NEW r \in Runners, EnterProcessing(r) \/ OuterLoop(r) \/ CatchError(r)
      PROVE  StateTypes'
  <2>1. CASE EnterProcessing(r)
    BY <2>1 DEF EnterProcessing
  <2>2. CASE OuterLoop(r)
    BY <2>2 DEF OuterLoop, StopScrobbling
  <2>3. CASE CatchError(r)
    BY <2>3 DEF CatchError
  <2> QED
    BY <1>3, <2>1, <2>2, <2>3
<1>4. ASSUME NEW r \in Runners, HeartbeatInit(r) \/ HeartbeatStart(r) PROVE StateTypes'
  <2>1. CASE HeartbeatInit(r)
    BY <2>1 DEF HeartbeatInit
  <2>2. CASE HeartbeatStart(r)
    BY <2>2 DEF HeartbeatStart
  <2> QED
    BY <1>4, <2>1, <2>2
<1>5. ASSUME NEW r \in Runners, NEW force \in BOOLEAN, InitScrobbleMonitoring(r, force)
      PROVE  StateTypes'
  <2>1. CASE ready /\ ~force
    BY <1>5, <2>1 DEF InitScrobbleMonitoring
  <2>2. CASE ~(ready /\ ~force)
    BY <1>5, <2>2 DEF InitScrobbleMonitoring
  <2> QED
    BY <2>1, <2>2
<1>6. ASSUME NEW r \in Runners, RequestStop(r) PROVE StateTypes'
  BY <1>6 DEF RequestStop
<1>7. ASSUME NEW r \in Runners, RequestStart(r) \/ StopAcknowledged(r) PROVE StateTypes'
  BY <1>5, <1>7 DEF RequestStart, StopAcknowledged
<1>8. ASSUME NEW r \in Runners, RefreshFails(r) \/ PutBack(r) \/ BackoffOver(r)
      PROVE  StateTypes'
  <2>1. CASE RefreshFails(r)
    BY <2>1 DEF RefreshFails, Interrupted
  <2>2. CASE PutBack(r)
    BY <2>2 DEF PutBack, Interrupted
  <2>3. CASE BackoffOver(r)
    BY <2>3 DEF BackoffOver
  <2> QED
    BY <1>8, <2>1, <2>2, <2>3
<1>9. ASSUME NEW r \in Runners, StagesSucceed(r) PROVE StateTypes'
  BY <1>9 DEF StagesSucceed
<1>10. ASSUME NEW r \in Runners, InitSucceeds(r) PROVE StateTypes'
  <2>1. retries' \in Nat
    BY <1>10 DEF InitSucceeds
  <2>2. UNCHANGED <<scrobbling, stopSignal, ready>> /\ initializing' = FALSE
    BY <1>10 DEF InitSucceeds
  <2> QED
    BY <2>1, <2>2
<1>11. ASSUME NEW r \in Runners, InitFails(r) PROVE StateTypes'
  <2>1. ready' \in BOOLEAN
    BY <1>11 DEF InitFails
  <2>2. UNCHANGED <<scrobbling, stopSignal, retries>> /\ initializing' = FALSE
    BY <1>11 DEF InitFails
  <2> QED
    BY <2>1, <2>2
<1> QED
  BY <1>1, <1>2, <1>3, <1>4, <1>6, <1>7, <1>8, <1>9, <1>10, <1>11
     DEF Next, Run, Resume, Heartbeat, Request, Tick, StopTimedOut, UpstreamAnswers, QueueScrobble,
         InnerLoop, Take, WakeUp, RefreshReturns, UpstreamAccepts, ScrobbleSucceeds, DeadLetter

LEMMA PlaceTypesKept ==
  ASSUME Inv, Next
  PROVE  PlaceTypes'
<1>1. ASSUME NEW r \in Runners, NEW label \in Running \cup Processing \cup Waiting, Goto(r, label)
      PROVE  PlaceTypes'
  BY <1>1 DEF Goto, Inv, TypeOK, PlaceTypes
<1>2. ASSUME UNCHANGED pc PROVE PlaceTypes'
  BY <1>2 DEF Inv, TypeOK, PlaceTypes
<1>3. CASE Crash
  BY <1>3 DEF Crash, PlaceTypes, Waiting
<1>4. ASSUME NEW r \in Runners, Run(r) PROVE PlaceTypes'
  BY <1>1, <1>4
     DEF Run, EnterProcessing, OuterLoop, InnerLoop, Take, CatchError, Running, Processing, Waiting
<1>5. ASSUME NEW r \in Runners, Resume(r) PROVE PlaceTypes'
  BY <1>1, <1>2, <1>5
     DEF Resume, WakeUp, UpstreamAnswers, RefreshReturns, RefreshFails, UpstreamAccepts,
         ScrobbleSucceeds, DeadLetter, PutBack, Interrupted, BackoffOver, StagesSucceed,
         InitSucceeds, InitFails, StopTimedOut, StopAcknowledged, InitScrobbleMonitoring,
         Running, Processing, Waiting
<1> QED
  BY <1>1, <1>2, <1>3, <1>4, <1>5
     DEF Next, Heartbeat, HeartbeatInit, HeartbeatStart, Request, RequestStop, RequestStart,
         InitScrobbleMonitoring, Tick, QueueScrobble, Running, Processing, Waiting

LEMMA TaskTypesKept ==
  ASSUME Inv, Next
  PROVE  TaskTypes'
<1> USE DEF Inv, TypeOK, TaskTypes
<1>1. ASSUME NEW r \in Runners, UpstreamAnswers(r) PROVE TaskTypes'
  BY <1>1 DEF UpstreamAnswers, Latest, Upstream
<1>2. ASSUME NEW r \in Runners, InitSucceeds(r) \/ RefreshReturns(r) PROVE TaskTypes'
  BY <1>2 DEF InitSucceeds, RefreshReturns
<1>3. ASSUME NEW r \in Runners, InitFails(r) \/ RefreshFails(r) PROVE TaskTypes'
  BY <1>3 DEF InitFails, RefreshFails
<1>4. ASSUME NEW r \in Runners, Take(r) PROVE TaskTypes'
  <2>1. Head(queue) \in Plays
    BY <1>4, HeadTailProperties DEF Take, ListTypes, Conservation, PlaysAtHand
  <2> QED
    BY <1>4, <2>1 DEF Take
<1>5. ASSUME NEW r \in Runners, ScrobbleSucceeds(r) \/ DeadLetter(r) \/ PutBack(r)
      PROVE  TaskTypes'
  BY <1>5 DEF ScrobbleSucceeds, DeadLetter, PutBack, ScrobbleFails
<1>6. CASE Crash
  BY <1>6 DEF Crash
<1>7. CASE UNCHANGED <<inflight, window>>
  BY <1>7
<1> QED
  BY <1>1, <1>2, <1>3, <1>4, <1>5, <1>6, <1>7
     DEF Next, Run, Resume, Heartbeat, Request, Tick, HeartbeatInit, HeartbeatStart, RequestStop,
         StopTimedOut, StopAcknowledged, RequestStart, InitScrobbleMonitoring, StagesSucceed,
         EnterProcessing, OuterLoop, InnerLoop, WakeUp, QueueScrobble, UpstreamAccepts,
         CatchError, BackoffOver

LEMMA WorldTypesKept ==
  ASSUME Inv, Next
  PROVE  WorldTypes'
<1> USE DEF Inv, TypeOK, WorldTypes
<1>1. ASSUME UNCHANGED <<worldVars, eventVars, boundVars>> PROVE WorldTypes'
  BY <1>1 DEF worldVars, eventVars, boundVars
<1>2. ASSUME NEW p \in Plays, QueueScrobble(p) PROVE WorldTypes'
  BY <1>2 DEF QueueScrobble, boundVars, worldVars
<1>3. CASE Tick
  BY <1>3 DEF Tick, eventVars, boundVars
<1>4. CASE Crash
  BY <1>4 DEF Crash
<1>5. ASSUME NEW r \in Runners, RequestStop(r) \/ RequestStart(r) \/ StopAcknowledged(r)
      PROVE  WorldTypes'
  BY <1>5 DEF RequestStop, RequestStart, StopAcknowledged, InitScrobbleMonitoring, eventVars,
              worldVars
<1>6. ASSUME NEW r \in Runners, InitFails(r) \/ RefreshFails(r) \/ PutBack(r) PROVE WorldTypes'
  BY <1>6 DEF InitFails, RefreshFails, PutBack, ScrobbleFails, Fault, eventVars, worldVars
<1>7. ASSUME NEW r \in Runners, Take(r) PROVE WorldTypes'
  <2>1. Head(queue) \in Plays
    BY <1>7, HeadTailProperties DEF Take, ListTypes, Conservation, PlaysAtHand
  <2> QED
    BY <1>7, <2>1 DEF Take, ReportDequeued, boundVars, worldVars
<1>8. ASSUME NEW r \in Runners, UpstreamAccepts(r) PROVE WorldTypes'
  BY <1>8, InFlightIsPlay DEF UpstreamAccepts, eventVars, boundVars
<1>9. ASSUME NEW r \in Runners, ScrobbleSucceeds(r) \/ DeadLetter(r) PROVE WorldTypes'
  <2>1. inflight[r] \in Plays
    BY <1>9, InFlightIsPlay DEF ScrobbleSucceeds, DeadLetter, ScrobbleFails
  <2> QED
    BY <1>9, <2>1 DEF ScrobbleSucceeds, DeadLetter, ScrobbleFails, ReportDequeued, Fault,
                         boundVars, worldVars
<1> QED
  BY <1>1, <1>2, <1>3, <1>4, <1>5, <1>6, <1>7, <1>8, <1>9
     DEF Next, Run, Resume, Heartbeat, Request, HeartbeatInit, HeartbeatStart, StopTimedOut,
         UpstreamAnswers, StagesSucceed, InitSucceeds, EnterProcessing, OuterLoop, InnerLoop,
         WakeUp, RefreshReturns, CatchError, BackoffOver

LEMMA TypeOKKept ==
  ASSUME Inv, Next
  PROVE  TypeOK'
BY ListTypesKept, RecordTypesKept, StateTypesKept, PlaceTypesKept, TaskTypesKept, WorldTypesKept
   DEF TypeOK

-----------------------------------------------------------------------------
\* Steps that move no play.  Quiet(r, label) is what each of them satisfies.
Quiet(r, label) == Moves(r, label) /\ LeavesPlays(r, label)

LEMMA QuietKeeps ==
  ASSUME Inv, NEW r \in Runners, NEW label, Quiet(r, label)
  PROVE  OneProcessor' /\ Conservation'
BY OneProcessorKept, ConservationKept DEF Inv, Quiet

LEMMA RunIsQuiet ==
  ASSUME Inv, NEW r \in Runners,
         EnterProcessing(r) \/ OuterLoop(r) \/ InnerLoop(r) \/ CatchError(r)
  PROVE  \E label : Quiet(r, label)
<1> USE DEF Quiet, Moves, LeavesPlays, Processing, Running, Waiting, listVars, eventVars, loopVars
<1>0. pc[r] \in Processing => scrobbling
  BY DEF Inv, OneProcessor
<1>1. CASE EnterProcessing(r)
  <2>1. CASE MayProcess
    <3> Quiet(r, "outer")
      BY <1>1, <2>1 DEF EnterProcessing, MayProcess
    <3> QED
      OBVIOUS
  <2>2. CASE ~MayProcess
    <3> Quiet(r, "idle")
      BY <1>1, <2>2 DEF EnterProcessing, Inv, TypeOK, StateTypes
    <3> QED
      OBVIOUS
  <2> QED
    BY <2>1, <2>2
<1>2. CASE OuterLoop(r)
  <2>1. CASE ~scrobbling \/ stopSignal
    <3> Quiet(r, "idle")
      BY <1>2, <2>1 DEF OuterLoop, StopScrobbling
    <3> QED
      OBVIOUS
  <2>2. CASE ~(~scrobbling \/ stopSignal)
    <3> Quiet(r, "inner")
      BY <1>2, <2>2 DEF OuterLoop
    <3> QED
      OBVIOUS
  <2> QED
    BY <2>1, <2>2
<1>3. CASE InnerLoop(r)
  <2>0. scrobbling' = scrobbling /\ scrobbling
    BY <1>0, <1>3 DEF InnerLoop
  <2>1. CASE queue = <<>>
    <3> Quiet(r, "sleep")
      BY <1>3, <2>0, <2>1 DEF InnerLoop
    <3> QED
      OBVIOUS
  <2>2. CASE queue # <<>>
    <3>1. Goto(r, "refresh") \/ Goto(r, "take")
      BY <1>3, <2>2 DEF InnerLoop
    <3>2. Quiet(r, "refresh") \/ Quiet(r, "take")
      BY <1>3, <2>0, <2>2, <3>1 DEF InnerLoop
    <3> QED
      BY <3>2
  <2> QED
    BY <2>1, <2>2
<1>4. CASE CatchError(r)
  <2>1. Goto(r, "idle") \/ Goto(r, "backoff")
    BY <1>4 DEF CatchError
  <2>2. Quiet(r, "idle") \/ Quiet(r, "backoff")
    BY <1>4, <2>1 DEF CatchError, Inv, TypeOK, StateTypes
  <2> QED
    BY <2>2
<1> QED
  BY <1>1, <1>2, <1>3, <1>4

\* The awaits of doProcessing that touch no play.
LEMMA LoopAwaitIsQuiet ==
  ASSUME Inv, NEW r \in Runners,
         \/ WakeUp(r) \/ RefreshReturns(r) \/ RefreshFails(r) \/ UpstreamAccepts(r)
  PROVE  \E label : Quiet(r, label)
<1> USE DEF Quiet, Moves, LeavesPlays, Processing, listVars, eventVars, loopVars
<1>0. pc[r] \in Processing => scrobbling
  BY DEF Inv, OneProcessor
<1>1. CASE WakeUp(r)
  <2> Quiet(r, "outer")
    BY <1>0, <1>1 DEF WakeUp
  <2> QED
    OBVIOUS
<1>2. CASE RefreshReturns(r)
  <2> Quiet(r, "take")
    BY <1>0, <1>2 DEF RefreshReturns, Inv, Conservation, PlaysAtHand
  <2> QED
    OBVIOUS
<1>3. CASE RefreshFails(r)
  <2> Quiet(r, "throw")
    BY <1>3 DEF RefreshFails, Interrupted
  <2> QED
    OBVIOUS
<1>4. CASE UpstreamAccepts(r)
  <2> Quiet(r, "reply")
    BY <1>0, <1>4 DEF UpstreamAccepts
  <2> QED
    OBVIOUS
<1> QED
  BY <1>1, <1>2, <1>3, <1>4

\* The steps outside doProcessing: they leave `scrobbling` alone.
LEMMA OutsideIsQuiet ==
  ASSUME Inv, NEW r \in Runners, NEW label, Goto(r, label),
         pc[r] \notin Processing, label \in Running \cup Waiting, label \notin Processing,
         UNCHANGED <<scrobbling, queue, inflight, announced, dequeued>>
  PROVE  Quiet(r, label)
<1> USE DEF Processing, Running, Waiting
<1>1. Moves(r, label)
  BY DEF Moves, Inv, TypeOK, StateTypes
<1>2. LeavesPlays(r, label)
  BY DEF LeavesPlays
<1> QED
  BY <1>1, <1>2 DEF Quiet

LEMMA WaitIsQuiet ==
  ASSUME Inv, NEW r \in Runners,
         \/ BackoffOver(r) \/ StagesSucceed(r) \/ InitSucceeds(r) \/ InitFails(r)
         \/ StopTimedOut(r) \/ StopAcknowledged(r)
         \/ HeartbeatInit(r) \/ HeartbeatStart(r) \/ RequestStop(r) \/ RequestStart(r)
  PROVE  \E label : Quiet(r, label)
<1>1. UNCHANGED <<scrobbling, queue, inflight, announced, dequeued>>
  BY DEF BackoffOver, StagesSucceed, InitSucceeds, InitFails, StopTimedOut, StopAcknowledged,
         HeartbeatInit, HeartbeatStart, RequestStop, RequestStart, InitScrobbleMonitoring,
         listVars, eventVars, loopVars
<1>2. pc[r] \in Waiting /\ pc[r] \notin Processing
  BY DEF BackoffOver, StagesSucceed, InitSucceeds, InitFails, StopTimedOut, StopAcknowledged,
         HeartbeatInit, HeartbeatStart, RequestStop, RequestStart, Waiting, Processing
<1>3. PICK label \in {"start", "idle", "stopping", "init", "initFetch", "beat", "beatFetch"} :
        Goto(r, label)
  BY DEF BackoffOver, StagesSucceed, InitSucceeds, InitFails, StopTimedOut, StopAcknowledged,
         HeartbeatInit, HeartbeatStart, RequestStop, RequestStart, InitScrobbleMonitoring
<1>4. label \in Running \cup Waiting /\ label \notin Processing
  BY DEF Running, Waiting, Processing
<1> QED
  BY <1>1, <1>2, <1>3, <1>4, OutsideIsQuiet

-----------------------------------------------------------------------------
\* Steps that move a play.  First, what they do to the queue.
LEMMA AppendedKept ==
  ASSUME NEW s \in Seq(Plays), NEW p \in Plays, NEW t \in Sortings(Append(s, p))
  PROVE  /\ t \in Seq(Plays) /\ t # <<>>
         /\ Range(t) = Range(s) \cup {p}
         /\ IsInjective(s) /\ p \notin Range(s) => IsInjective(t)
<1> DEFINE a == Append(s, p)
<1>1. /\ a \in Seq(Plays) /\ Len(a) = Len(s) + 1 /\ Len(s) \in Nat
      /\ DOMAIN a = 1 .. Len(s) + 1 /\ DOMAIN s = 1 .. Len(s)
      /\ a[Len(s) + 1] = p /\ \A i \in 1 .. Len(s) : a[i] = s[i]
  BY AppendProperties, LenProperties
<1>2. Range(a) = Range(s) \cup {p}
  BY <1>1 DEF Range
<1>3. IsInjective(s) /\ p \notin Range(s) => IsInjective(a)
  BY <1>1 DEF IsInjective, Range
<1>4. t \in Seq(Plays) /\ Len(t) = Len(s) + 1 /\ Range(t) = Range(a)
      /\ (IsInjective(a) => IsInjective(t))
  BY <1>1, SortingsProperties
<1>5. t # <<>>
  BY <1>1, <1>4
<1> QED
  BY <1>2, <1>3, <1>4, <1>5

LEMMA ShiftedKept ==
  ASSUME NEW s \in Seq(Plays), s # <<>>, IsInjective(s)
  PROVE  /\ Head(s) \in Plays /\ Tail(s) \in Seq(Plays)
         /\ Range(s) = Range(Tail(s)) \cup {Head(s)}
         /\ Head(s) \notin Range(Tail(s))
         /\ IsInjective(Tail(s))
<1>1. /\ Tail(s) \in Seq(Plays) /\ Len(s) \in Nat \ {0} /\ Len(Tail(s)) = Len(s) - 1
      /\ DOMAIN s = 1 .. Len(s) /\ DOMAIN Tail(s) = 1 .. Len(s) - 1
      /\ Head(s) = s[1] /\ \A i \in 1 .. Len(s) - 1 : Tail(s)[i] = s[i + 1]
  BY HeadTailProperties, LenProperties, EmptySeq
<1>2. Head(s) \in Plays
  BY <1>1, ElementOfSeq
<1>3. Range(s) = Range(Tail(s)) \cup {Head(s)}
  <2>1. ASSUME NEW x \in Range(s) PROVE x = Head(s) \/ x \in Range(Tail(s))
    <3>1. PICK i \in 1 .. Len(s) : x = s[i]
      BY <1>1, <2>1 DEF Range
    <3>2. i = 1 \/ (i - 1 \in 1 .. Len(s) - 1 /\ x = Tail(s)[i - 1])
      BY <1>1, <3>1
    <3> QED
      BY <1>1, <3>1, <3>2 DEF Range
  <2>2. ASSUME NEW x \in Range(Tail(s)) PROVE x \in Range(s)
    <3>1. PICK i \in 1 .. Len(s) - 1 : x = Tail(s)[i]
      BY <1>1, <2>2 DEF Range
    <3> QED
      BY <1>1, <3>1 DEF Range
  <2>3. Head(s) \in Range(s)
    BY <1>1 DEF Range
  <2> QED
    BY <2>1, <2>2, <2>3
<1>4. Head(s) \notin Range(Tail(s)) /\ IsInjective(Tail(s))
  BY <1>1 DEF Range, IsInjective
<1> QED
  BY <1>1, <1>2, <1>3, <1>4

LEMMA UnshiftedKept ==
  ASSUME NEW s \in Seq(Plays), NEW p \in Plays
  PROVE  /\ <<p>> \o s \in Seq(Plays) /\ <<p>> \o s # <<>>
         /\ Range(<<p>> \o s) = Range(s) \cup {p}
         /\ IsInjective(s) /\ p \notin Range(s) => IsInjective(<<p>> \o s)
<1> DEFINE a == <<p>> \o s
<1>1. /\ a \in Seq(Plays) /\ Len(a) = Len(s) + 1 /\ Len(s) \in Nat
      /\ DOMAIN a = 1 .. Len(s) + 1 /\ DOMAIN s = 1 .. Len(s)
      /\ a[1] = p /\ \A i \in 2 .. Len(s) + 1 : a[i] = s[i - 1]
  BY ConcatProperties, LenProperties
<1>2. Range(a) = Range(s) \cup {p}
  <2>1. ASSUME NEW x \in Range(a) PROVE x = p \/ x \in Range(s)
    <3>1. PICK i \in 1 .. Len(s) + 1 : x = a[i]
      BY <1>1, <2>1 DEF Range
    <3>2. i = 1 \/ (i - 1 \in 1 .. Len(s) /\ x = s[i - 1])
      BY <1>1, <3>1
    <3> QED
      BY <1>1, <3>1, <3>2 DEF Range
  <2>2. ASSUME NEW x \in Range(s) PROVE x \in Range(a)
    <3>1. PICK i \in 1 .. Len(s) : x = s[i]
      BY <1>1, <2>2 DEF Range
    <3>2. i + 1 \in DOMAIN a /\ a[i + 1] = x
      BY <1>1, <3>1
    <3> HIDE DEF a
    <3> QED
      BY <3>2 DEF Range
  <2>3. p \in Range(a)
    BY <1>1 DEF Range
  <2> HIDE DEF a
  <2> QED
    BY <2>1, <2>2, <2>3
<1>3. IsInjective(s) /\ p \notin Range(s) => IsInjective(a)
  BY <1>1 DEF IsInjective, Range
<1> QED
  BY <1>1, <1>2, <1>3

\* The set of plays in flight, when r takes one or lets go of its own.
LEMMA InFlightTaken ==
  ASSUME Inv, NEW r \in Runners, inflight[r] = NoPlay, NEW p \in Plays,
         inflight' = [inflight EXCEPT ![r] = p]
  PROVE  InFlight' = InFlight \cup {p}
BY PlaysAssumption DEF InFlight, Inv, TypeOK, TaskTypes

LEMMA InFlightReleased ==
  ASSUME Inv, NEW r \in Runners, inflight[r] # NoPlay,
         inflight' = [inflight EXCEPT ![r] = NoPlay]
  PROVE  InFlight' = InFlight \ {inflight[r]} /\ inflight[r] \in InFlight
BY DEF InFlight, Inv, TypeOK, TaskTypes, Conservation, EachPlayOnce

LEMMA QueueScrobbleKeeps ==
  ASSUME Inv, NEW p \in Plays, QueueScrobble(p)
  PROVE  OneProcessor' /\ Conservation'
<1>1. UNCHANGED <<pc, inflight, dequeued, scrobbling>> /\ announced' = announced \cup {p}
  BY DEF QueueScrobble, loopVars
<1>2. OneProcessor'
  BY <1>1 DEF OneProcessor, Inv
<1>3. p \notin Range(queue) /\ p \notin InFlight /\ p \notin dequeued /\ IsInjective(queue)
  BY DEF QueueScrobble, Inv, Conservation, EachPlayOnce
<1>4. /\ queue' # <<>> /\ Range(queue') = Range(queue) \cup {p} /\ IsInjective(queue')
  BY <1>3, AppendedKept DEF QueueScrobble, Inv, TypeOK, ListTypes
<1>5. InFlight' = InFlight
  BY <1>1 DEF InFlight
<1>6. EachPlayOnce'
  BY <1>1, <1>3, <1>4, <1>5 DEF Inv, Conservation, EachPlayOnce
<1>7. PlaysAtHand'
  BY <1>1, <1>4 DEF Inv, Conservation, PlaysAtHand
<1> QED
  BY <1>2, <1>6, <1>7 DEF Conservation

\* Take, and the end of a submission, keep r inside doProcessing or leave it.
LEMMA PlacesKept ==
  ASSUME Inv, NEW r \in Runners, NEW label, Goto(r, label), queue' \in Seq(Plays),
         label \notin {"refresh", "take"}, ~(\E q \in Runners : q # r /\ pc[q] \in Processing),
         \A q \in Runners : q # r => inflight'[q] = inflight[q],
         (inflight'[r] # NoPlay) = (label \in {"submit", "reply"})
  PROVE  PlaysAtHand'
<1>1. \A q \in Runners : pc'[q] = IF q = r THEN label ELSE pc[q]
  BY DEF Inv, TypeOK, PlaceTypes, Goto
<1> QED
  BY <1>1 DEF Inv, Conservation, PlaysAtHand, Processing

LEMMA TakeKeeps ==
  ASSUME Inv, NEW r \in Runners, Take(r)
  PROVE  OneProcessor' /\ Conservation'
<1> DEFINE p == Head(queue)
<1>1. pc[r] = "take" /\ queue # <<>> /\ inflight[r] = NoPlay /\ scrobbling
  BY DEF Take, Inv, Conservation, PlaysAtHand, OneProcessor, Processing
<1>2. /\ p \in Plays /\ Tail(queue) \in Seq(Plays)
      /\ Range(queue) = Range(Tail(queue)) \cup {p}
      /\ p \notin Range(Tail(queue)) /\ IsInjective(Tail(queue))
  BY <1>1, ShiftedKept DEF Inv, TypeOK, ListTypes, Conservation, EachPlayOnce
<1>3. queue' = Tail(queue) /\ UNCHANGED <<announced, scrobbling>>
  BY DEF Take, loopVars
<1>4. \A q \in Runners : q # r => pc[q] \notin Processing
  BY <1>1 DEF Inv, OneProcessor, Processing
<1> HIDE DEF p
<1>5. CASE dequeued' = dequeued \cup {p} /\ Goto(r, "inner") /\ UNCHANGED inflight
  <2>1. Moves(r, "inner")
    BY <1>1, <1>3, <1>5 DEF Moves, Processing
  <2>2. InFlight' = InFlight
    BY <1>5 DEF InFlight
  <2>3. EachPlayOnce'
    BY <1>2, <1>3, <1>5, <2>2 DEF Inv, Conservation, EachPlayOnce
  <2>4. PlaysAtHand'
    BY <1>1, <1>2, <1>3, <1>4, <1>5, PlacesKept
  <2> QED
    BY <2>1, <2>3, <2>4, OneProcessorKept DEF Inv, Conservation
<1>6. CASE inflight' = [inflight EXCEPT ![r] = p] /\ Goto(r, "submit") /\ UNCHANGED dequeued
  <2>1. Moves(r, "submit")
    BY <1>1, <1>3, <1>6 DEF Moves, Processing
  <2>2. InFlight' = InFlight \cup {p}
    BY <1>1, <1>2, <1>6, InFlightTaken
  <2>3. inflight'[r] = p /\ \A q \in Runners : q # r => inflight'[q] = inflight[q]
    BY <1>6 DEF Inv, TypeOK, TaskTypes
  <2>4. p \notin InFlight
    BY <1>2 DEF Inv, Conservation, EachPlayOnce
  <2>5. \A r1, r2 \in Runners : inflight'[r1] # NoPlay /\ inflight'[r1] = inflight'[r2] => r1 = r2
    BY <1>2, <2>3, <2>4, PlaysAssumption DEF Inv, Conservation, EachPlayOnce, InFlight
  <2>6. EachPlayOnce'
    BY <1>2, <1>3, <1>6, <2>2, <2>5 DEF Inv, Conservation, EachPlayOnce
  <2>7. PlaysAtHand'
    BY <1>1, <1>2, <1>3, <1>4, <1>6, <2>3, PlacesKept, PlaysAssumption
  <2> QED
    BY <2>1, <2>6, <2>7, OneProcessorKept DEF Inv, Conservation
<1> QED
  BY <1>5, <1>6 DEF Take, ReportDequeued, p

\* A play that was in flight is dequeued, or back at the head of the queue.
LEMMA SubmissionEndKeeps ==
  ASSUME Inv, NEW r \in Runners, ScrobbleSucceeds(r) \/ DeadLetter(r) \/ PutBack(r)
  PROVE  OneProcessor' /\ Conservation'
<1> DEFINE p == inflight[r]
<1>1. /\ pc[r] \in {"submit", "reply"} /\ scrobbling
      /\ inflight' = [inflight EXCEPT ![r] = NoPlay]
      /\ UNCHANGED announced
  BY DEF ScrobbleSucceeds, DeadLetter, PutBack, ScrobbleFails, eventVars, Inv, OneProcessor,
         Processing
<1>2. p \in Plays /\ p # NoPlay
  BY <1>1, InFlightIsPlay, PlaysAssumption
<1>3. InFlight' = InFlight \ {p} /\ p \in InFlight
  BY <1>1, <1>2, InFlightReleased
<1>4. inflight'[r] = NoPlay /\ \A q \in Runners : q # r => inflight'[q] = inflight[q]
  BY <1>1 DEF Inv, TypeOK, TaskTypes
<1>5. \A r1, r2 \in Runners : inflight'[r1] # NoPlay /\ inflight'[r1] = inflight'[r2] => r1 = r2
  BY <1>4 DEF Inv, Conservation, EachPlayOnce
<1>6. \A q \in Runners : q # r => pc[q] \notin Processing
  BY <1>1 DEF Inv, OneProcessor, Processing
<1>7. CASE ScrobbleSucceeds(r) \/ DeadLetter(r)
  <2>1. /\ Goto(r, "inner") /\ UNCHANGED <<queue, scrobbling>> /\ dequeued' = dequeued \cup {p}
    BY <1>7 DEF ScrobbleSucceeds, DeadLetter, ReportDequeued, listVars, loopVars
  <2>2. Moves(r, "inner")
    BY <1>1, <2>1 DEF Moves, Processing
  <2>3. EachPlayOnce'
    BY <1>1, <1>2, <1>3, <1>5, <2>1 DEF Inv, Conservation, EachPlayOnce
  <2>4. PlaysAtHand'
    BY <1>4, <1>6, <2>1, PlacesKept DEF Inv, TypeOK, ListTypes
  <2> QED
    BY <2>2, <2>3, <2>4, OneProcessorKept DEF Inv, Conservation
<1>8. CASE PutBack(r)
  <2>1. /\ Goto(r, "throw") /\ scrobbling' = FALSE /\ UNCHANGED dequeued
        /\ queue' = <<p>> \o queue
    BY <1>8 DEF PutBack, Interrupted, Unshift, eventVars
  <2>2. Moves(r, "throw")
    BY <1>1, <2>1 DEF Moves, Processing
  <2>3. p \notin Range(queue) /\ p \notin dequeued /\ IsInjective(queue)
    BY <1>3 DEF Inv, Conservation, EachPlayOnce
  <2>4. queue' \in Seq(Plays) /\ Range(queue') = Range(queue) \cup {p} /\ IsInjective(queue')
    BY <1>2, <2>1, <2>3, UnshiftedKept DEF Inv, TypeOK, ListTypes
  <2>5. EachPlayOnce'
    BY <1>1, <1>2, <1>3, <1>5, <2>1, <2>3, <2>4 DEF Inv, Conservation, EachPlayOnce
  <2>6. PlaysAtHand'
    BY <1>4, <1>6, <2>1, <2>4, PlacesKept
  <2> QED
    BY <2>2, <2>5, <2>6, OneProcessorKept DEF Inv, Conservation
<1> QED
  BY <1>7, <1>8

LEMMA CrashKeeps ==
  ASSUME Inv, Crash
  PROVE  OneProcessor' /\ Conservation'
<1>1. Range(queue') = {} /\ IsInjective(queue')
  BY DEF Crash, Range, IsInjective
<1>2. InFlight' = {}
  BY DEF Crash, InFlight
<1> QED
  BY <1>1, <1>2 DEF Crash, OneProcessor, Conservation, EachPlayOnce, PlaysAtHand, Processing

LEMMA UnmovedKeeps ==
  ASSUME Inv, UNCHANGED <<pc, scrobbling, queue, inflight, announced, dequeued>>
  PROVE  OneProcessor' /\ Conservation'
<1>1. InFlight' = InFlight
  BY DEF InFlight
<1> QED
  BY <1>1 DEF Inv, OneProcessor, Conservation, EachPlayOnce, PlaysAtHand, Range, IsInjective

-----------------------------------------------------------------------------
LEMMA InitEstablishesInv ==
  ASSUME Init
  PROVE  Inv
<1>1. TypeOK
  <2>1. ListTypes
    BY EmptySeq DEF Init, ListTypes
  <2>2. RecordTypes /\ StateTypes /\ PlaceTypes
    BY DEF Init, RecordTypes, StateTypes, PlaceTypes, Waiting
  <2>3. TaskTypes /\ WorldTypes
    BY DEF Init, TaskTypes, WorldTypes
  <2> QED
    BY <2>1, <2>2, <2>3 DEF TypeOK
<1>2. OneProcessor
  BY DEF Init, OneProcessor, Processing
<1>3. Range(queue) = {} /\ IsInjective(queue) /\ InFlight = {}
  BY DEF Init, Range, IsInjective, InFlight
<1>4. Conservation
  BY <1>3 DEF Init, Conservation, EachPlayOnce, PlaysAtHand
<1> QED
  BY <1>1, <1>2, <1>4 DEF Inv

LEMMA NextKeepsInv ==
  ASSUME Inv, [Next]_vars
  PROVE  Inv'
<1>1. CASE Next
  <2>1. TypeOK'
    BY <1>1, TypeOKKept
  <2>2. ASSUME NEW r \in Runners, Run(r) PROVE OneProcessor' /\ Conservation'
    BY <2>2, RunIsQuiet, QuietKeeps, TakeKeeps DEF Run
  <2>3. ASSUME NEW r \in Runners, Resume(r) PROVE OneProcessor' /\ Conservation'
    <3>1. CASE UpstreamAnswers(r)
      BY <3>1, UnmovedKeeps DEF UpstreamAnswers, loopVars, listVars, eventVars
    <3>2. CASE WakeUp(r) \/ RefreshReturns(r) \/ RefreshFails(r) \/ UpstreamAccepts(r)
      BY <3>2, LoopAwaitIsQuiet, QuietKeeps
    <3>3. CASE ScrobbleSucceeds(r) \/ DeadLetter(r) \/ PutBack(r)
      BY <3>3, SubmissionEndKeeps
    <3>4. CASE \/ BackoffOver(r) \/ StagesSucceed(r) \/ InitSucceeds(r) \/ InitFails(r)
               \/ StopTimedOut(r) \/ StopAcknowledged(r)
      BY <3>4, WaitIsQuiet, QuietKeeps
    <3> QED
      BY <2>3, <3>1, <3>2, <3>3, <3>4 DEF Resume
  <2>4. ASSUME Heartbeat \/ Request PROVE OneProcessor' /\ Conservation'
    <3>1. PICK r \in Runners :
            HeartbeatInit(r) \/ HeartbeatStart(r) \/ RequestStop(r) \/ RequestStart(r)
      BY <2>4 DEF Heartbeat, Request
    <3> QED
      BY <3>1, WaitIsQuiet, QuietKeeps
  <2>5. ASSUME Tick PROVE OneProcessor' /\ Conservation'
    BY <2>5, UnmovedKeeps DEF Tick, loopVars, listVars, eventVars
  <2> QED
    BY <1>1, <2>1, <2>2, <2>3, <2>4, <2>5, QueueScrobbleKeeps, CrashKeeps DEF Next, Inv
<1>2. CASE UNCHANGED vars
  <2>1. TypeOK'
    BY <1>2 DEF vars, listVars, recordVars, refreshVars, loopVars, readyVars, eventVars, boundVars,
                worldVars, Inv, TypeOK, ListTypes, RecordTypes, StateTypes, PlaceTypes, TaskTypes,
                WorldTypes
  <2>2. OneProcessor' /\ Conservation'
    BY <1>2, UnmovedKeeps DEF vars, loopVars, listVars, eventVars
  <2> QED
    BY <2>1, <2>2 DEF Inv
<1> QED
  BY <1>1, <1>2

LEMMA Invariance == Spec => []Inv
<1>1. Init => Inv
  BY InitEstablishesInv
<1>2. Inv /\ [Next]_vars => Inv'
  BY NextKeepsInv
<1> QED
  BY <1>1, <1>2, PTL DEF Spec

\* Every variable of the client always has its type.
THEOREM TypeCorrect == Spec => []TypeOK
<1>1. Inv => TypeOK
  BY DEF Inv
<1> QED
  BY <1>1, Invariance, PTL

\* The heartbeat, the API and the backoff may all call startScrobbling: at most one
\* doProcessing runs at any time, and `scrobbling` says whether one does.
THEOREM OneProcessorAlways == Spec => []OneProcessor
<1>1. Inv => OneProcessor
  BY DEF Inv
<1> QED
  BY <1>1, Invariance, PTL

\* No play handed to queueScrobble is lost or left to be processed twice by an error,
\* a retry, a stop or a restart of the loop.
THEOREM ConservationAlways == Spec => []Conservation
<1>1. Inv => Conservation
  BY DEF Inv
<1> QED
  BY <1>1, Invariance, PTL

-----------------------------------------------------------------------------
(* What is checked when a play is submitted or dropped: the order of the      *)
(* queue, what a dropped play was compared with, and how recent that is.      *)

\* The steps of the client, told apart by what they do to plays and to knowledge.

\* r goes on to label and touches neither plays, nor what is known upstream.
Aside(r, label) ==
  /\ pc[r] \in {"start", "outer", "throw", "sleep", "backoff", "stopping", "idle"}
  /\ label \in {"idle", "outer", "inner", "start", "backoff", "stopping"}
  /\ Goto(r, label)
  /\ UNCHANGED <<listVars, recordVars, refreshVars, readyVars, eventVars, inflight, window,
                 worldVars>>

\* r starts to initialize the client, which nobody else is doing.
Begins(r, label) ==
  /\ pc[r] \in {"idle", "stopping"} /\ label \in {"init", "beat"}
  /\ ~initializing /\ initializing'
  /\ Goto(r, label)
  /\ UNCHANGED <<listVars, recordVars, refreshVars, eventVars, inflight, window, worldVars>>

\* What r does to a play, and what it does to the client's knowledge.
MovesPlay(r)  == Take(r) \/ ScrobbleSucceeds(r) \/ DeadLetter(r) \/ PutBack(r)
Learns(r)     == RefreshReturns(r) \/ InitSucceeds(r)
GivesUp(r)    == RefreshFails(r) \/ InitFails(r)

LEMMA MonitoringSteps ==
  ASSUME Inv, NEW r \in Runners, NEW force \in BOOLEAN, InitScrobbleMonitoring(r, force),
         pc[r] \in {"idle", "stopping"}
  PROVE  \E label : Aside(r, label) \/ Begins(r, label)
<1> USE DEF InitScrobbleMonitoring, Aside, Begins, readyVars
<1>1. CASE ready /\ ~force
  <2> Aside(r, IF scrobbling THEN "idle" ELSE "start")
    BY <1>1
  <2> QED
    OBVIOUS
<1>2. CASE ~(ready /\ ~force) /\ initializing
  <2> Aside(r, "idle")
    BY <1>2 DEF Inv, TypeOK, StateTypes
  <2> QED
    OBVIOUS
<1>3. CASE ~(ready /\ ~force) /\ ~initializing
  <2> Begins(r, "init")
    BY <1>3
  <2> QED
    OBVIOUS
<1> QED
  BY <1>1, <1>2, <1>3

LEMMA AsideSteps ==
  ASSUME Inv, NEW r \in Runners,
         \/ EnterProcessing(r) \/ OuterLoop(r) \/ CatchError(r) \/ WakeUp(r) \/ BackoffOver(r)
         \/ StopTimedOut(r) \/ HeartbeatStart(r) \/ RequestStop(r)
  PROVE  \E label : Aside(r, label)
<1> USE DEF Aside, readyVars
<1>1. PICK label \in {"idle", "outer", "inner", "start", "backoff", "stopping"} : Goto(r, label)
  BY DEF EnterProcessing, OuterLoop, CatchError, WakeUp, BackoffOver, StopTimedOut,
         HeartbeatStart, RequestStop
<1>2. pc[r] \in {"start", "outer", "throw", "sleep", "backoff", "stopping", "idle"}
  BY DEF EnterProcessing, OuterLoop, CatchError, WakeUp, BackoffOver, StopTimedOut,
         HeartbeatStart, RequestStop
<1>3. UNCHANGED <<listVars, recordVars, refreshVars, readyVars, eventVars, inflight, window,
                  worldVars>>
  BY DEF EnterProcessing, OuterLoop, CatchError, WakeUp, BackoffOver, StopTimedOut,
         HeartbeatStart, RequestStop
<1> QED
  BY <1>1, <1>2, <1>3

\* Every step, and which of them happen while no code runs between two awaits.
LEMMA StepsOfNext ==
  ASSUME Inv, Next
  PROVE  \/ \E r \in Runners : Take(r) \/ InnerLoop(r) \/ \E label : Aside(r, label)
         \/ /\ Yielded
            /\ \/ \E p \in Plays : QueueScrobble(p)
               \/ \E r \in Runners : \/ MovesPlay(r) \/ Learns(r) \/ GivesUp(r)
                                     \/ UpstreamAnswers(r) \/ UpstreamAccepts(r) \/ StagesSucceed(r)
                                     \/ \E label : Begins(r, label)
               \/ Tick \/ Crash
<1>1. ASSUME NEW r \in Runners, Run(r)
      PROVE  Take(r) \/ InnerLoop(r) \/ \E label : Aside(r, label)
  BY <1>1, AsideSteps DEF Run
<1>2. ASSUME NEW r \in Runners, Resume(r)
      PROVE  \/ MovesPlay(r) \/ Learns(r) \/ GivesUp(r)
             \/ UpstreamAnswers(r) \/ UpstreamAccepts(r) \/ StagesSucceed(r)
             \/ \E label : Aside(r, label) \/ Begins(r, label)
  <2>1. CASE StopAcknowledged(r)
    BY <2>1, MonitoringSteps DEF StopAcknowledged
  <2>2. CASE ~StopAcknowledged(r)
    BY <1>2, <2>2, AsideSteps DEF Resume, MovesPlay, Learns, GivesUp
  <2> QED
    BY <2>1, <2>2
<1>3. ASSUME Heartbeat
      PROVE  \E r \in Runners : \E label : Aside(r, label) \/ Begins(r, label)
  <2>1. PICK r \in Runners : HeartbeatInit(r) \/ HeartbeatStart(r)
    BY <1>3 DEF Heartbeat
  <2>2. CASE HeartbeatInit(r)
    <3> Begins(r, "beat")
      BY <2>2 DEF HeartbeatInit, Begins
    <3> QED
      OBVIOUS
  <2> QED
    BY <2>1, <2>2, AsideSteps
<1>4. ASSUME Request
      PROVE  \E r \in Runners : \E label : Aside(r, label) \/ Begins(r, label)
  <2>1. PICK r \in Runners : RequestStop(r) \/ RequestStart(r)
    BY <1>4 DEF Request
  <2>2. CASE RequestStart(r)
    BY <2>2, MonitoringSteps DEF RequestStart
  <2> QED
    BY <2>1, <2>2, AsideSteps
<1> QED
  BY <1>1, <1>2, <1>3, <1>4 DEF Next

-----------------------------------------------------------------------------
\* The order of the queue.  Its head may be a play that was put back, but not while
\* another one is in flight: then the whole queue is sorted.
Sorted(s) == \A i, j \in 1 .. Len(s) : i < j => Date[s[i]] <= Date[s[j]]
OrderInv ==
  /\ SortedBehindHead
  /\ (\E r \in Runners : inflight[r] # NoPlay) => Sorted(queue)

\* A sorting of plays is sorted; the rest of a sorted sequence is, and so is one
\* whose head is not looked at.
LEMMA SortingsSort ==
  ASSUME NEW s \in Seq(Plays), NEW t \in Sortings(s)
  PROVE  t \in Seq(Plays) /\ Sorted(t)
<1>1. t \in Seq(Plays) /\ Len(t) = Len(s)
  BY SortingsProperties
<1>2. PICK g \in Bijection(DOMAIN s, DOMAIN s) :
        /\ t = [i \in DOMAIN s |-> s[g[i]]]
        /\ \A i, j \in DOMAIN s : i < j => NotAfter(s[g[i]], s[g[j]])
  BY DEF Sortings
<1>3. DOMAIN s = 1 .. Len(s) /\ \A i \in DOMAIN s : s[i] \in Plays
  BY LenProperties, ElementOfSeq
<1>4. \A i \in DOMAIN s : s[g[i]] # NoPlay
  BY <1>2, <1>3, PlaysAssumption DEF Bijection, Injection
<1> QED
  BY <1>1, <1>2, <1>3, <1>4 DEF Sorted, NotAfter

LEMMA SortedTail ==
  ASSUME NEW s \in Seq(Plays), s # <<>>,
         \A i, j \in 2 .. Len(s) : i < j => Date[s[i]] <= Date[s[j]]
  PROVE  Sorted(Tail(s))
<1>1. /\ Len(s) \in Nat \ {0} /\ Len(Tail(s)) = Len(s) - 1
      /\ \A i \in 1 .. Len(s) - 1 : Tail(s)[i] = s[i + 1]
  BY HeadTailProperties, LenProperties, EmptySeq
<1> QED
  BY <1>1 DEF Sorted

LEMMA SortedIsSortedBehindHead ==
  ASSUME NEW s \in Seq(Plays), Sorted(s)
  PROVE  \A i, j \in 2 .. Len(s) : i < j => Date[s[i]] <= Date[s[j]]
BY LenProperties DEF Sorted

LEMMA SortedUnderHead ==
  ASSUME NEW s \in Seq(Plays), NEW p \in Plays, Sorted(s)
  PROVE  \A i, j \in 2 .. Len(<<p>> \o s) : i < j => Date[(<<p>> \o s)[i]] <= Date[(<<p>> \o s)[j]]
<1>1. /\ Len(<<p>> \o s) = Len(s) + 1 /\ Len(s) \in Nat
      /\ \A i \in 2 .. Len(s) + 1 : (<<p>> \o s)[i] = s[i - 1]
  BY ConcatProperties, LenProperties
<1>2. ASSUME NEW i \in 2 .. Len(s) + 1, NEW j \in 2 .. Len(s) + 1, i < j
      PROVE  Date[s[i - 1]] <= Date[s[j - 1]]
  <2>1. i - 1 \in 1 .. Len(s) /\ j - 1 \in 1 .. Len(s) /\ i - 1 < j - 1
    BY <1>1, <1>2
  <2> QED
    BY <2>1 DEF Sorted
<1> HIDE DEF Sorted
<1> QED
  BY <1>1, <1>2

LEMMA OrderInvKept ==
  ASSUME Inv, Inv', OrderInv, Next
  PROVE  OrderInv'
<1> DEFINE Quieter == queue' = queue /\ \A r \in Runners : inflight'[r] \in {inflight[r], NoPlay}
<1>0. queue \in Seq(Plays) /\ queue' \in Seq(Plays)
  BY DEF Inv, TypeOK, ListTypes
<1>1. ASSUME Sorted(queue') PROVE OrderInv'
  BY <1>0, <1>1, SortedIsSortedBehindHead DEF OrderInv, SortedBehindHead, Sorted
<1>2. CASE Quieter
  BY <1>2 DEF OrderInv, SortedBehindHead, Sorted
<1>3. ASSUME NEW p \in Plays, QueueScrobble(p) PROVE OrderInv'
  BY <1>0, <1>1, <1>3, AppendProperties, SortingsSort DEF QueueScrobble
<1>4. ASSUME NEW r \in Runners, Take(r) PROVE OrderInv'
  <2>1. queue # <<>> /\ queue' = Tail(queue)
    BY <1>4 DEF Take, Inv, Conservation, PlaysAtHand
  <2> QED
    BY <1>0, <1>1, <2>1, SortedTail DEF OrderInv, SortedBehindHead
<1>5. ASSUME NEW r \in Runners, PutBack(r) PROVE OrderInv'
  <2>1. /\ pc[r] \in {"submit", "reply"} /\ queue' = <<inflight[r]>> \o queue
        /\ inflight' = [inflight EXCEPT ![r] = NoPlay]
    BY <1>5 DEF PutBack, Unshift, ScrobbleFails
  <2>2. inflight[r] \in Plays /\ inflight[r] # NoPlay
    BY <2>1, InFlightIsPlay, PlaysAssumption
  <2>3. SortedBehindHead'
    BY <1>0, <2>1, <2>2, SortedUnderHead DEF OrderInv, SortedBehindHead
  <2>4. \A q \in Runners : inflight'[q] = NoPlay
    BY <2>1 DEF Inv, TypeOK, TaskTypes, OneProcessor, Processing, Conservation, PlaysAtHand
  <2> QED
    BY <2>3, <2>4 DEF OrderInv
<1>6. ASSUME NEW r \in Runners, ScrobbleSucceeds(r) \/ DeadLetter(r) PROVE Quieter
  BY <1>6 DEF ScrobbleSucceeds, DeadLetter, ScrobbleFails, listVars, Inv, TypeOK, TaskTypes
<1>7. ASSUME NEW r \in Runners, NEW label, Aside(r, label) \/ Begins(r, label) PROVE Quieter
  BY <1>7 DEF Aside, Begins, listVars
<1>8. ASSUME NEW r \in Runners,
             \/ InnerLoop(r) \/ Learns(r) \/ GivesUp(r) \/ UpstreamAnswers(r)
             \/ UpstreamAccepts(r) \/ StagesSucceed(r)
      PROVE  Quieter
  BY <1>8 DEF InnerLoop, Learns, RefreshReturns, InitSucceeds, GivesUp, RefreshFails, InitFails,
              UpstreamAnswers, UpstreamAccepts, StagesSucceed, listVars
<1>9. CASE Crash
  BY <1>9 DEF Crash, OrderInv, SortedBehindHead
<1>10. CASE Tick
  BY <1>2, <1>10 DEF Tick, listVars
<1> QED
  BY <1>2, <1>3, <1>4, <1>5, <1>6, <1>7, <1>8, <1>9, <1>10, StepsOfNext DEF MovesPlay

-----------------------------------------------------------------------------
\* What the client holds as scrobbled is upstream, and so is the play whose date
\* closes its time frame: whatever it drops, it drops for a play the service holds.
HeldHere == {s.play : s \in scrobbled}
KnowledgeInv ==
  /\ HeldHere \cup recent \subseteq Upstream
  /\ oldest # 0 => \E q \in Upstream : oldest = Date[q]
  /\ \A r \in Runners : window[r] # Unanswered => window[r] \subseteq Upstream
  /\ \A r \in Runners : pc[r] = "reply" => inflight[r] \in Upstream
  /\ DroppedOnlyIfCovered

\* The service forgets nothing, and nothing but an answer to a submission is new.
LEMMA UpstreamGrows ==
  ASSUME Inv, Next
  PROVE  /\ Upstream \subseteq Upstream'
         /\ ~(\E r \in Runners : UpstreamAccepts(r)) => accepted' = accepted
<1>1. ASSUME NEW r \in Runners, UpstreamAccepts(r) PROVE Upstream \subseteq Upstream'
  BY <1>1, InFlightIsPlay DEF UpstreamAccepts, Upstream, Inv, TypeOK, WorldTypes
<1>2. ASSUME ~(\E r \in Runners : UpstreamAccepts(r)) PROVE accepted' = accepted
  <2>1. ASSUME NEW r \in Runners, NEW label, Aside(r, label) \/ Begins(r, label)
        PROVE  accepted' = accepted
    BY <2>1 DEF Aside, Begins, worldVars
  <2>2. ASSUME NEW r \in Runners,
               \/ InnerLoop(r) \/ Learns(r) \/ GivesUp(r) \/ UpstreamAnswers(r)
               \/ StagesSucceed(r) \/ Take(r) \/ MovesPlay(r)
        PROVE  accepted' = accepted
    BY <2>2 DEF InnerLoop, Learns, RefreshReturns, InitSucceeds, GivesUp, RefreshFails, InitFails,
                UpstreamAnswers, StagesSucceed, MovesPlay, Take, ScrobbleSucceeds, DeadLetter,
                PutBack, worldVars
  <2>3. ASSUME (\E p \in Plays : QueueScrobble(p)) \/ Tick \/ Crash
        PROVE  accepted' = accepted
    BY <2>3 DEF QueueScrobble, Tick, Crash, worldVars
  <2> QED
    BY <1>2, <2>1, <2>2, <2>3, StepsOfNext
<1> QED
  BY <1>1, <1>2 DEF Upstream

\* A sorting of the dead letter queue holds what it held, and the play added to it.
LEMMA DeadLetterAdds ==
  ASSUME Inv, NEW r \in Runners, DeadLetter(r)
  PROVE  Range(dead') = Range(dead) \cup {inflight[r]}
<1>1. inflight[r] \in Plays
  BY InFlightIsPlay DEF DeadLetter, ScrobbleFails
<1>2. dead \in Seq(Plays \cup {NoPlay})
  BY DEF Inv, TypeOK, ListTypes
<1> DEFINE a == Append(dead, inflight[r])
<1>3. /\ a \in Seq(Plays \cup {NoPlay})
      /\ Len(dead) \in Nat /\ DOMAIN dead = 1 .. Len(dead) /\ DOMAIN a = 1 .. Len(dead) + 1
      /\ a[Len(dead) + 1] = inflight[r] /\ \A i \in 1 .. Len(dead) : a[i] = dead[i]
  BY <1>1, <1>2, AppendProperties, LenProperties
<1>4. Range(a) = Range(dead) \cup {inflight[r]}
  BY <1>3 DEF Range
<1>5. dead' \in Sortings(a)
  BY DEF DeadLetter
<1> HIDE DEF a
<1> QED
  BY <1>3, <1>4, <1>5, SortingsProperties

\* What a refresh learns is upstream, and it only forgets scrobbles of its own.
LEMMA RefreshLearns ==
  ASSUME Inv, KnowledgeInv, NEW r \in Runners, Refresh(window[r])
  PROVE  /\ HeldHere' \subseteq HeldHere /\ recent' \subseteq Upstream
         /\ oldest' # 0 => \E q \in Upstream : oldest' = Date[q]
<1>1. CASE RefreshEnabled
  <2>1. /\ window[r] # Unanswered /\ recent' = window[r] /\ window[r] \subseteq Upstream
        /\ scrobbled' \subseteq scrobbled
    BY <1>1 DEF Refresh, KnowledgeInv
  <2>2. oldest' = oldest \/ \E q \in window[r] : oldest' = Date[q]
    BY <1>1 DEF Refresh
  <2> QED
    BY <2>1, <2>2 DEF HeldHere, KnowledgeInv
<1>2. CASE ~RefreshEnabled
  BY <1>2 DEF Refresh, HeldHere, KnowledgeInv
<1> QED
  BY <1>1, <1>2

\* What was covered stays so.
LEMMA CoverKept ==
  ASSUME Inv, KnowledgeInv, Next, NEW p \in dequeued, Range(dead) \subseteq Range(dead')
  PROVE  \/ p \in Range(dead')
         \/ \E q \in Upstream' : Listen[q] = Listen[p] \/ Date[p] <= Date[q]
BY UpstreamGrows DEF KnowledgeInv, DroppedOnlyIfCovered

LEMMA KnowledgeInvKept ==
  ASSUME Inv, Inv', KnowledgeInv, Next
  PROVE  KnowledgeInv'
<1> DEFINE Same == UNCHANGED <<scrobbled, recent, oldest, window, dequeued, dead>>
<1>0. Upstream \subseteq Upstream' /\ \A q \in Plays : Listen[q] = Listen[q]'
  BY UpstreamGrows
<1>1. ASSUME Same, \A r \in Runners : pc'[r] = "reply" => inflight'[r] \in Upstream'
      PROVE  KnowledgeInv'
  <2>1. DroppedOnlyIfCovered'
    BY <1>1, CoverKept DEF DroppedOnlyIfCovered
  <2>2. HeldHere' = HeldHere
    BY <1>1 DEF HeldHere
  <2> QED
    BY <1>0, <1>1, <2>1, <2>2 DEF KnowledgeInv
<1>2. ASSUME NEW r \in Runners, NEW label, label # "reply", Goto(r, label), UNCHANGED inflight
      PROVE  \A q \in Runners : pc'[q] = "reply" => inflight'[q] \in Upstream'
  BY <1>0, <1>2 DEF Goto, KnowledgeInv, Inv, TypeOK, PlaceTypes
<1>3. ASSUME NEW r \in Runners, NEW label, Aside(r, label) \/ Begins(r, label)
      PROVE  KnowledgeInv'
  BY <1>1, <1>2, <1>3 DEF Aside, Begins, listVars, recordVars, refreshVars, eventVars
<1>4. ASSUME NEW r \in Runners, InnerLoop(r) \/ StagesSucceed(r) PROVE KnowledgeInv'
  <2>1. PICK label \in {"sleep", "refresh", "take", "initFetch", "beatFetch"} : Goto(r, label)
    BY <1>4 DEF InnerLoop, StagesSucceed
  <2> QED
    BY <1>1, <1>2, <1>4, <2>1
       DEF InnerLoop, StagesSucceed, listVars, recordVars, refreshVars, eventVars
<1>5. ASSUME UNCHANGED <<pc, inflight, scrobbled, recent, oldest, window, dequeued, dead>>
      PROVE  KnowledgeInv'
  BY <1>0, <1>1, <1>5 DEF KnowledgeInv
<1>6. ASSUME (\E p \in Plays : QueueScrobble(p)) \/ Tick PROVE KnowledgeInv'
  BY <1>5, <1>6 DEF QueueScrobble, Tick, listVars, recordVars, refreshVars, eventVars
<1>7. ASSUME NEW r \in Runners, UpstreamAccepts(r) PROVE KnowledgeInv'
  <2>1. Same /\ UNCHANGED inflight /\ Goto(r, "reply")
    BY <1>7 DEF UpstreamAccepts, listVars, recordVars, refreshVars, eventVars
  <2>2. inflight[r] \in Upstream'
    BY <1>7, InFlightIsPlay DEF UpstreamAccepts, Upstream, Inv, TypeOK, WorldTypes
  <2>3. \A q \in Runners : pc'[q] = "reply" => q = r \/ pc[q] = "reply"
    BY <2>1 DEF Goto, Inv, TypeOK, PlaceTypes
  <2> QED
    BY <1>0, <1>1, <2>1, <2>2, <2>3 DEF KnowledgeInv
<1>8. ASSUME NEW r \in Runners, UpstreamAnswers(r) PROVE KnowledgeInv'
  <2>1. /\ UNCHANGED <<scrobbled, recent, oldest, dequeued, dead, pc, inflight>>
        /\ \E S \in SUBSET Upstream : window' = [window EXCEPT ![r] = S]
    BY <1>8 DEF UpstreamAnswers, Latest, listVars, recordVars, refreshVars, eventVars
  <2>2. DroppedOnlyIfCovered'
    BY <2>1, CoverKept DEF DroppedOnlyIfCovered
  <2>3. HeldHere' = HeldHere
    BY <2>1 DEF HeldHere
  <2> QED
    BY <1>0, <2>1, <2>2, <2>3 DEF KnowledgeInv, Inv, TypeOK, TaskTypes
<1>9. ASSUME NEW r \in Runners, Learns(r) PROVE KnowledgeInv'
  <2>1. /\ Refresh(window[r]) /\ window' = [window EXCEPT ![r] = Unanswered]
        /\ UNCHANGED <<dequeued, dead, inflight>>
        /\ \E label \in {"take", "idle", "start"} : Goto(r, label)
    BY <1>9 DEF Learns, RefreshReturns, InitSucceeds, listVars, eventVars
  <2>2. DroppedOnlyIfCovered'
    BY <2>1, CoverKept DEF DroppedOnlyIfCovered
  <2>3. \A q \in Runners : pc'[q] = "reply" => inflight'[q] \in Upstream'
    BY <1>2, <2>1
  <2>4. \A q \in Runners : window'[q] \in {window[q], Unanswered}
    BY <2>1 DEF Inv, TypeOK, TaskTypes
  <2> QED
    BY <1>0, <2>1, <2>2, <2>3, <2>4, RefreshLearns DEF KnowledgeInv
<1>10. ASSUME NEW r \in Runners, GivesUp(r) PROVE KnowledgeInv'
  <2>1. /\ window' = [window EXCEPT ![r] = Unanswered]
        /\ UNCHANGED <<scrobbled, recent, oldest, dequeued, dead, inflight>>
        /\ \E label \in {"throw", "idle"} : Goto(r, label)
    BY <1>10 DEF GivesUp, RefreshFails, InitFails, Interrupted, listVars, recordVars, refreshVars,
                 eventVars
  <2>2. DroppedOnlyIfCovered'
    BY <2>1, CoverKept DEF DroppedOnlyIfCovered
  <2>3. \A q \in Runners : pc'[q] = "reply" => inflight'[q] \in Upstream'
    BY <1>2, <2>1
  <2>4. \A q \in Runners : window'[q] \in {window[q], Unanswered}
    BY <2>1 DEF Inv, TypeOK, TaskTypes
  <2>5. HeldHere' = HeldHere
    BY <2>1 DEF HeldHere
  <2> QED
    BY <1>0, <2>1, <2>2, <2>3, <2>4, <2>5 DEF KnowledgeInv
<1>11. ASSUME NEW r \in Runners, MovesPlay(r) PROVE KnowledgeInv'
  <2>1. /\ UNCHANGED <<recent, oldest, window>> /\ Range(dead) \subseteq Range(dead')
    BY <1>11, DeadLetterAdds
       DEF MovesPlay, Take, ScrobbleSucceeds, DeadLetter, PutBack, refreshVars, listVars
  <2>2. PICK label \in {"inner", "submit", "throw"} :
          /\ Goto(r, label)
          /\ \A q \in Runners : q # r => inflight'[q] = inflight[q]
    BY <1>11 DEF MovesPlay, Take, ScrobbleSucceeds, DeadLetter, PutBack, ScrobbleFails,
                 Interrupted, Inv, TypeOK, TaskTypes
  <2>3. \A q \in Runners : pc'[q] = "reply" => inflight'[q] \in Upstream'
    BY <1>0, <2>2 DEF Goto, KnowledgeInv, Inv, TypeOK, PlaceTypes
  <2>4. HeldHere' \subseteq HeldHere \cup (IF pc[r] = "reply" THEN {inflight[r]} ELSE {})
    BY <1>11 DEF MovesPlay, Take, ScrobbleSucceeds, DeadLetter, PutBack, Record, recordVars,
                 HeldHere
  <2>5. HeldHere' \subseteq Upstream'
    BY <1>0, <2>4 DEF KnowledgeInv
  <2>6. ASSUME NEW p \in dequeued', p \notin dequeued
        PROVE  \/ p \in Range(dead')
               \/ \E q \in Upstream' : Listen[q] = Listen[p] \/ Date[p] <= Date[q]
    <3>1. CASE Take(r)
      <4>1. p = Head(queue) /\ (TooOld(p) \/ AlreadyScrobbled(p))
        BY <2>6, <3>1 DEF Take, ReportDequeued
      <4> QED
        BY <1>0, <4>1 DEF TooOld, AlreadyScrobbled, KnowledgeInv, HeldHere
    <3>2. CASE ScrobbleSucceeds(r)
      BY <1>0, <2>6, <3>2 DEF ScrobbleSucceeds, ReportDequeued, KnowledgeInv
    <3>3. CASE DeadLetter(r)
      BY <2>6, <3>3, DeadLetterAdds DEF DeadLetter, ReportDequeued
    <3>4. CASE PutBack(r)
      BY <2>6, <3>4 DEF PutBack, eventVars
    <3> QED
      BY <1>11, <3>1, <3>2, <3>3, <3>4 DEF MovesPlay
  <2>7. DroppedOnlyIfCovered'
    BY <2>1, <2>6, CoverKept DEF DroppedOnlyIfCovered
  <2> QED
    BY <1>0, <2>1, <2>3, <2>5, <2>7 DEF KnowledgeInv
<1>12. CASE Crash
  BY <1>12 DEF Crash, KnowledgeInv, HeldHere, DroppedOnlyIfCovered
<1> QED
  BY <1>3, <1>4, <1>6, <1>7, <1>8, <1>9, <1>10, <1>11, <1>12, StepsOfNext DEF MovesPlay

-----------------------------------------------------------------------------
\* How recent that knowledge is, when the client refreshes and the interval between two
\* refreshes never holds one back: the head of the queue is either its earliest play, or
\* was submitted before and needs no new check.
CheckedInv ==
  /\ lastCheck <= now
  /\ \A p \in announced : Date[p] <= now
  /\ CheckedSincePlayed
  /\ \A r \in Runners : pc[r] = "take" => Date[queue[1]] <= lastCheck
  /\ queue # <<>> => Sorted(queue) \/ Date[queue[1]] <= lastCheck

LEMMA HeadOfQueue ==
  ASSUME Inv, queue # <<>>
  PROVE  /\ queue \in Seq(Plays) /\ Len(queue) \in Nat \ {0}
         /\ queue[1] = Head(queue) /\ queue[1] \in announced /\ queue[1] \in Plays
         /\ queue[Len(queue)] \in Plays
<1>1. queue \in Seq(Plays) /\ Len(queue) \in Nat \ {0} /\ queue[1] = Head(queue)
  BY HeadTailProperties, LenProperties, EmptySeq DEF Inv, TypeOK, ListTypes
<1>2. DOMAIN queue = 1 .. Len(queue) /\ \A i \in 1 .. Len(queue) : queue[i] \in Plays
  BY <1>1, LenProperties, ElementOfSeq
<1>3. queue[1] \in Range(queue)
  BY <1>1, <1>2 DEF Range
<1> QED
  BY <1>1, <1>2, <1>3 DEF Inv, Conservation, EachPlayOnce

\* Without a refresh, the latest play of the queue is no later than the last one.
LEMMA NoRefreshNeeded ==
  ASSUME Inv, CheckedInv, RefreshEnabled, PromptRefresh, queue # <<>>,
         NEW m \in MinIntervalPassed, NEW s \in Stale, ~ShouldRefresh(m, s)
  PROVE  Date[queue[1]] <= lastCheck
<1>1. m = TRUE
  BY DEF MinIntervalPassed
<1>2. ~(lastCheck < Date[queue[Len(queue)]])
  BY <1>1 DEF ShouldRefresh
<1>3. /\ Date[queue[1]] \in Nat /\ Date[queue[Len(queue)]] \in Nat /\ lastCheck \in Nat
      /\ Len(queue) \in Nat \ {0}
  BY HeadOfQueue, PlaysAssumption DEF Inv, TypeOK, RecordTypes
<1>4. CASE Sorted(queue)
  <2>1. Date[queue[1]] <= Date[queue[Len(queue)]]
    BY <1>3, <1>4 DEF Sorted
  <2> QED
    BY <1>2, <1>3, <2>1
<1>5. CASE ~Sorted(queue)
  BY <1>5 DEF CheckedInv
<1> QED
  BY <1>4, <1>5

LEMMA CheckedInvKept ==
  ASSUME Inv, Inv', OrderInv, OrderInv', CheckedInv, Next, RefreshEnabled, PromptRefresh
  PROVE  CheckedInv'
<1> DEFINE Clock == lastCheck' <= now' /\ now <= now' /\ announced' \subseteq announced
<1>0. /\ lastCheck \in Nat /\ lastCheck' \in Nat /\ now \in Nat /\ now' \in Nat
      /\ \A p \in Plays : Date[p] \in Nat
      /\ announced \subseteq Plays
      /\ \A r \in Runners : inflight[r] # NoPlay => inflight[r] \in Plays
  BY PlaysAssumption DEF Inv, TypeOK, RecordTypes, WorldTypes, TaskTypes
<1>1. ASSUME lastCheck' = lastCheck, now' = now, announced' = announced
      PROVE  Clock /\ lastCheck <= lastCheck'
  BY <1>0, <1>1 DEF CheckedInv
<1>2. ASSUME Clock, lastCheck <= lastCheck', UNCHANGED <<queue, inflight>>,
             \A r \in Runners : pc'[r] = "take" => pc[r] = "take" \/ Date[queue[1]] <= lastCheck'
      PROVE  CheckedInv'
  <2>1. \A p \in announced' : Date[p] <= now'
    BY <1>0, <1>2 DEF CheckedInv
  <2>2. CheckedSincePlayed'
    BY <1>0, <1>2 DEF CheckedInv, CheckedSincePlayed
  <2>3. queue # <<>> => Date[queue[1]] \in Nat
    BY <1>0, HeadOfQueue
  <2>4. \A r \in Runners : pc'[r] = "take" => queue # <<>>
    BY <1>2 DEF Inv, Conservation, PlaysAtHand
  <2>5. \A r \in Runners : pc'[r] = "take" => Date[queue'[1]] <= lastCheck'
    BY <1>0, <1>2, <2>3, <2>4 DEF CheckedInv
  <2>6. queue' # <<>> => Sorted(queue') \/ Date[queue'[1]] <= lastCheck'
    BY <1>0, <1>2, <2>3 DEF CheckedInv
  <2> QED
    BY <1>2, <2>1, <2>2, <2>5, <2>6 DEF CheckedInv
<1>3. ASSUME NEW r \in Runners, NEW label, label # "take", Goto(r, label)
      PROVE  \A q \in Runners : pc'[q] = "take" => pc[q] = "take"
  BY <1>3 DEF Goto, Inv, TypeOK, PlaceTypes
<1>4. ASSUME NEW r \in Runners, NEW label, Aside(r, label) \/ Begins(r, label)
      PROVE  CheckedInv'
  BY <1>1, <1>2, <1>3, <1>4 DEF Aside, Begins, listVars, refreshVars, eventVars, worldVars
<1>5. ASSUME NEW r \in Runners, InnerLoop(r) PROVE CheckedInv'
  <2>1. \/ Goto(r, "sleep") \/ Goto(r, "refresh")
        \/ Goto(r, "take") /\ Date[queue[1]] <= lastCheck
    BY <1>5, NoRefreshNeeded DEF InnerLoop
  <2>2. UNCHANGED <<queue, inflight, lastCheck, now, announced>>
    BY <1>5 DEF InnerLoop, listVars, refreshVars, eventVars, worldVars
  <2> QED
    BY <1>1, <1>2, <1>3, <2>1, <2>2
<1>6. ASSUME NEW r \in Runners, StagesSucceed(r) \/ UpstreamAccepts(r) \/ GivesUp(r)
      PROVE  CheckedInv'
  <2>1. PICK label \in {"initFetch", "beatFetch", "reply", "throw", "idle"} : Goto(r, label)
    BY <1>6 DEF StagesSucceed, UpstreamAccepts, GivesUp, RefreshFails, Interrupted, InitFails
  <2>2. UNCHANGED <<queue, inflight, lastCheck, now, announced>>
    BY <1>6 DEF StagesSucceed, UpstreamAccepts, GivesUp, RefreshFails, InitFails, listVars,
                refreshVars, eventVars, worldVars
  <2> QED
    BY <1>1, <1>2, <1>3, <2>1, <2>2
<1>7. ASSUME NEW r \in Runners, UpstreamAnswers(r) PROVE CheckedInv'
  BY <1>1, <1>2, <1>7 DEF UpstreamAnswers, listVars, refreshVars, eventVars, worldVars
<1>8. ASSUME NEW r \in Runners, Learns(r) PROVE CheckedInv'
  <2>1. /\ lastCheck' = now /\ UNCHANGED <<queue, inflight, now, announced>>
        /\ \E label \in {"take", "idle", "start"} :
             Goto(r, label) /\ (label = "take" => queue # <<>>)
    BY <1>8 DEF Learns, RefreshReturns, InitSucceeds, Refresh, listVars, eventVars, worldVars,
                Inv, Conservation, PlaysAtHand
  <2>2. queue # <<>> => Date[queue[1]] <= lastCheck'
    BY <2>1, HeadOfQueue DEF CheckedInv
  <2>3. Clock /\ lastCheck <= lastCheck'
    BY <1>0, <2>1 DEF CheckedInv
  <2> QED
    BY <1>2, <1>3, <2>1, <2>2, <2>3
<1>9. ASSUME Tick PROVE CheckedInv'
  <2>1. /\ now' = now + 1 /\ UNCHANGED <<queue, inflight, pc, lastCheck, announced>>
    BY <1>9 DEF Tick, listVars, refreshVars, eventVars
  <2>2. Clock /\ lastCheck <= lastCheck'
    BY <1>0, <2>1 DEF CheckedInv
  <2> QED
    BY <1>2, <2>1, <2>2
<1>10. ASSUME NEW p \in Plays, QueueScrobble(p), Yielded PROVE CheckedInv'
  <2>1. /\ announced' = announced \cup {p} /\ Date[p] <= now
        /\ UNCHANGED <<pc, inflight, lastCheck, now>>
    BY <1>10 DEF QueueScrobble, refreshVars, worldVars
  <2>2. \A r \in Runners : pc'[r] # "take"
    BY <1>10, <2>1 DEF Yielded, Running
  <2>3. Sorted(queue')
    BY <1>10, AppendProperties, SortingsSort DEF QueueScrobble, Inv, TypeOK, ListTypes
  <2> QED
    BY <2>1, <2>2, <2>3 DEF CheckedInv, CheckedSincePlayed
<1>11. ASSUME NEW r \in Runners, MovesPlay(r) PROVE CheckedInv'
  <2>1. UNCHANGED <<lastCheck, now, announced>>
    BY <1>11 DEF MovesPlay, Take, ScrobbleSucceeds, DeadLetter, PutBack, refreshVars, eventVars,
                 worldVars
  <2>2. pc[r] \in Processing /\ \E label \in {"inner", "submit", "throw"} : Goto(r, label)
    BY <1>11 DEF MovesPlay, Take, ScrobbleSucceeds, DeadLetter, PutBack, ScrobbleFails,
                 Interrupted, Processing
  <2>3. \A q \in Runners : pc'[q] # "take"
    BY <2>2 DEF Goto, Inv, TypeOK, PlaceTypes, OneProcessor, Processing
  <2>4. CASE Take(r)
    <3>1. queue # <<>> /\ Date[Head(queue)] <= lastCheck
      BY <2>4, HeadOfQueue DEF Take, CheckedInv, Inv, Conservation, PlaysAtHand
    <3>2. \A q \in Runners : inflight'[q] \in {inflight[q], Head(queue)}
      BY <2>4 DEF Take, Inv, TypeOK, TaskTypes
    <3>3. Sorted(queue')
      BY <2>4, <3>1, SortedTail, HeadOfQueue DEF Take, OrderInv, SortedBehindHead
    <3> QED
      BY <2>1, <2>3, <3>1, <3>2, <3>3 DEF CheckedInv, CheckedSincePlayed
  <2>5. CASE PutBack(r)
    <3>1. /\ inflight[r] # NoPlay /\ queue' = <<inflight[r]>> \o queue
          /\ inflight' = [inflight EXCEPT ![r] = NoPlay]
      BY <2>5 DEF PutBack, Unshift, ScrobbleFails, Inv, Conservation, PlaysAtHand
    <3>2. queue'[1] = inflight[r] /\ Date[inflight[r]] <= lastCheck
      BY <3>1, ConcatProperties DEF CheckedInv, CheckedSincePlayed, Inv, TypeOK, ListTypes
    <3>3. \A q \in Runners : inflight'[q] \in {inflight[q], NoPlay}
      BY <3>1 DEF Inv, TypeOK, TaskTypes
    <3> QED
      BY <2>1, <2>3, <3>2, <3>3 DEF CheckedInv, CheckedSincePlayed
  <2>6. CASE ScrobbleSucceeds(r) \/ DeadLetter(r)
    <3>1. UNCHANGED queue /\ inflight' = [inflight EXCEPT ![r] = NoPlay]
      BY <2>6 DEF ScrobbleSucceeds, DeadLetter, ScrobbleFails, listVars
    <3>2. \A q \in Runners : inflight'[q] \in {inflight[q], NoPlay}
      BY <3>1 DEF Inv, TypeOK, TaskTypes
    <3> QED
      BY <2>1, <2>3, <3>1, <3>2 DEF CheckedInv, CheckedSincePlayed
  <2> QED
    BY <1>11, <2>4, <2>5, <2>6 DEF MovesPlay
<1>12. CASE Crash
  BY <1>0, <1>12 DEF Crash, CheckedInv, CheckedSincePlayed
<1> QED
  BY <1>4, <1>5, <1>6, <1>7, <1>8, <1>9, <1>10, <1>11, <1>12, StepsOfNext DEF MovesPlay

-----------------------------------------------------------------------------
LEMMA InitEstablishesOrderAndKnowledge ==
  ASSUME Init
  PROVE  OrderInv /\ KnowledgeInv /\ CheckedInv
BY PlaysAssumption
   DEF Init, OrderInv, SortedBehindHead, Sorted, KnowledgeInv, HeldHere, DroppedOnlyIfCovered,
       CheckedInv, CheckedSincePlayed

LEMMA StutterKeepsOrderAndKnowledge ==
  ASSUME UNCHANGED vars
  PROVE  /\ OrderInv => OrderInv'
         /\ KnowledgeInv => KnowledgeInv'
         /\ CheckedInv => CheckedInv'
<1> USE DEF vars, listVars, recordVars, refreshVars, eventVars, worldVars
<1>1. OrderInv => OrderInv'
  BY DEF OrderInv, SortedBehindHead, Sorted
<1>2. KnowledgeInv => KnowledgeInv'
  BY DEF KnowledgeInv, HeldHere, DroppedOnlyIfCovered, Upstream
<1>3. CheckedInv => CheckedInv'
  BY DEF CheckedInv, CheckedSincePlayed, Sorted
<1> QED
  BY <1>1, <1>2, <1>3

LEMMA OrderInvariance == Spec => []OrderInv
<1>1. Inv /\ Inv' /\ OrderInv /\ [Next]_vars => OrderInv'
  BY OrderInvKept, StutterKeepsOrderAndKnowledge
<1>2. Init => OrderInv
  BY InitEstablishesOrderAndKnowledge
<1> QED
  BY <1>1, <1>2, Invariance, PTL DEF Spec

LEMMA KnowledgeInvariance == Spec => []KnowledgeInv
<1>1. Inv /\ Inv' /\ KnowledgeInv /\ [Next]_vars => KnowledgeInv'
  BY KnowledgeInvKept, StutterKeepsOrderAndKnowledge
<1>2. Init => KnowledgeInv
  BY InitEstablishesOrderAndKnowledge
<1> QED
  BY <1>1, <1>2, Invariance, PTL DEF Spec

\* Behind its head, which may be a play that was put back, the queue is always in the
\* order of the play dates, whatever was queued, put back or taken meanwhile.
THEOREM SortedBehindHeadAlways == Spec => []SortedBehindHead
<1>1. OrderInv => SortedBehindHead
  BY DEF OrderInv
<1> QED
  BY <1>1, OrderInvariance, PTL

\* What left the queue without a scrobble is in the dead letter queue, is a listen that
\* the service holds, or is no newer than a scrobble that it holds, however old the
\* answer was the client compared it with.
THEOREM DroppedOnlyIfCoveredAlways == Spec => []DroppedOnlyIfCovered
<1>1. KnowledgeInv => DroppedOnlyIfCovered
  BY DEF KnowledgeInv
<1> QED
  BY <1>1, KnowledgeInvariance, PTL

\* A client that refreshes, and whose refreshes no interval holds back, submits a play
\* only when it has asked the service since the play's date.
THEOREM CheckedSincePlayedAlways ==
  ASSUME RefreshEnabled, PromptRefresh
  PROVE  Spec => []CheckedSincePlayed
<1>1. Inv /\ Inv' /\ OrderInv /\ OrderInv' /\ CheckedInv /\ [Next]_vars => CheckedInv'
  BY CheckedInvKept, StutterKeepsOrderAndKnowledge
<1>2. Init => CheckedInv
  BY InitEstablishesOrderAndKnowledge
<1>3. CheckedInv => CheckedSincePlayed
  BY DEF CheckedInv
<1> QED
  BY <1>1, <1>2, <1>3, OrderInvariance, Invariance, PTL DEF Spec

-----------------------------------------------------------------------------
(* The refinement of ScrobbleDelivery.  It holds of a client that refreshes  *)
(* and gets every reply, for a service that holds something already, as long *)
(* as the client's lists have room for what is new and reports of one listen *)
(* lie together.                                                             *)

\* The setting.  Reports of one listen lie together: no other listen has a date
\* between theirs.
Apart ==
  \A p, q, z \in Plays :
    Listen[p] = Listen[q] /\ Date[q] <= Date[z] /\ Date[z] < Date[p] => Listen[z] = Listen[p]

\* The listens the service does not hold at first, and room for them in the client's
\* lists: beside a fetch of postInitialize, or beside all the service holds at first.
Listens(S) == {Listen[p] : p \in S}
Fresh == Listens(Plays) \ Listens(History)
Room ==
  \/ Cardinality(Fresh) + InitialFetch <= MaxStored
  \/ Cardinality(Fresh) + Cardinality(History) <= MaxStored

Setting ==
  /\ RefreshEnabled /\ ~LostReplies
  /\ IsFiniteSet(Plays) /\ History # {}
  /\ Apart /\ Room

-----------------------------------------------------------------------------
\* At most one coroutine initializes the client.
Initialising == {"init", "initFetch", "beat", "beatFetch"}
OneInitialiser ==
  /\ \A r1, r2 \in Runners : {pc[r1], pc[r2]} \subseteq Initialising => r1 = r2
  /\ \A r \in Runners : pc[r] \in Initialising => initializing

\* What the service holds, it holds once; what it did not hold at first, it holds for
\* one report of the listen.
Known(p) == \E q \in Upstream : Listen[q] = Listen[p]
Once ==
  /\ History \subseteq Upstream
  /\ \A p \in Upstream : accepted[p] = 1
  /\ \A p, q \in Upstream : Listen[p] = Listen[q] => p = q \/ {p, q} \subseteq History

\* What the client holds as scrobbled, and the play in flight: on the way to the
\* service it is unknown there, and on the way back it is the service's and not the
\* client's yet.
RecordInv ==
  /\ now > 0
  /\ \A s, t \in scrobbled : s.play = t.play => s = t
  /\ HeldHere \cap History = {}
  /\ oldest # 0 => \E z \in recent : Date[z] = oldest
  /\ \A r \in Runners :
       /\ pc[r] = "take" => lastCheck # 0
       /\ pc[r] = "submit" => ~Known(inflight[r])
       /\ pc[r] = "reply" => inflight[r] \notin HeldHere \cup History

\* Whatever the service holds is known here, about to be, or out of the time frame;
\* and it will be so when an answer under way is applied.
Awaited(q) == \E r \in Runners : pc[r] = "reply" /\ inflight[r] = q
KnownHere ==
  lastCheck # 0 =>
    \A q \in Upstream :
      q \in HeldHere \cup recent \/ Awaited(q) \/ (oldest # 0 /\ Date[q] <= oldest)
AnswersComplete ==
  \A r \in Runners : window[r] # Unanswered =>
    /\ pc[r] \in Fetching /\ window[r] # {}
    /\ pc[r] = "refresh" => window[r] \in Latest(MaxStored)
    /\ pc[r] # "refresh" =>
         /\ Cardinality(window[r]) <= InitialFetch
         /\ \A q \in Upstream \ window[r] :
              q \in HeldHere \/ Awaited(q) \/ \A p \in window[r] : Date[q] <= Date[p]


-----------------------------------------------------------------------------
\* Numbers.
LEMMA FreshIsFinite ==
  ASSUME IsFiniteSet(Plays)
  PROVE  IsFiniteSet(Fresh) /\ Cardinality(Fresh) \in Nat
<1> DEFINE f == [p \in Plays |-> Listen[p]]
<1>1. f \in Surjection(Plays, Listens(Plays))
  BY DEF Listens, Surjection
<1>2. IsFiniteSet(Listens(Plays))
  BY <1>1, FS_Surjection
<1>3. Fresh \in SUBSET Listens(Plays)
  BY DEF Fresh
<1> QED
  BY <1>2, <1>3, FS_Subset, FS_CardinalityType

\* What the service did not hold at first are no more plays than fresh listens.
LEMMA NewAreFew ==
  ASSUME Once, IsFiniteSet(Plays)
  PROVE  /\ IsFiniteSet(Upstream \ History)
         /\ Cardinality(Upstream \ History) <= Cardinality(Fresh)
         /\ Cardinality(Upstream \ History) \in Nat
<1> DEFINE N == Upstream \ History
           f == [p \in N |-> Listen[p]]
<1>1. N \subseteq Plays
  BY DEF Upstream
<1>2. \A p \in N : Listen[p] \in Fresh
  BY <1>1 DEF Fresh, Listens, Once
<1>3. \A p, q \in N : Listen[p] = Listen[q] => p = q
  BY DEF Once
<1>4. f \in Injection(N, Fresh)
  BY <1>2, <1>3 DEF Injection, IsInjective
<1> HIDE DEF f
<1> QED
  BY <1>4, FreshIsFinite, FS_Injection, FS_CardinalityType

\* While a reply is awaited the list of scrobbled plays is not full.
LEMMA RecordHasRoom ==
  ASSUME Inv, KnowledgeInv, Once, RecordInv, Setting, NEW r \in Runners, pc[r] = "reply"
  PROVE  Cardinality(scrobbled) < MaxStored
<1> DEFINE N == Upstream \ History
           p == inflight[r]
           f == [s \in scrobbled |-> s.play]
<1>1. p \in N /\ p \notin HeldHere
  BY DEF KnowledgeInv, RecordInv
<1>2. \A s \in scrobbled : s.play \in N \ {p}
  BY <1>1 DEF HeldHere, KnowledgeInv, RecordInv
<1>3. f \in Injection(scrobbled, N \ {p})
  BY <1>2 DEF Injection, IsInjective, RecordInv
<1>4. IsFiniteSet(N) /\ Cardinality(N) <= Cardinality(Fresh) /\ Cardinality(N) \in Nat
      /\ Cardinality(Fresh) \in Nat
  BY NewAreFew, FreshIsFinite DEF Setting
<1>5. IsFiniteSet(N \ {p}) /\ Cardinality(N \ {p}) = Cardinality(N) - 1
  BY <1>1, <1>4, FS_RemoveElement
<1> HIDE DEF f, N
<1>6. IsFiniteSet(scrobbled) /\ Cardinality(scrobbled) <= Cardinality(N) - 1
  BY <1>3, <1>5, FS_Injection
<1>7. Cardinality(Fresh) <= MaxStored
  <2>1. IsFiniteSet(History)
    BY PlaysAssumption, FS_Subset DEF Setting
  <2>2. Cardinality(History) \in Nat
    BY <2>1, FS_CardinalityType
  <2> QED
    BY <1>4, <2>2, LimitsAssumption DEF Setting, Room
<1>8. Cardinality(scrobbled) \in Nat
  BY <1>6, FS_CardinalityType
<1> QED
  BY <1>4, <1>6, <1>7, <1>8, LimitsAssumption

\* No answer of the service is empty.
LEMMA AnswersAreNotEmpty ==
  ASSUME Once, Setting, NEW limit \in Nat \ {0}, NEW S \in Latest(limit)
  PROVE  S # {} /\ IsFiniteSet(S) /\ Cardinality(S) <= limit /\ Cardinality(S) \in Nat
<1>1. Upstream \in SUBSET Plays /\ Upstream # {}
  BY DEF Upstream, Once, Setting
<1>2. IsFiniteSet(Upstream) /\ Cardinality(Upstream) \in Nat /\ Cardinality(Upstream) # 0
  BY <1>1, FS_Subset, FS_CardinalityType, FS_EmptySet DEF Setting
<1>3. S \in SUBSET Upstream
      /\ Cardinality(S) = IF Cardinality(Upstream) < limit THEN Cardinality(Upstream) ELSE limit
  BY DEF Latest
<1>4. IsFiniteSet(S) /\ Cardinality(S) <= limit /\ Cardinality(S) # 0
  BY <1>2, <1>3, FS_Subset
<1> QED
  BY <1>4, FS_EmptySet, FS_CardinalityType

\* Only the loop's refresh and what it scrobbled came after an answer that is still to
\* be applied by an initialisation: no play older than all of the refresh is missing
\* among the older ones of that answer.
LEMMA LateAnswerIsOlder ==
  ASSUME Inv, KnowledgeInv, Once, RecordInv, AnswersComplete, Setting,
         NEW r1 \in Runners, pc[r1] = "refresh", window[r1] # Unanswered,
         NEW r2 \in Runners, pc[r2] # "refresh", window[r2] # Unanswered,
         NEW q \in Upstream, \A x \in window[r1] : Date[q] <= Date[x],
         NEW s \in window[r2]
  PROVE  Date[q] <= Date[s]
<1> DEFINE A == window[r1]
           B == window[r2]
           N == Upstream \ History
<1>0. /\ Upstream \in SUBSET Plays /\ q \in Plays /\ A \in SUBSET Upstream /\ B \in SUBSET Upstream
      /\ s \in Upstream /\ \A p \in Plays : Date[p] \in Nat
  BY PlaysAssumption DEF Upstream, KnowledgeInv
<1>1. SUFFICES ASSUME Date[s] < Date[q]
               PROVE  FALSE
  BY <1>0
<1>2. A \subseteq (B \ {s}) \cup N
  <2> SUFFICES ASSUME NEW x \in A, x \notin N
               PROVE  x \in B \ {s}
    OBVIOUS
  <2>1. Date[s] < Date[x] /\ x # s /\ x \in Upstream
    BY <1>0, <1>1
  <2>2. \A r \in Runners : pc[r] # "reply"
    BY DEF Inv, OneProcessor, Processing
  <2>3. x \notin HeldHere /\ ~Awaited(x)
    BY <2>1, <2>2 DEF RecordInv, Awaited
  <2>4. ~(Date[x] <= Date[s])
    BY <1>0, <2>1
  <2> QED
    BY <2>1, <2>3, <2>4 DEF AnswersComplete
<1>3. /\ IsFiniteSet(Upstream) /\ IsFiniteSet(A) /\ IsFiniteSet(B)
      /\ Cardinality(Upstream) \in Nat /\ Cardinality(A) \in Nat /\ Cardinality(B) \in Nat
  BY <1>0, FS_Subset, FS_CardinalityType DEF Setting
<1>4. /\ IsFiniteSet(N) /\ Cardinality(N) \in Nat /\ Cardinality(Fresh) \in Nat
      /\ Cardinality(N) <= Cardinality(Fresh)
  BY NewAreFew, FreshIsFinite DEF Setting
<1>5. /\ Cardinality(B) <= InitialFetch
      /\ Cardinality(A) = IF Cardinality(Upstream) < MaxStored THEN Cardinality(Upstream)
                          ELSE MaxStored
  BY DEF AnswersComplete, Latest
<1>6. Cardinality(A) = Cardinality(Upstream)
  <2>1. CASE Cardinality(Fresh) + InitialFetch <= MaxStored
    <3>1. IsFiniteSet(B \ {s}) /\ Cardinality(B \ {s}) = Cardinality(B) - 1
      BY <1>3, FS_RemoveElement
    <3>2. /\ IsFiniteSet((B \ {s}) \cup N)
          /\ Cardinality((B \ {s}) \cup N)
               = Cardinality(B \ {s}) + Cardinality(N) - Cardinality((B \ {s}) \cap N)
      BY <1>4, <3>1, FS_Union
    <3>3. Cardinality((B \ {s}) \cap N) \in Nat
      BY <3>1, FS_Intersection, FS_CardinalityType
    <3>4. Cardinality(A) <= Cardinality((B \ {s}) \cup N)
      BY <1>2, <3>2, FS_Subset
    <3> HIDE DEF A, B, N
    <3>5. Cardinality(A) < MaxStored
      BY <1>3, <1>4, <1>5, <2>1, <3>1, <3>2, <3>3, <3>4, LimitsAssumption
    <3> QED
      BY <1>3, <1>5, <3>5, LimitsAssumption
  <2>2. CASE Cardinality(Fresh) + Cardinality(History) <= MaxStored
    <3>1. IsFiniteSet(History) /\ Cardinality(History) \in Nat
      BY PlaysAssumption, FS_Subset, FS_CardinalityType DEF Setting
    <3>2. /\ IsFiniteSet(N \cup History)
          /\ Cardinality(N \cup History)
               = Cardinality(N) + Cardinality(History) - Cardinality(N \cap History)
      BY <1>4, <3>1, FS_Union
    <3>3. Cardinality(N \cap History) \in Nat
      BY <1>4, FS_Intersection, FS_CardinalityType
    <3>4. Upstream \subseteq N \cup History
      OBVIOUS
    <3>5. Cardinality(Upstream) <= Cardinality(N \cup History)
      BY <3>2, <3>4, FS_Subset
    <3> HIDE DEF A, B, N
    <3> QED
      BY <1>3, <1>4, <1>5, <2>2, <3>1, <3>2, <3>3, <3>5, LimitsAssumption
  <2> QED
    BY <2>1, <2>2 DEF Setting, Room
<1>7. A = Upstream
  BY <1>0, <1>3, <1>6, FS_Subset
<1> QED
  BY <1>0, <1>1, <1>7

-----------------------------------------------------------------------------
\* Each part of the invariant is kept.
LEMMA OneInitialiserKept ==
  ASSUME Inv, OneInitialiser, Next
  PROVE  OneInitialiser'
<1>0. ASSUME NEW r \in Runners, NEW label, Goto(r, label)
      PROVE  \A q \in Runners : pc'[q] = IF q = r THEN label ELSE pc[q]
  BY <1>0 DEF Goto, Inv, TypeOK, PlaceTypes
<1>1. ASSUME NEW r \in Runners, NEW label, Goto(r, label), UNCHANGED initializing,
             label \in Initialising => pc[r] \in Initialising
      PROVE  OneInitialiser'
  BY <1>0, <1>1 DEF OneInitialiser
<1>2. ASSUME NEW r \in Runners, NEW label, Goto(r, label), pc[r] \in Initialising,
             label \notin Initialising
      PROVE  OneInitialiser'
  BY <1>0, <1>2 DEF OneInitialiser
<1>3. ASSUME NEW r \in Runners, NEW label, Aside(r, label) PROVE OneInitialiser'
  BY <1>1, <1>3 DEF Aside, readyVars, Initialising
<1>4. ASSUME NEW r \in Runners, NEW label, Begins(r, label) PROVE OneInitialiser'
  BY <1>0, <1>4 DEF Begins, OneInitialiser
<1>5. ASSUME NEW r \in Runners, InnerLoop(r) \/ MovesPlay(r) \/ UpstreamAccepts(r)
      PROVE  OneInitialiser'
  <2>1. UNCHANGED initializing
    BY <1>5 DEF InnerLoop, MovesPlay, Take, ScrobbleSucceeds, DeadLetter, PutBack,
                UpstreamAccepts, readyVars
  <2>2. PICK label \in {"sleep", "refresh", "take", "inner", "submit", "throw", "reply"} :
          Goto(r, label)
    BY <1>5 DEF InnerLoop, MovesPlay, Take, ScrobbleSucceeds, DeadLetter, PutBack, Interrupted,
                UpstreamAccepts
  <2> QED
    BY <1>1, <2>1, <2>2 DEF Initialising
<1>6. ASSUME NEW r \in Runners, StagesSucceed(r) PROVE OneInitialiser'
  BY <1>1, <1>6 DEF StagesSucceed, Initialising
<1>7. ASSUME NEW r \in Runners, Learns(r) PROVE OneInitialiser'
  <2>1. CASE RefreshReturns(r)
    BY <1>1, <2>1 DEF RefreshReturns, readyVars, Initialising
  <2>2. CASE InitSucceeds(r)
    <3>1. pc[r] \in Initialising /\ (Goto(r, "idle") \/ Goto(r, "start"))
      BY <2>2 DEF InitSucceeds, Initialising
    <3> QED
      BY <1>2, <3>1 DEF Initialising
  <2> QED
    BY <1>7, <2>1, <2>2 DEF Learns
<1>8. ASSUME NEW r \in Runners, GivesUp(r) PROVE OneInitialiser'
  <2>1. CASE RefreshFails(r)
    BY <1>1, <2>1 DEF RefreshFails, Interrupted, readyVars, Initialising
  <2>2. CASE InitFails(r)
    BY <1>2, <2>2 DEF InitFails, Initialising
  <2> QED
    BY <1>8, <2>1, <2>2 DEF GivesUp
<1>9. ASSUME UNCHANGED <<pc, initializing>> PROVE OneInitialiser'
  BY <1>9 DEF OneInitialiser
<1>10. ASSUME \/ \E p \in Plays : QueueScrobble(p)
              \/ \E r \in Runners : UpstreamAnswers(r)
              \/ Tick
       PROVE  OneInitialiser'
  BY <1>9, <1>10 DEF QueueScrobble, UpstreamAnswers, Tick, readyVars
<1>11. CASE Crash
  BY <1>11 DEF Crash, OneInitialiser, Initialising
<1> QED
  BY <1>3, <1>4, <1>5, <1>6, <1>7, <1>8, <1>10, <1>11, StepsOfNext DEF MovesPlay

\* Only an answer to a submission changes what the service holds, and what it takes
\* then is new to it.
LEMMA OnceKept ==
  ASSUME Inv, Once, RecordInv, Next
  PROVE  Once'
<1>1. ASSUME NEW r \in Runners, UpstreamAccepts(r) PROVE Once'
  <2> DEFINE p == inflight[r]
  <2>1. p \in Plays /\ ~Known(p) /\ p \notin Upstream
    BY <1>1, InFlightIsPlay DEF UpstreamAccepts, RecordInv, Known
  <2>2. accepted[p] = 0
    BY <2>1 DEF Upstream, Inv, TypeOK, WorldTypes
  <2>3. \A q \in Plays : accepted'[q] = IF q = p THEN 1 ELSE accepted[q]
    BY <1>1, <2>1, <2>2 DEF UpstreamAccepts, Inv, TypeOK, WorldTypes
  <2>4. Upstream' = Upstream \cup {p}
    BY <2>1, <2>3 DEF Upstream
  <2>5. \A q \in Upstream' : accepted'[q] = 1
    BY <2>1, <2>3, <2>4 DEF Once, Upstream
  <2> HIDE DEF p
  <2> QED
    BY <2>1, <2>4, <2>5 DEF Once, Known
<1>2. ASSUME ~(\E r \in Runners : UpstreamAccepts(r)) PROVE Once'
  BY <1>2, UpstreamGrows DEF Once, Upstream
<1> QED
  BY <1>1, <1>2

\* What is known, in flight and upstream, but for the answers under way.
LEMMA UnlearnedKeeps ==
  ASSUME Inv, RecordInv, KnownHere, AnswersComplete, now' \in {now, now + 1},
         UNCHANGED <<scrobbled, recent, oldest, lastCheck, accepted, inflight>>,
         \A q \in Runners : {pc[q], pc'[q]} \cap {"submit", "reply"} = {} \/ pc'[q] = pc[q],
         \A q \in Runners : pc'[q] = "take" => pc[q] = "take" \/ lastCheck # 0,
         \A q \in Runners : window'[q] # Unanswered => window'[q] = window[q] /\ pc'[q] = pc[q]
  PROVE  RecordInv' /\ KnownHere' /\ AnswersComplete'
<1>1. Upstream' = Upstream /\ HeldHere' = HeldHere /\ Latest(MaxStored)' = Latest(MaxStored)
  BY DEF Upstream, HeldHere, Latest
<1>2. \A q \in Plays : Awaited(q)' = Awaited(q)
  BY DEF Awaited
<1>3. RecordInv'
  <2>1. now' > 0
    BY DEF RecordInv, Inv, TypeOK, WorldTypes
  <2>2. \A q \in Runners : /\ pc'[q] = "submit" => pc[q] = "submit"
                           /\ pc'[q] = "reply" => pc[q] = "reply"
    OBVIOUS
  <2> QED
    BY <1>1, <2>1, <2>2 DEF RecordInv, Known
<1>4. KnownHere'
  BY <1>1, <1>2 DEF KnownHere, Upstream
<1>5. AnswersComplete'
  BY <1>1, <1>2 DEF AnswersComplete, Upstream
<1> QED
  BY <1>3, <1>4, <1>5

LEMMA DetourKeeps ==
  ASSUME Inv, RecordInv, KnownHere, AnswersComplete, NEW r \in Runners, NEW label, Goto(r, label),
         label \notin {"submit", "reply"}, label = "take" => lastCheck # 0,
         pc[r] \notin {"submit", "reply"},
         UNCHANGED <<scrobbled, recent, oldest, lastCheck, accepted, inflight, now>>,
         \/ window' = window /\ pc[r] \notin Fetching
         \/ window' = [window EXCEPT ![r] = Unanswered]
  PROVE  RecordInv' /\ KnownHere' /\ AnswersComplete'
<1>1. \A q \in Runners : pc'[q] = IF q = r THEN label ELSE pc[q]
  BY DEF Goto, Inv, TypeOK, PlaceTypes
<1>2. \A q \in Runners : window'[q] # Unanswered => window'[q] = window[q] /\ q # r
  BY DEF Inv, TypeOK, TaskTypes, AnswersComplete
<1> QED
  BY <1>1, <1>2, UnlearnedKeeps

\* An answer of the service is complete when it is given.
LEMMA UpstreamAnswersKeeps ==
  ASSUME Inv, Once, RecordInv, KnownHere, AnswersComplete, Setting,
         NEW r \in Runners, UpstreamAnswers(r)
  PROVE  RecordInv' /\ KnownHere' /\ AnswersComplete'
<1>1. /\ UNCHANGED <<scrobbled, recent, oldest, lastCheck, accepted, inflight, now, pc>>
      /\ pc[r] \in Fetching
  BY DEF UpstreamAnswers, recordVars, refreshVars, worldVars
<1> DEFINE limit == IF pc[r] = "refresh" THEN MaxStored ELSE InitialFetch
<1>2. PICK S \in Latest(limit) : window' = [window EXCEPT ![r] = S]
  BY DEF UpstreamAnswers
<1>3. limit \in Nat \ {0}
  BY LimitsAssumption
<1>4. /\ S # {} /\ Cardinality(S) <= limit
      /\ \A q \in Upstream \ S, p \in S : Date[q] <= Date[p]
  BY <1>3, AnswersAreNotEmpty DEF Latest
<1>5. \A q \in Runners : window'[q] = IF q = r THEN S ELSE window[q]
  BY <1>2 DEF Inv, TypeOK, TaskTypes
<1>6. Upstream' = Upstream /\ HeldHere' = HeldHere /\ Latest(MaxStored)' = Latest(MaxStored)
  BY <1>1 DEF Upstream, HeldHere, Latest
<1>7. \A q \in Plays : Awaited(q)' = Awaited(q)
  BY <1>1 DEF Awaited
<1>8. RecordInv' /\ KnownHere'
  BY <1>1, <1>6, <1>7 DEF RecordInv, Known, KnownHere, Upstream
<1>9. AnswersComplete'
  <2> SUFFICES ASSUME NEW q \in Runners, window'[q] # Unanswered
               PROVE  /\ pc[q] \in Fetching /\ window'[q] # {}
                      /\ pc[q] = "refresh" => window'[q] \in Latest(MaxStored)
                      /\ pc[q] # "refresh" =>
                           /\ Cardinality(window'[q]) <= InitialFetch
                           /\ \A p \in Upstream \ window'[q] :
                                \/ p \in HeldHere \/ Awaited(p)
                                \/ \A z \in window'[q] : Date[p] <= Date[z]
    BY <1>1, <1>6, <1>7 DEF AnswersComplete, Upstream
  <2>1. CASE q # r
    BY <1>5, <2>1 DEF AnswersComplete
  <2>2. CASE q = r
    BY <1>1, <1>2, <1>4, <1>5, <2>2
  <2> QED
    BY <2>1, <2>2
<1> QED
  BY <1>8, <1>9

\* An answer the service gives to a submission.
LEMMA UpstreamAcceptsKeeps ==
  ASSUME Inv, KnowledgeInv, Once, RecordInv, KnownHere, AnswersComplete,
         NEW r \in Runners, UpstreamAccepts(r)
  PROVE  RecordInv' /\ KnownHere' /\ AnswersComplete'
<1> DEFINE p == inflight[r]
<1>1. /\ UNCHANGED <<scrobbled, recent, oldest, lastCheck, inflight, now, window>>
      /\ Goto(r, "reply") /\ pc[r] = "submit"
  BY DEF UpstreamAccepts, recordVars, refreshVars, worldVars
<1>2. \A q \in Runners : pc'[q] = IF q = r THEN "reply" ELSE pc[q]
  BY <1>1 DEF Goto, Inv, TypeOK, PlaceTypes
<1>3. \A q \in Runners : q # r => pc[q] \notin Processing
  BY <1>1 DEF Inv, OneProcessor, Processing
<1>4. p \in Plays /\ p \notin Upstream
  BY <1>1, InFlightIsPlay DEF RecordInv, Known
<1>5. Upstream' = Upstream \cup {p}
  BY <1>4 DEF UpstreamAccepts, Upstream, Inv, TypeOK, WorldTypes
<1>6. HeldHere' = HeldHere
  BY <1>1 DEF HeldHere
<1>7. \A q \in Plays : Awaited(q) => Awaited(q)'
  BY <1>1, <1>2 DEF Awaited
<1>8. Awaited(p)'
  BY <1>1, <1>2 DEF Awaited
<1>9. RecordInv'
  <2>1. p \notin HeldHere \cup History
    BY <1>4 DEF KnowledgeInv, Once
  <2>2. \A q \in Runners : /\ pc'[q] \notin {"submit", "take"}
                           /\ pc'[q] = "reply" => q = r
    BY <1>2, <1>3 DEF Processing
  <2> QED
    BY <1>1, <1>6, <2>1, <2>2 DEF RecordInv
<1>10. KnownHere'
  BY <1>1, <1>5, <1>6, <1>7, <1>8 DEF KnownHere, Upstream
<1>11. AnswersComplete'
  <2>1. \A q \in Runners : window'[q] # Unanswered => pc'[q] = pc[q] /\ pc[q] # "refresh"
    BY <1>1, <1>2, <1>3 DEF AnswersComplete, Fetching, Processing
  <2> QED
    BY <1>1, <1>5, <1>6, <1>7, <1>8, <2>1 DEF AnswersComplete, Upstream
<1> QED
  BY <1>9, <1>10, <1>11

\* A play that is neither out of the time frame nor known here is not known upstream.
LEMMA SubmittedIsUnknown ==
  ASSUME Inv, KnowledgeInv, RecordInv, KnownHere, Setting, NEW r \in Runners, pc[r] = "take",
         NEW p \in Plays, ~TooOld(p), ~AlreadyScrobbled(p)
  PROVE  ~Known(p)
<1> SUFFICES ASSUME NEW q \in Upstream, Listen[q] = Listen[p]
             PROVE  FALSE
  BY DEF Known
<1>1. \A r1 \in Runners : pc[r1] # "reply"
  BY DEF Inv, OneProcessor, Processing
<1>2. ~Awaited(q)
  BY <1>1 DEF Awaited
<1>3. q \notin HeldHere \cup recent
  BY DEF AlreadyScrobbled, HeldHere
<1>4. oldest # 0 /\ Date[q] <= oldest
  BY <1>2, <1>3 DEF RecordInv, KnownHere
<1>5. PICK z \in recent : Date[z] = oldest
  BY <1>4 DEF RecordInv
<1>6. q \in Plays /\ z \in Plays /\ Date[p] \in Nat /\ Date[z] \in Nat
  BY PlaysAssumption DEF Upstream, Inv, TypeOK, RecordTypes
<1>7. Date[z] < Date[p]
  BY <1>4, <1>5, <1>6 DEF TooOld
<1>8. Listen[z] = Listen[p]
  BY <1>4, <1>5, <1>6, <1>7 DEF Setting, Apart
<1> QED
  BY <1>8 DEF AlreadyScrobbled

LEMMA TakeKeepsKnowledge ==
  ASSUME Inv, KnowledgeInv, RecordInv, KnownHere, AnswersComplete, Setting,
         NEW r \in Runners, Take(r)
  PROVE  RecordInv' /\ KnownHere' /\ AnswersComplete'
<1> DEFINE p == Head(queue)
<1>1. /\ UNCHANGED <<scrobbled, recent, oldest, lastCheck, accepted, window, now>>
      /\ pc[r] = "take"
  BY DEF Take, recordVars, refreshVars, worldVars
<1>2. CASE TooOld(p) \/ AlreadyScrobbled(p)
  BY <1>1, <1>2, DetourKeeps DEF Take, Fetching
<1>3. CASE ~(TooOld(p) \/ AlreadyScrobbled(p))
  <2>1. p \in Plays
    BY <1>1, HeadOfQueue DEF Inv, Conservation, PlaysAtHand
  <2>2. ~Known(p)
    BY <1>1, <1>3, <2>1, SubmittedIsUnknown
  <2>3. \A q \in Runners : /\ inflight'[q] = IF q = r THEN p ELSE inflight[q]
                           /\ pc'[q] = IF q = r THEN "submit" ELSE pc[q]
    BY <1>3 DEF Take, Goto, Inv, TypeOK, TaskTypes, PlaceTypes
  <2> HIDE DEF p
  <2>4. Upstream' = Upstream /\ HeldHere' = HeldHere /\ Latest(MaxStored)' = Latest(MaxStored)
    BY <1>1 DEF Upstream, HeldHere, Latest
  <2>5. \A q \in Plays : Awaited(q)' = Awaited(q)
    BY <1>1, <2>3 DEF Awaited
  <2>6. RecordInv'
    BY <1>1, <2>2, <2>3, <2>4 DEF RecordInv, Known
  <2>7. KnownHere'
    BY <1>1, <2>4, <2>5 DEF KnownHere, Upstream
  <2>8. \A q \in Runners : window[q] # Unanswered => q # r
    BY <1>1 DEF AnswersComplete, Fetching
  <2>9. AnswersComplete'
    BY <1>1, <2>3, <2>4, <2>5, <2>8 DEF AnswersComplete, Upstream
  <2> QED
    BY <2>6, <2>7, <2>9
<1> QED
  BY <1>2, <1>3

\* A play the service did not accept leaves the record as it is.
LEMMA RefusedKeeps ==
  ASSUME Inv, RecordInv, KnownHere, AnswersComplete, Setting,
         NEW r \in Runners, DeadLetter(r) \/ PutBack(r)
  PROVE  RecordInv' /\ KnownHere' /\ AnswersComplete'
<1>1. /\ UNCHANGED <<scrobbled, recent, oldest, lastCheck, accepted, window, now>>
      /\ pc[r] = "submit"
      /\ inflight' = [inflight EXCEPT ![r] = NoPlay]
  BY DEF DeadLetter, PutBack, ScrobbleFails, recordVars, refreshVars, worldVars, Setting
<1>2. PICK label \in {"inner", "throw"} : Goto(r, label)
  BY DEF DeadLetter, PutBack, Interrupted
<1>3. \A q \in Runners : /\ q # r => inflight'[q] = inflight[q]
                         /\ pc'[q] = IF q = r THEN label ELSE pc[q]
  BY <1>1, <1>2 DEF Goto, Inv, TypeOK, TaskTypes, PlaceTypes
<1>4. Upstream' = Upstream /\ HeldHere' = HeldHere /\ Latest(MaxStored)' = Latest(MaxStored)
  BY <1>1 DEF Upstream, HeldHere, Latest
<1>5. \A q \in Plays : Awaited(q)' = Awaited(q)
  BY <1>1, <1>3 DEF Awaited
<1>6. RecordInv'
  BY <1>1, <1>3, <1>4 DEF RecordInv, Known
<1>7. KnownHere'
  BY <1>1, <1>4, <1>5 DEF KnownHere, Upstream
<1>8. \A q \in Runners : window[q] # Unanswered => q # r
  BY <1>1 DEF AnswersComplete, Fetching
<1>9. AnswersComplete'
  BY <1>1, <1>3, <1>4, <1>5, <1>8 DEF AnswersComplete, Upstream
<1> QED
  BY <1>6, <1>7, <1>9

\* A play that was accepted is recorded, and no other one has to leave the record.
LEMMA ScrobbleSucceedsKeeps ==
  ASSUME Inv, KnowledgeInv, Once, RecordInv, KnownHere, AnswersComplete, Setting,
         NEW r \in Runners, ScrobbleSucceeds(r)
  PROVE  RecordInv' /\ KnownHere' /\ AnswersComplete'
<1> DEFINE p == inflight[r]
<1>1. /\ UNCHANGED <<recent, oldest, lastCheck, accepted, window, now>>
      /\ pc[r] = "reply" /\ Goto(r, "inner") /\ Record(p)
      /\ inflight' = [inflight EXCEPT ![r] = NoPlay]
  BY DEF ScrobbleSucceeds, refreshVars, worldVars
<1>2. scrobbled' = scrobbled \cup {[nth |-> tracksScrobbled, play |-> p]}
  <2>1. Cardinality(scrobbled) < MaxStored
    BY <1>1, RecordHasRoom
  <2> QED
    BY <1>1, <2>1 DEF Record
<1>3. HeldHere' = HeldHere \cup {p}
  <2> DEFINE s == [nth |-> tracksScrobbled, play |-> p]
  <2>1. scrobbled' = scrobbled \cup {s} /\ s.play = p
    BY <1>2
  <2> HIDE DEF s
  <2> QED
    BY <2>1 DEF HeldHere
<1>4. p \notin HeldHere /\ p \notin History
  BY <1>1 DEF RecordInv
<1>5. \A q \in Runners : /\ q # r => inflight'[q] = inflight[q]
                         /\ pc'[q] = IF q = r THEN "inner" ELSE pc[q]
  BY <1>1 DEF Goto, Inv, TypeOK, TaskTypes, PlaceTypes
<1>6. \A q \in Runners : q # r => pc[q] \notin Processing
  BY <1>1 DEF Inv, OneProcessor, Processing
<1>7. Upstream' = Upstream /\ Latest(MaxStored)' = Latest(MaxStored)
  BY <1>1 DEF Upstream, Latest
<1>8. \A q \in Plays : Awaited(q) => q = p \/ Awaited(q)'
  BY <1>5 DEF Awaited
<1>9. RecordInv'
  <2>1. \A s, t \in scrobbled' : s.play = t.play => s = t
    BY <1>2, <1>4 DEF RecordInv, HeldHere
  <2>2. \A q \in Runners : pc'[q] \notin {"take", "submit", "reply"}
    BY <1>5, <1>6 DEF Processing
  <2> QED
    BY <1>1, <1>3, <1>4, <2>1, <2>2 DEF RecordInv
<1>10. KnownHere'
  BY <1>1, <1>3, <1>7, <1>8 DEF KnownHere, Upstream
<1>11. \A q \in Runners : window[q] # Unanswered => q # r
  BY <1>1 DEF AnswersComplete, Fetching
<1>12. AnswersComplete'
  BY <1>1, <1>3, <1>5, <1>7, <1>8, <1>11 DEF AnswersComplete, Upstream
<1> QED
  BY <1>9, <1>10, <1>12

\* The refresh of the loop.  Nothing is on the way to or from the service meanwhile.
LEMMA RefreshReturnsKeeps ==
  ASSUME Inv, KnowledgeInv, Once, RecordInv, KnownHere, AnswersComplete, Setting,
         NEW r \in Runners, RefreshReturns(r)
  PROVE  RecordInv' /\ KnownHere' /\ AnswersComplete'
<1> DEFINE A == window[r]
<1>1. /\ UNCHANGED <<accepted, inflight, now>> /\ pc[r] = "refresh" /\ Goto(r, "take")
      /\ window' = [window EXCEPT ![r] = Unanswered]
      /\ lastCheck' = now /\ A # Unanswered /\ recent' = A
  BY DEF RefreshReturns, Refresh, Setting, worldVars
<1>2. \A q \in Runners : q # r => pc[q] \notin Processing
  BY <1>1 DEF Inv, OneProcessor, Processing
<1>3. \A q \in Runners : /\ pc'[q] = IF q = r THEN "take" ELSE pc[q]
                         /\ window'[q] = IF q = r THEN Unanswered ELSE window[q]
  BY <1>1 DEF Goto, Inv, TypeOK, TaskTypes, PlaceTypes
<1>4. A # {} /\ A \in Latest(MaxStored)
  BY <1>1 DEF AnswersComplete
<1>5. PICK e \in A : Earliest(e, A) /\ oldest' = Date[e]
  BY <1>4 DEF RefreshReturns, Refresh, Setting
<1>6. scrobbled' = {s \in scrobbled : Date[s.play] > oldest'}
  BY <1>4 DEF RefreshReturns, Refresh, Setting
<1>7. HeldHere' \subseteq HeldHere /\ \A q \in HeldHere : q \in HeldHere' \/ ~(Date[q] > oldest')
  BY <1>6 DEF HeldHere
<1>8. Upstream' = Upstream /\ Latest(MaxStored)' = Latest(MaxStored) /\ Upstream \subseteq Plays
  BY <1>1 DEF Upstream, Latest
<1>9. A \subseteq Upstream /\ \A p \in Plays : Date[p] \in Nat \ {0}
  BY <1>1, PlaysAssumption DEF KnowledgeInv
<1>10. \A q \in Plays : ~Awaited(q)
  BY <1>1, <1>2 DEF Awaited, Processing
<1>11. RecordInv'
  <2>1. \A q \in Runners : pc'[q] \notin {"submit", "reply"}
    BY <1>2, <1>3 DEF Processing
  <2>2. lastCheck' # 0
    BY <1>1 DEF RecordInv
  <2>3. \A s, t \in scrobbled' : s.play = t.play => s = t
    BY <1>6 DEF RecordInv
  <2> QED
    BY <1>1, <1>5, <1>7, <2>1, <2>2, <2>3 DEF RecordInv
<1>12. KnownHere'
  <2> SUFFICES ASSUME NEW q \in Upstream, q \notin A
               PROVE  oldest' # 0 /\ Date[q] <= oldest'
    BY <1>1, <1>8 DEF KnownHere
  <2>1. Date[q] <= Date[e]
    BY <1>4, <1>5 DEF Latest
  <2> QED
    BY <1>5, <1>8, <1>9, <2>1
<1>13. AnswersComplete'
  <2> SUFFICES ASSUME NEW r2 \in Runners, r2 # r, window[r2] # Unanswered, pc[r2] # "refresh",
                      NEW q \in Upstream \ window[r2], q \notin HeldHere',
                      NEW s \in window[r2]
               PROVE  Date[q] <= Date[s]
    <3>1. \A r2 \in Runners : window'[r2] # Unanswered =>
            r2 # r /\ window'[r2] = window[r2] /\ pc'[r2] = pc[r2] /\ pc[r2] # "refresh"
      BY <1>2, <1>3 DEF Processing
    <3> QED
      BY <1>8, <3>1 DEF AnswersComplete
  <2>1. CASE q \notin HeldHere
    BY <1>8, <1>10, <2>1 DEF AnswersComplete
  <2>2. CASE q \in HeldHere
    <3>1. Date[q] <= oldest'
      BY <1>5, <1>7, <1>8, <1>9, <2>2
    <3>2. \A x \in A : Date[q] <= Date[x]
      BY <1>5, <1>8, <1>9, <3>1 DEF Earliest
    <3> QED
      BY <1>1, <3>2, LateAnswerIsOlder
  <2> QED
    BY <2>1, <2>2
<1> QED
  BY <1>11, <1>12, <1>13

\* The answer to the fetch of postInitialize may be old, but is still complete.
LEMMA InitSucceedsKeeps ==
  ASSUME Inv, KnowledgeInv, OneInitialiser, Once, RecordInv, KnownHere, AnswersComplete, Setting,
         NEW r \in Runners, InitSucceeds(r)
  PROVE  RecordInv' /\ KnownHere' /\ AnswersComplete'
<1> DEFINE A == window[r]
<1>1. /\ UNCHANGED <<accepted, inflight, now>> /\ pc[r] \in {"initFetch", "beatFetch"}
      /\ window' = [window EXCEPT ![r] = Unanswered]
      /\ lastCheck' = now /\ A # Unanswered /\ recent' = A
  BY DEF InitSucceeds, Refresh, Setting, worldVars
<1>2. PICK label \in {"idle", "start"} : Goto(r, label)
  BY DEF InitSucceeds
<1>3. \A q \in Runners : /\ pc'[q] = IF q = r THEN label ELSE pc[q]
                         /\ window'[q] = IF q = r THEN Unanswered ELSE window[q]
  BY <1>1, <1>2 DEF Goto, Inv, TypeOK, TaskTypes, PlaceTypes
<1>4. A # {}
  BY <1>1 DEF AnswersComplete
<1>5. PICK e \in A : Earliest(e, A) /\ oldest' = Date[e]
  BY <1>4 DEF InitSucceeds, Refresh, Setting
<1>6. scrobbled' = {s \in scrobbled : Date[s.play] > oldest'}
  BY <1>4 DEF InitSucceeds, Refresh, Setting
<1>7. HeldHere' \subseteq HeldHere /\ \A q \in HeldHere : q \in HeldHere' \/ ~(Date[q] > oldest')
  BY <1>6 DEF HeldHere
<1>8. Upstream' = Upstream /\ Latest(MaxStored)' = Latest(MaxStored) /\ Upstream \subseteq Plays
  BY <1>1 DEF Upstream, Latest
<1>9. A \subseteq Upstream /\ \A p \in Plays : Date[p] \in Nat \ {0}
  BY <1>1, PlaysAssumption DEF KnowledgeInv
<1>10. \A q \in Plays : Awaited(q)' = Awaited(q)
  BY <1>1, <1>2, <1>3 DEF Awaited
<1>11. RecordInv'
  <2>1. \A q \in Runners : pc'[q] \in {"take", "submit", "reply"} => pc'[q] = pc[q]
    BY <1>3
  <2>2. lastCheck' # 0
    BY <1>1 DEF RecordInv
  <2>3. \A s, t \in scrobbled' : s.play = t.play => s = t
    BY <1>6 DEF RecordInv
  <2> QED
    BY <1>1, <1>5, <1>7, <1>8, <2>1, <2>2, <2>3 DEF RecordInv, Known
<1>12. KnownHere'
  <2> SUFFICES ASSUME NEW q \in Upstream, q \notin A, q \notin HeldHere', ~Awaited(q)
               PROVE  oldest' # 0 /\ Date[q] <= oldest'
    BY <1>1, <1>8, <1>10 DEF KnownHere
  <2>1. q \in HeldHere \/ Date[q] <= Date[e]
    BY <1>1 DEF AnswersComplete
  <2> QED
    BY <1>5, <1>7, <1>8, <1>9, <2>1
<1>13. AnswersComplete'
  <2>1. \A q \in Runners : window'[q] # Unanswered =>
          /\ q # r /\ window'[q] = window[q] /\ pc'[q] = pc[q]
          /\ pc[q] = "refresh"
    BY <1>1, <1>3 DEF AnswersComplete, OneInitialiser, Initialising, Fetching
  <2> QED
    BY <1>8, <2>1 DEF AnswersComplete
<1> QED
  BY <1>11, <1>12, <1>13

-----------------------------------------------------------------------------
\* The inductive invariant of the refinement.
DeadIsDequeued == Range(dead) \subseteq dequeued
DeliveryInv ==
  OneInitialiser /\ Once /\ RecordInv /\ KnownHere /\ AnswersComplete /\ DeadIsDequeued

\* Without any check before, the loop refreshes first.
LEMMA InnerLoopKeeps ==
  ASSUME Inv, RecordInv, KnownHere, AnswersComplete, Setting, NEW r \in Runners, InnerLoop(r)
  PROVE  RecordInv' /\ KnownHere' /\ AnswersComplete'
<1>1. \/ Goto(r, "sleep") \/ Goto(r, "refresh")
      \/ Goto(r, "take") /\ lastCheck # 0
  BY DEF InnerLoop, ShouldRefresh, MinIntervalPassed, Stale, Setting
<1>2. /\ UNCHANGED <<scrobbled, recent, oldest, lastCheck, accepted, inflight, now, window>>
      /\ pc[r] = "inner"
  BY DEF InnerLoop, recordVars, refreshVars, worldVars
<1> QED
  BY <1>1, <1>2, DetourKeeps DEF Fetching

LEMMA KnowledgeStepsKeep ==
  ASSUME Inv, KnowledgeInv, OneInitialiser, Once, RecordInv, KnownHere, AnswersComplete, Setting,
         Next
  PROVE  RecordInv' /\ KnownHere' /\ AnswersComplete'
<1> USE DEF recordVars, refreshVars, worldVars
<1>1. ASSUME NEW r \in Runners, NEW label, Aside(r, label) \/ Begins(r, label)
      PROVE  RecordInv' /\ KnownHere' /\ AnswersComplete'
  <2>1. /\ UNCHANGED <<scrobbled, recent, oldest, lastCheck, accepted, inflight, now, window>>
        /\ Goto(r, label) /\ label \notin {"submit", "reply", "take"}
        /\ pc[r] \notin Fetching \cup {"submit", "reply"}
    BY <1>1 DEF Aside, Begins, Fetching
  <2> QED
    BY <2>1, DetourKeeps
<1>2. ASSUME NEW r \in Runners, StagesSucceed(r)
      PROVE  RecordInv' /\ KnownHere' /\ AnswersComplete'
  <2>1. /\ UNCHANGED <<scrobbled, recent, oldest, lastCheck, accepted, inflight, now, window>>
        /\ Goto(r, "initFetch") \/ Goto(r, "beatFetch")
        /\ pc[r] \notin Fetching \cup {"submit", "reply"}
    BY <1>2 DEF StagesSucceed, Fetching
  <2> QED
    BY <2>1, DetourKeeps
<1>3. ASSUME NEW r \in Runners, GivesUp(r)
      PROVE  RecordInv' /\ KnownHere' /\ AnswersComplete'
  <2>1. /\ UNCHANGED <<scrobbled, recent, oldest, lastCheck, accepted, inflight, now>>
        /\ window' = [window EXCEPT ![r] = Unanswered]
        /\ Goto(r, "throw") \/ Goto(r, "idle")
        /\ pc[r] \notin {"submit", "reply"}
    BY <1>3 DEF GivesUp, RefreshFails, Interrupted, InitFails
  <2> QED
    BY <2>1, DetourKeeps
<1>4. ASSUME (\E p \in Plays : QueueScrobble(p)) \/ Tick
      PROVE  RecordInv' /\ KnownHere' /\ AnswersComplete'
  <2>1. /\ UNCHANGED <<scrobbled, recent, oldest, lastCheck, accepted, inflight, pc, window>>
        /\ now' \in {now, now + 1}
    BY <1>4 DEF QueueScrobble, Tick
  <2> QED
    BY <2>1, UnlearnedKeeps
<1>5. ASSUME Crash PROVE RecordInv' /\ KnownHere' /\ AnswersComplete'
  <2>1. RecordInv'
    BY <1>5 DEF Crash, RecordInv, HeldHere
  <2> QED
    BY <1>5, <2>1 DEF Crash, KnownHere, AnswersComplete
<1> QED
  BY <1>1, <1>2, <1>3, <1>4, <1>5, InnerLoopKeeps, TakeKeepsKnowledge, RefusedKeeps,
     ScrobbleSucceedsKeeps, RefreshReturnsKeeps, InitSucceedsKeeps, UpstreamAnswersKeeps,
     UpstreamAcceptsKeeps, StepsOfNext
     DEF MovesPlay, Learns

\* The dead letter queue holds what left the queue.
LEMMA DeadIsDequeuedKept ==
  ASSUME Inv, DeadIsDequeued, Next
  PROVE  DeadIsDequeued'
<1> USE DEF listVars, eventVars
<1>1. ASSUME UNCHANGED dead, dequeued \subseteq dequeued' PROVE DeadIsDequeued'
  BY <1>1 DEF DeadIsDequeued
<1>2. ASSUME NEW r \in Runners, NEW label, Aside(r, label) \/ Begins(r, label)
      PROVE  DeadIsDequeued'
  BY <1>1, <1>2 DEF Aside, Begins
<1>3. ASSUME NEW r \in Runners,
             \/ InnerLoop(r) \/ Learns(r) \/ GivesUp(r) \/ UpstreamAnswers(r)
             \/ UpstreamAccepts(r) \/ StagesSucceed(r)
      PROVE  DeadIsDequeued'
  BY <1>1, <1>3 DEF InnerLoop, Learns, RefreshReturns, InitSucceeds, GivesUp, RefreshFails,
                    InitFails, UpstreamAnswers, UpstreamAccepts, StagesSucceed
<1>4. ASSUME NEW r \in Runners, Take(r) \/ ScrobbleSucceeds(r) \/ PutBack(r)
      PROVE  DeadIsDequeued'
  BY <1>1, <1>4 DEF Take, ScrobbleSucceeds, PutBack, ReportDequeued
<1>5. ASSUME NEW r \in Runners, DeadLetter(r) PROVE DeadIsDequeued'
  BY <1>5, DeadLetterAdds DEF DeadLetter, ReportDequeued, DeadIsDequeued
<1>6. ASSUME (\E p \in Plays : QueueScrobble(p)) \/ Tick PROVE DeadIsDequeued'
  BY <1>1, <1>6 DEF QueueScrobble, Tick
<1>7. CASE Crash
  BY <1>7 DEF Crash, DeadIsDequeued, Range
<1> QED
  BY <1>2, <1>3, <1>4, <1>5, <1>6, <1>7, StepsOfNext DEF MovesPlay

LEMMA InitEstablishesDelivery ==
  ASSUME Init, Setting
  PROVE  DeliveryInv
<1>1. OneInitialiser
  BY DEF Init, OneInitialiser, Initialising
<1>2. Upstream = History
  BY PlaysAssumption DEF Init, Upstream
<1>3. Once
  BY <1>2, PlaysAssumption DEF Init, Once
<1>4. RecordInv
  BY DEF Init, RecordInv, HeldHere
<1> QED
  BY <1>1, <1>3, <1>4 DEF Init, DeliveryInv, KnownHere, AnswersComplete, DeadIsDequeued, Range

LEMMA NextKeepsDelivery ==
  ASSUME Inv, KnowledgeInv, DeliveryInv, Setting, [Next]_vars
  PROVE  DeliveryInv'
<1>1. CASE Next
  BY <1>1, OneInitialiserKept, OnceKept, KnowledgeStepsKeep, DeadIsDequeuedKept DEF DeliveryInv
<1>2. CASE UNCHANGED vars
  <2> USE DEF vars, listVars, recordVars, refreshVars, readyVars, eventVars, worldVars
  <2>1. RecordInv' /\ KnownHere' /\ AnswersComplete'
    BY <1>2, UnlearnedKeeps DEF DeliveryInv
  <2>2. OneInitialiser' /\ DeadIsDequeued'
    BY <1>2 DEF DeliveryInv, OneInitialiser, DeadIsDequeued, Range
  <2>3. Once'
    BY <1>2 DEF DeliveryInv, Once, Upstream
  <2> QED
    BY <2>1, <2>2, <2>3 DEF DeliveryInv
<1> QED
  BY <1>1, <1>2

LEMMA DeliveryInvariance ==
  ASSUME Setting
  PROVE  Spec => []DeliveryInv
<1>1. Inv /\ KnowledgeInv /\ DeliveryInv /\ [Next]_vars => DeliveryInv'
  BY NextKeepsDelivery
<1>2. Init => DeliveryInv
  BY InitEstablishesDelivery
<1> QED
  BY <1>1, <1>2, Invariance, KnowledgeInvariance, PTL DEF Spec

-----------------------------------------------------------------------------
\* The step of the abstract specification that each step of the client is.
Pending == Range(queue) \cup InFlight
Settled == dequeued \ Range(dead)

LEMMA PendingIsAnnounced ==
  ASSUME Inv, Inv'
  PROVE  /\ Pending = announced \ dequeued /\ dequeued \subseteq announced
         /\ Pending' = announced' \ dequeued'
<1>1. Pending = announced \ dequeued /\ dequeued \subseteq announced
  BY DEF Pending, Inv, Conservation, EachPlayOnce
<1>2. Pending' = announced' \ dequeued'
  BY DEF Pending, Inv, Conservation, EachPlayOnce
<1> QED
  BY <1>1, <1>2

LEMMA InFlightIsPending ==
  ASSUME Inv, NEW r \in Runners, pc[r] \in {"submit", "reply"}
  PROVE  inflight[r] \in Plays /\ inflight[r] \in Pending
BY InFlightIsPlay, PlaysAssumption DEF InFlight, Pending

LEMMA UnmovedStutters ==
  ASSUME Inv, Inv', UNCHANGED <<announced, dequeued, dead, accepted>>
  PROVE  UNCHANGED <<Pending, Range(dead), Settled, Upstream>>
<1>1. Pending' = Pending
  BY PendingIsAnnounced
<1> QED
  BY <1>1 DEF Settled, Range, Upstream

\* A play that is dequeued is pending no more, and settled unless it is dead.
LEMMA DequeuedIsSettled ==
  ASSUME Inv, Inv', DeadIsDequeued, NEW p \in Pending,
         announced' = announced, dequeued' = dequeued \cup {p}
  PROVE  /\ Pending' = Pending \ {p}
         /\ UNCHANGED dead => UNCHANGED Range(dead) /\ Settled' = Settled \cup {p}
         /\ Range(dead') = Range(dead) \cup {p} => Settled' = Settled
<1>1. Pending = announced \ dequeued /\ Pending' = announced' \ dequeued'
  BY PendingIsAnnounced
<1>2. p \notin dequeued /\ p \notin Range(dead)
  BY <1>1 DEF DeadIsDequeued
<1> QED
  BY <1>1, <1>2 DEF Settled, Range

LEMMA QueueScrobbleAnnounces ==
  ASSUME Inv, Inv', DeadIsDequeued, NEW p \in Plays, QueueScrobble(p)
  PROVE  Delivery!Announce(p)
<1>1. /\ p \notin announced /\ announced' = announced \cup {p}
      /\ UNCHANGED <<dead, dequeued, accepted>>
  BY DEF QueueScrobble, worldVars
<1>2. Pending = announced \ dequeued /\ Pending' = announced' \ dequeued'
      /\ dequeued \subseteq announced
  BY PendingIsAnnounced
<1>3. Pending' = Pending \cup {p} /\ p \notin Pending \cup Range(dead) \cup Settled
  BY <1>1, <1>2 DEF DeadIsDequeued, Settled
<1>4. UNCHANGED <<Range(dead), Settled, Upstream>>
  BY <1>1 DEF Range, Settled, Upstream
<1> QED
  BY <1>3, <1>4 DEF Delivery!Announce, Pending, Settled

LEMMA AcceptsScrobbles ==
  ASSUME Inv, Inv', RecordInv, NEW r \in Runners, UpstreamAccepts(r)
  PROVE  Delivery!Scrobble(inflight[r])
<1>1. pc[r] = "submit" /\ UNCHANGED <<announced, dequeued, dead>>
  BY DEF UpstreamAccepts, eventVars, listVars
<1>2. inflight[r] \in Plays /\ inflight[r] \in Pending
  BY <1>1, InFlightIsPending
<1>3. ~\E q \in Upstream : Listen[q] = Listen[inflight[r]]
  BY <1>1 DEF RecordInv, Known
<1>4. Upstream' = Upstream \cup {inflight[r]}
  BY <1>2 DEF UpstreamAccepts, Upstream, Inv, TypeOK, WorldTypes
<1>5. UNCHANGED <<Pending, Range(dead), Settled>>
  BY <1>1, PendingIsAnnounced DEF Settled, Range
<1> QED
  BY <1>2, <1>3, <1>4, <1>5 DEF Delivery!Scrobble, Delivery!Known, Pending, Settled

LEMMA TakeSettles ==
  ASSUME Inv, Inv', KnowledgeInv, DeadIsDequeued, NEW r \in Runners, Take(r)
  PROVE  \/ \E p \in Plays : Delivery!Settle(p)
         \/ UNCHANGED <<announced, dequeued, dead, accepted>>
<1> DEFINE p == Head(queue)
<1>1. UNCHANGED <<announced, dead, accepted>> /\ queue # <<>>
  BY DEF Take, worldVars, Inv, Conservation, PlaysAtHand
<1>2. CASE TooOld(p) \/ AlreadyScrobbled(p)
  <2>1. dequeued' = dequeued \cup {p}
    BY <1>2 DEF Take, ReportDequeued
  <2>2. p \in Plays /\ p \in Range(queue)
    <3>1. Len(queue) \in Nat \ {0} /\ DOMAIN queue = 1 .. Len(queue) /\ p = queue[1] /\ p \in Plays
      BY <1>1, HeadOfQueue, LenProperties
    <3> QED
      BY <3>1 DEF Range
  <2>3. p \in Pending
    BY <2>2 DEF Pending
  <2>4. \E q \in Upstream : Listen[q] = Listen[p] \/ Date[p] <= Date[q]
    BY <1>2 DEF TooOld, AlreadyScrobbled, KnowledgeInv, HeldHere
  <2>5. UNCHANGED Upstream
    BY <1>1 DEF Upstream
  <2>6. Pending' = Pending \ {p} /\ UNCHANGED Range(dead) /\ Settled' = Settled \cup {p}
    BY <1>1, <2>1, <2>3, DequeuedIsSettled
  <2> HIDE DEF p
  <2>7. Delivery!Settle(p)
    BY <2>3, <2>4, <2>5, <2>6 DEF Delivery!Settle, Delivery!Known, Pending, Settled
  <2> QED
    BY <2>2, <2>7
<1>3. CASE ~(TooOld(p) \/ AlreadyScrobbled(p))
  BY <1>1, <1>3 DEF Take
<1> QED
  BY <1>2, <1>3

LEMMA ScrobbleSucceedsSettles ==
  ASSUME Inv, Inv', KnowledgeInv, DeadIsDequeued, NEW r \in Runners, ScrobbleSucceeds(r)
  PROVE  Delivery!Settle(inflight[r])
<1> DEFINE p == inflight[r]
<1>1. /\ pc[r] = "reply" /\ UNCHANGED <<announced, dead, accepted>>
      /\ dequeued' = dequeued \cup {p}
  BY DEF ScrobbleSucceeds, ReportDequeued, listVars, worldVars
<1>2. p \in Pending /\ p \in Upstream
  BY <1>1, InFlightIsPending DEF KnowledgeInv
<1>3. Pending' = Pending \ {p} /\ UNCHANGED Range(dead) /\ Settled' = Settled \cup {p}
  BY <1>1, <1>2, DequeuedIsSettled
<1>4. UNCHANGED Upstream
  BY <1>1 DEF Upstream
<1> HIDE DEF p
<1>5. Delivery!Settle(p)
  BY <1>2, <1>3, <1>4 DEF Delivery!Settle, Delivery!Known, Pending, Settled
<1> QED
  BY <1>5 DEF p

LEMMA DeadLetterRefuses ==
  ASSUME Inv, Inv', RecordInv, DeadIsDequeued, Setting, NEW r \in Runners, DeadLetter(r)
  PROVE  Delivery!Refuse(inflight[r])
<1> DEFINE p == inflight[r]
<1>1. /\ pc[r] = "submit" /\ UNCHANGED <<announced, accepted>>
      /\ dequeued' = dequeued \cup {p}
  BY DEF DeadLetter, ScrobbleFails, Setting, ReportDequeued, worldVars
<1>2. p \in Pending /\ ~\E q \in Upstream : Listen[q] = Listen[p]
  BY <1>1, InFlightIsPending DEF RecordInv, Known
<1>3. Range(dead') = Range(dead) \cup {p}
  BY DeadLetterAdds
<1>4. Pending' = Pending \ {p} /\ Settled' = Settled
  BY <1>1, <1>2, <1>3, DequeuedIsSettled
<1>5. UNCHANGED Upstream
  BY <1>1 DEF Upstream
<1> HIDE DEF p
<1>6. Delivery!Refuse(p)
  BY <1>2, <1>3, <1>4, <1>5 DEF Delivery!Refuse, Delivery!Known, Pending, Settled
<1> QED
  BY <1>6 DEF p

LEMMA CrashRestarts ==
  ASSUME Crash
  PROVE  Delivery!Restart
<1>1. Range(queue)' = {} /\ Range(dead)' = {} /\ InFlight' = {} /\ dequeued' = {}
  BY DEF Crash, Range, InFlight
<1>2. UNCHANGED Upstream
  BY DEF Crash, Upstream
<1> QED
  BY <1>1, <1>2 DEF Delivery!Restart

LEMMA StepsAreDeliverySteps ==
  ASSUME Inv, Inv', KnowledgeInv, DeliveryInv, Setting, [Next]_vars
  PROVE  [Delivery!Next]_(Delivery!vars)
<1> USE DEF listVars, eventVars, worldVars
<1>1. ASSUME UNCHANGED <<announced, dequeued, dead, accepted>>
      PROVE  [Delivery!Next]_(Delivery!vars)
  BY <1>1, UnmovedStutters DEF Delivery!vars, Pending, Settled
<1>2. ASSUME NEW r \in Runners, NEW label, Aside(r, label) \/ Begins(r, label)
      PROVE  UNCHANGED <<announced, dequeued, dead, accepted>>
  BY <1>2 DEF Aside, Begins
<1>3. ASSUME NEW r \in Runners,
             \/ InnerLoop(r) \/ Learns(r) \/ GivesUp(r) \/ UpstreamAnswers(r) \/ StagesSucceed(r)
             \/ PutBack(r)
      PROVE  UNCHANGED <<announced, dequeued, dead, accepted>>
  BY <1>3 DEF InnerLoop, Learns, RefreshReturns, InitSucceeds, GivesUp, RefreshFails, InitFails,
              UpstreamAnswers, StagesSucceed, PutBack
<1>4. ASSUME NEW r \in Runners, Take(r) \/ ScrobbleSucceeds(r) \/ DeadLetter(r) \/ UpstreamAccepts(r)
      PROVE  \/ \E p \in Plays : Delivery!Settle(p) \/ Delivery!Refuse(p) \/ Delivery!Scrobble(p)
             \/ UNCHANGED <<announced, dequeued, dead, accepted>>
  <2>1. CASE Take(r)
    BY <2>1, TakeSettles DEF DeliveryInv
  <2>2. CASE ~Take(r)
    <3>1. inflight[r] \in Plays
      BY <1>4, <2>2, InFlightIsPlay DEF ScrobbleSucceeds, DeadLetter, ScrobbleFails, UpstreamAccepts
    <3> QED
      BY <1>4, <2>2, <3>1, ScrobbleSucceedsSettles, DeadLetterRefuses, AcceptsScrobbles
         DEF DeliveryInv
  <2> QED
    BY <2>1, <2>2
<1>5. CASE Tick
  BY <1>1, <1>5 DEF Tick
<1>6. CASE UNCHANGED vars
  BY <1>1, <1>6 DEF vars
<1>7. CASE \E p \in Plays : QueueScrobble(p)
  BY <1>7, QueueScrobbleAnnounces DEF DeliveryInv, Delivery!Next
<1>8. CASE Crash
  BY <1>8, CrashRestarts DEF Delivery!Next
<1> QED
  BY <1>1, <1>2, <1>3, <1>4, <1>5, <1>6, <1>7, <1>8, StepsOfNext DEF MovesPlay, Delivery!Next

\* Whatever its coroutines, failures, requests and crashes do, the client delivers its
\* plays as promised: each stays pending until it is scrobbled, refused or no longer
\* needed, and no listen the service holds is scrobbled again.
THEOREM DeliveryImplemented ==
  ASSUME Setting
  PROVE  Spec => ImplementsDelivery
<1>1. Init => Delivery!Init
  BY PlaysAssumption DEF Init, Delivery!Init, Range, InFlight, Upstream
<1>2. /\ Inv /\ Inv' /\ KnowledgeInv /\ DeliveryInv /\ [Next]_vars
      => [Delivery!Next]_(Delivery!vars)
  BY StepsAreDeliverySteps
<1> QED
  BY <1>1, <1>2, Invariance, KnowledgeInvariance, DeliveryInvariance, PTL
     DEF Spec, ImplementsDelivery, Delivery!Spec

\* The service comes to hold each play at most once, and of plays it did not hold at
\* first, one for each listen: no report of a listen the service held is scrobbled.
HeldOnce ==
  /\ \A p \in Plays : accepted[p] <= 1
  /\ \A p, q \in Upstream : Listen[p] = Listen[q] => p = q \/ {p, q} \subseteq History
THEOREM HeldOnceAlways ==
  ASSUME Setting
  PROVE  Spec => []HeldOnce
<1>1. Inv /\ DeliveryInv => HeldOnce
  BY DEF Inv, TypeOK, WorldTypes, DeliveryInv, Once, HeldOnce, Upstream
<1> QED
  BY <1>1, Invariance, DeliveryInvariance, PTL

-----------------------------------------------------------------------------
(* Counted as the property counts.                                            *)

\* A sum of ones and noughts counts the ones.
LEMMA SumCounts ==
  ASSUME NEW S, IsFiniteSet(S), NEW a, \A p \in S : a[p] \in {0, 1}
  PROVE  MapThenSumSet(LAMBDA p : a[p], S) = Cardinality({p \in S : a[p] = 1})
<1>. DEFINE Ones(s) == {p \in s : a[p] = 1}
            One(s) == CHOOSE p \in s : TRUE
            Sums(f) == f = [s \in SUBSET S |-> IF s = {} THEN 0
                                               ELSE a[One(s)] + f[s \ {One(s)}]]
            count == [s \in SUBSET S |-> Cardinality(Ones(s))]
<1>1. ASSUME NEW s \in SUBSET S, s # {}
      PROVE  /\ One(s) \in s /\ s \ {One(s)} \in SUBSET S /\ s \ {One(s)} # s
             /\ Cardinality(Ones(s)) = a[One(s)] + Cardinality(Ones(s \ {One(s)}))
  <2>. DEFINE x == One(s)
  <2>1. x \in s
    BY <1>1
  <2>. HIDE DEF x
  <2>2. IsFiniteSet(Ones(s)) /\ IsFiniteSet(Ones(s \ {x}))
    BY FS_Subset
  <2>3. CASE a[x] = 0
    <3>1. Ones(s \ {x}) = Ones(s)
      BY <2>1, <2>3
    <3>. HIDE DEF Ones
    <3>. QED BY <2>1, <2>2, <2>3, <3>1, FS_CardinalityType DEF x
  <2>4. CASE a[x] = 1
    <3>1. Ones(s) = Ones(s \ {x}) \cup {x} /\ x \notin Ones(s \ {x})
      BY <2>1, <2>4
    <3>. HIDE DEF Ones
    <3>2. Cardinality(Ones(s)) = Cardinality(Ones(s \ {x})) + 1
      BY <2>2, <3>1, FS_AddElement
    <3>3. Cardinality(Ones(s \ {x})) \in Nat
      BY <2>2, FS_CardinalityType
    <3>. QED BY <2>1, <2>4, <3>2, <3>3 DEF x
  <2>. QED BY <2>1, <2>3, <2>4
<1>2. Cardinality(Ones({})) = 0
  <2>1. Ones({}) = {}
    OBVIOUS
  <2>. QED BY <2>1, FS_EmptySet
<1>3. Sums(count)
  <2>. HIDE DEF One, Ones
  <2>1. \A s \in SUBSET S : Cardinality(Ones(s)) =
          IF s = {} THEN 0 ELSE a[One(s)] + count[s \ {One(s)}]
    BY <1>1, <1>2
  <2>. QED BY <2>1
<1>. DEFINE sum == CHOOSE f : Sums(f)
<1>4. Sums(sum)
  <2>. HIDE DEF Sums
  <2>. QED BY <1>3
<1>. HIDE DEF sum
<1>5. ASSUME NEW s \in SUBSET S
      PROVE  sum[s] = IF s = {} THEN 0 ELSE a[One(s)] + sum[s \ {One(s)}]
  <2>. HIDE DEF One
  <2>. QED BY <1>4
<1>6. sum[S] = Cardinality(Ones(S))
  <2>. DEFINE Wrong == {s \in SUBSET S : sum[s] # Cardinality(Ones(s))}
              Smaller == StrictSubsetOrdering(S)
  <2>. SUFFICES ASSUME Wrong # {} PROVE FALSE
    OBVIOUS
  <2>1. Wrong \subseteq FiniteSubsetsOf(S)
    <3>1. \A s \in SUBSET S : IsFiniteSet(s)
      BY FS_Subset
    <3>. QED BY <3>1 DEF FiniteSubsetsOf
  <2>2. PICK s \in Wrong : \A r \in Wrong : <<r, s>> \notin Smaller
    <3>1. IsWellFoundedOn(Smaller, FiniteSubsetsOf(S))
      BY FS_StrictSubsetOrderingWellFounded
    <3>. HIDE DEF Wrong, Smaller
    <3>. QED BY <2>1, <3>1, WFMin
  <2>3. s # {}
    BY <1>2, <1>5
  <2>. DEFINE r == s \ {One(s)}
  <2>4. /\ r \in SUBSET S /\ r # s /\ r \subseteq s
        /\ Cardinality(Ones(s)) = a[One(s)] + Cardinality(Ones(r))
    BY <1>1, <2>3
  <2>5. sum[s] = a[One(s)] + sum[r]
    BY <1>5, <2>3
  <2>. HIDE DEF r, Ones, One
  <2>6. <<r, s>> \in Smaller
    BY <2>4 DEF StrictSubsetOrdering
  <2>7. r \notin Wrong
    <3>. HIDE DEF Wrong, Smaller
    <3>. QED BY <2>2, <2>6
  <2>. QED BY <2>2, <2>4, <2>5, <2>7
<1>7. MapThenSumSet(LAMBDA p : a[p], S) = sum[S]
  BY DEF MapThenSumSet, MapThenFoldSet, sum
<1>. QED BY <1>6, <1>7

\* So a listen has as many copies as there are reports of it that were accepted.
LEMMA CopiesAreCounted ==
  ASSUME Setting, Inv, HeldOnce, NEW l
  PROVE  Copies(l) = Cardinality({p \in {q \in Plays : Listen[q] = l} : accepted[p] = 1})
<1>. DEFINE S == {q \in Plays : Listen[q] = l}
<1>1. IsFiniteSet(S)
  BY FS_Subset DEF Setting
<1>2. \A p \in S : accepted[p] \in {0, 1}
  BY DEF Inv, TypeOK, WorldTypes, HeldOnce
<1>3. MapThenSumSet(LAMBDA p : accepted[p], S) = Cardinality({p \in S : accepted[p] = 1})
  <2>. HIDE DEF S
  <2>. QED BY <1>1, <1>2, SumCounts
<1>. QED BY <1>3 DEF Copies

\* The service never holds more copies of a listen than it did at first, or one, in
\* any Setting: for any number of reports, coroutines, failures and crashes.
THEOREM NoDoubleScrobbleAlways ==
  ASSUME Setting
  PROVE  Spec => []NoDoubleScrobble
<1>1. ASSUME Inv, HeldOnce, NEW p \in Plays
      PROVE  Copies(Listen[p]) <= Max({1, InitialCopies(Listen[p])})
                                  + (IF LostReplies THEN faults ELSE 0)
  <2>. DEFINE held == {q \in {r \in Plays : Listen[r] = Listen[p]} : accepted[q] = 1}
              first == {q \in History : Listen[q] = Listen[p]}
              n == Cardinality(first)
  <2>1. IsFiniteSet(held) /\ IsFiniteSet(first) /\ n \in Nat
    BY PlaysAssumption, FS_Subset, FS_CardinalityType DEF Setting
  <2>2. Copies(Listen[p]) = Cardinality(held)
    BY <1>1, CopiesAreCounted
  <2>3. Max({1, n}) \in Nat /\ 1 <= Max({1, n}) /\ n <= Max({1, n})
    <3>. HIDE DEF n
    <3>1. \E x \in {1, n} : \A y \in {1, n} : x >= y
      BY <2>1
    <3>. QED BY <2>1, <3>1 DEF Max
  <2>4. \A q, r \in held : q = r \/ {q, r} \subseteq History
    BY <1>1 DEF HeldOnce, Upstream
  <2>5. Cardinality(held) <= Max({1, n})
    <3>1. CASE held \subseteq History
      <4>1. held \subseteq first
        BY <3>1
      <4>. HIDE DEF held, first
      <4>. QED BY <2>1, <2>3, <4>1, FS_Subset, FS_CardinalityType
    <3>2. CASE ~(held \subseteq History)
      <4>1. PICK q \in held : q \notin History
        BY <3>2
      <4>2. held = {q}
        BY <2>4, <4>1
      <4>. HIDE DEF held, n
      <4>. QED BY <2>3, <4>2, FS_Singleton
    <3>. QED BY <3>1, <3>2
  <2>6. ~LostReplies /\ InitialCopies(Listen[p]) = n /\ Cardinality(held) \in Nat
    BY <2>1, FS_CardinalityType DEF Setting, InitialCopies
  <2>. HIDE DEF held, n
  <2>. QED BY <2>2, <2>3, <2>5, <2>6
<1>2. Inv /\ HeldOnce => NoDoubleScrobble
  BY <1>1 DEF NoDoubleScrobble
<1>. QED BY <1>2, HeldOnceAlways, Invariance, PTL

-----------------------------------------------------------------------------
(* Dead letters.                                                              *)

Entries == Plays \cup {NoPlay}

\* The inductive invariant: that of the loop, the types of the workers, and that
\* all dead letters were reported as dequeued.
Reported == DeadLetters \subseteq dequeued
DeadInv  == Inv /\ WorkTypes /\ Reported

-----------------------------------------------------------------------------
\* The arrays.
LEMMA RemoveAtProperties ==
  ASSUME NEW S, NEW s \in Seq(S), NEW i \in 1 .. Len(s)
  PROVE  /\ RemoveAt(s, i) \in Seq(S) /\ Range(RemoveAt(s, i)) \subseteq Range(s)
         /\ Range(s) \subseteq Range(RemoveAt(s, i)) \cup {s[i]}
<1> DEFINE a == SubSeq(s, 1, i - 1)
           b == SubSeq(s, i + 1, Len(s))
<1>1. Len(s) \in Nat /\ DOMAIN s = 1 .. Len(s)
  BY LenProperties
<1>2. \A k \in 1 .. Len(s) : s[k] \in S
  BY ElementOfSeq
<1>3. a \in Seq(S) /\ Len(a) = i - 1 /\ \A k \in 1 .. i - 1 : a[k] = s[k]
  <2>1. i - 1 \in Int /\ \A k \in 1 .. i - 1 : s[k] \in S
    BY <1>1, <1>2
  <2>2. /\ SubSeq(s, 1, i - 1) \in Seq(S)
        /\ Len(SubSeq(s, 1, i - 1)) = IF 1 <= i - 1 THEN i - 1 - 1 + 1 ELSE 0
        /\ \A k \in 1 .. i - 1 - 1 + 1 : SubSeq(s, 1, i - 1)[k] = s[1 + k - 1]
    BY <2>1, SubSeqProperties
  <2> QED
    BY <1>1, <2>2
<1>4. b \in Seq(S) /\ Len(b) = Len(s) - i /\ \A k \in 1 .. Len(s) - i : b[k] = s[k + i]
  <2>1. i + 1 \in Int /\ Len(s) \in Int /\ \A k \in i + 1 .. Len(s) : s[k] \in S
    BY <1>1, <1>2
  <2>2. /\ SubSeq(s, i + 1, Len(s)) \in Seq(S)
        /\ Len(SubSeq(s, i + 1, Len(s))) = IF i + 1 <= Len(s) THEN Len(s) - (i + 1) + 1 ELSE 0
        /\ \A k \in 1 .. Len(s) - (i + 1) + 1 : SubSeq(s, i + 1, Len(s))[k] = s[i + 1 + k - 1]
    BY <2>1, SubSeqProperties
  <2>3. Len(s) - (i + 1) + 1 = Len(s) - i /\ (i + 1 <= Len(s) \/ Len(s) - i = 0)
    <3>1. \A m, n \in Int : n - (m + 1) + 1 = n - m /\ (m <= n => m + 1 <= n \/ n - m = 0)
      OBVIOUS
    <3>2. i \in Int /\ Len(s) \in Int /\ i <= Len(s)
      BY <1>1
    <3> QED
      BY <3>1, <3>2
  <2>4. Len(b) = Len(s) - i
    BY <2>2, <2>3
  <2>5. ASSUME NEW k \in 1 .. Len(s) - i PROVE b[k] = s[k + i]
    <3>1. i + 1 + k - 1 = k + i
      BY <1>1
    <3> QED
      BY <2>2, <2>3, <3>1
  <2> QED
    BY <2>2, <2>4, <2>5
<1>5. RemoveAt(s, i) = a \o b
  BY DEF RemoveAt
<1> HIDE DEF a, b
<1>6. a \o b \in Seq(S) /\ Len(a \o b) = Len(s) - 1
  <2>1. a \o b \in Seq(S) /\ Len(a \o b) = Len(a) + Len(b)
    BY <1>3, <1>4, ConcatProperties
  <2> QED
    BY <1>1, <1>3, <1>4, <2>1
<1>7. \A k \in 1 .. Len(s) - 1 : (a \o b)[k] = IF k <= i - 1 THEN s[k] ELSE s[k + 1]
  <2>1. \A k \in 1 .. Len(a) + Len(b) : (a \o b)[k] = IF k <= Len(a) THEN a[k] ELSE b[k - Len(a)]
    BY <1>3, <1>4, ConcatProperties
  <2> QED
    BY <1>1, <1>3, <1>4, <2>1
<1> DEFINE c == a \o b
<1> HIDE DEF c
<1>8. DOMAIN c = 1 .. Len(s) - 1
  BY <1>6, LenProperties DEF c
<1>9. ASSUME NEW x \in Range(c) PROVE x \in Range(s)
  <2>1. PICK k \in 1 .. Len(s) - 1 : x = IF k <= i - 1 THEN s[k] ELSE s[k + 1]
    BY <1>7, <1>8, <1>9 DEF Range, c
  <2> QED
    BY <1>1, <2>1 DEF Range
<1>10. ASSUME NEW x \in Range(s), x # s[i] PROVE x \in Range(c)
  <2>1. PICK k \in 1 .. Len(s) : x = s[k] /\ k # i
    BY <1>1, <1>10 DEF Range
  <2>2. CASE k <= i - 1
    <3>1. k \in 1 .. Len(s) - 1
      BY <1>1, <2>1, <2>2
    <3>2. c[k] = s[k]
      BY <1>7, <2>2, <3>1 DEF c
    <3> QED
      BY <1>8, <2>1, <3>1, <3>2 DEF Range
  <2>3. CASE ~(k <= i - 1)
    <3>1. PICK m \in 1 .. Len(s) - 1 : ~(m <= i - 1) /\ m + 1 = k
      <4>1. k - 1 \in 1 .. Len(s) - 1 /\ ~(k - 1 <= i - 1) /\ (k - 1) + 1 = k
        BY <1>1, <2>1, <2>3
      <4> QED
        BY <4>1
    <3>2. c[m] = s[m + 1]
      BY <1>7, <3>1 DEF c
    <3> QED
      BY <1>8, <2>1, <3>1, <3>2 DEF Range
  <2> QED
    BY <2>2, <2>3
<1> QED
  BY <1>5, <1>6, <1>9, <1>10 DEF c

LEMMA WriteBackProperties ==
  ASSUME dead \in Seq(Entries), NEW i \in Nat, NEW p \in Plays
  PROVE  /\ WriteBack(i, p) \in Seq(Entries)
         /\ Range(WriteBack(i, p)) \subseteq Range(dead) \cup {p, NoPlay}
<1> DEFINE n == IF i > Len(dead) THEN i ELSE Len(dead)
           t == WriteBack(i, p)
<1>1. Len(dead) \in Nat /\ DOMAIN dead = 1 .. Len(dead) /\ n \in Nat
      /\ \A k \in 1 .. Len(dead) : dead[k] \in Entries
  BY LenProperties, ElementOfSeq
<1>2. t = [j \in 1 .. n |-> IF j = i THEN p ELSE IF j <= Len(dead) THEN dead[j] ELSE NoPlay]
  BY DEF WriteBack
<1>3. \A j \in 1 .. n : t[j] \in Entries /\ t[j] \in Range(dead) \cup {p, NoPlay}
  BY <1>1, <1>2 DEF Entries, Range
<1>4. t \in [1 .. n -> Entries]
  BY <1>2, <1>3
<1>5. t \in Seq(Entries)
  BY <1>1, <1>4, SeqDef
<1> QED
  BY <1>2, <1>3, <1>5 DEF Range

-----------------------------------------------------------------------------
\* w goes to label with the locals j, which it is allowed to have there and which
\* hold no entry but what it held before or found in the array.
Lawful(w, label, j) ==
  /\ GoOn(w, label, j)
  /\ label \in Working \cup Awaiting /\ j \in Jobs
  /\ label \in Holding => j.entry # NoPlay
  /\ label \in {"submit", "reply"} => j.index # 0
  /\ Held(j) \subseteq Held(job[w]) \cup Range(dead) \cup {NoPlay}

LEMMA LawfulKeeps ==
  ASSUME DeadInv, NEW w \in Workers, NEW label, NEW j, Lawful(w, label, j),
         Range(dead') \subseteq Range(dead) \cup Held(job[w]) \cup {NoPlay},
         tries' \in [Plays -> Nat], apiCalls' \in Nat, retryFaults' \in Nat,
         UNCHANGED dequeued
  PROVE  WorkTypes' /\ Reported'
<1>1. /\ at' \in [Workers -> Working \cup Awaiting] /\ job' \in [Workers -> Jobs]
      /\ at'[w] = label /\ job'[w] = j
      /\ \A v \in Workers : v # w => at'[v] = at[v] /\ job'[v] = job[v]
  BY DEF Lawful, GoOn, DeadInv, WorkTypes
<1>2. WorkTypes'
  <2>1. ASSUME NEW v \in Workers
        PROVE  /\ at'[v] \in Holding => job'[v].entry # NoPlay
               /\ at'[v] \in {"submit", "reply"} => job'[v].index # 0
    <3>1. CASE v = w
      BY <1>1, <3>1 DEF Lawful
    <3>2. CASE v # w
      BY <1>1, <3>2 DEF DeadInv, WorkTypes
    <3> QED
      BY <3>1, <3>2
  <2> QED
    BY <1>1, <2>1 DEF WorkTypes
<1>3. \A v \in Workers : Held(job[v]) \subseteq dequeued \cup {NoPlay}
  BY DEF DeadInv, Reported, DeadLetters
<1>4. Range(dead) \subseteq dequeued \cup {NoPlay}
  BY DEF DeadInv, Reported, DeadLetters
<1>5. Range(dead') \subseteq dequeued \cup {NoPlay}
  BY <1>3, <1>4
<1>6. ASSUME NEW v \in Workers PROVE Held(job'[v]) \subseteq dequeued \cup {NoPlay}
  <2>1. CASE v = w
    BY <1>1, <1>3, <1>4, <2>1 DEF Lawful
  <2>2. CASE v # w
    BY <1>1, <1>3, <2>2
  <2> QED
    BY <2>1, <2>2
<1>7. Reported'
  <2>1. DeadLetters' = (Range(dead') \cup UNION {Held(job'[v]) : v \in Workers}) \ {NoPlay}
    BY DEF DeadLetters, Held
  <2> QED
    BY <1>5, <1>6, <2>1 DEF Reported
<1> QED
  BY <1>2, <1>7

\* What the workers change of the client disturbs none of the loop's invariants.
LEMMA LoopSideKept ==
  ASSUME Inv, UNCHANGED loopSide, dead' \in Seq(Entries), RecordTypes',
         accepted' \in [Plays -> Nat]
  PROVE  Inv'
<1> USE DEF loopSide, loopVars, readyVars, eventVars, boundVars
<1>1. UNCHANGED <<pc, scrobbling, queue, inflight, announced, dequeued>>
  OBVIOUS
<1>2. OneProcessor' /\ Conservation'
  BY <1>1, UnmovedKeeps
<1>3. ListTypes' /\ StateTypes' /\ PlaceTypes' /\ TaskTypes' /\ WorldTypes'
  BY DEF Entries, Inv, TypeOK, ListTypes, StateTypes, PlaceTypes, TaskTypes, WorldTypes
<1> QED
  BY <1>2, <1>3 DEF Inv, TypeOK

LEMMA ClientUnchanged ==
  ASSUME Inv, UNCHANGED vars
  PROVE  Inv'
BY NextKeepsInv

\* Locals of a worker.
LEMMA JobFacts ==
  ASSUME DeadInv, NEW w \in Workers
  PROVE  /\ job[w] \in Jobs /\ NoJob \in Jobs /\ dead \in Seq(Entries)
         /\ job[w].list \in Seq(Entries) /\ job[w].next \in Nat \ {0}
         /\ job[w].entry \in Entries /\ job[w].index \in Nat /\ job[w].todo \subseteq Plays
         /\ Held(NoJob) = {NoPlay} /\ NoPlay \notin Plays
<1>1. <<>> \in Seq(Plays \cup {NoPlay}) /\ Range(<<>>) = {}
  BY EmptySeq DEF Range
<1> QED
  BY <1>1, PlaysAssumption
     DEF DeadInv, WorkTypes, Inv, TypeOK, ListTypes, Jobs, NoJob, Entries, Held

LEMMA EndJobIsLawful ==
  ASSUME DeadInv, NEW w \in Workers, EndJob(w)
  PROVE  Lawful(w, "off", NoJob)
BY JobFacts DEF EndJob, Lawful, Working, Awaiting, Holding

-----------------------------------------------------------------------------
\* The steps of a worker that leave the client as it is.
LEMMA StartKeeps ==
  ASSUME DeadInv, NEW w \in Workers, NEW limit \in Nat, StartAll(w, limit), apiCalls' \in Nat
  PROVE  DeadInv'
<1> DEFINE j == [NoJob EXCEPT !.limit = limit, !.live = TRUE, !.todo = Processable(limit)]
           label == IF Processable(limit) = {} THEN "finish" ELSE "scan"
<1>1. Processable(limit) \subseteq Range(dead) \ {NoPlay} /\ Processable(limit) \subseteq Plays
  <2>1. Range(dead) \subseteq Entries
    BY JobFacts, ElementOfSeq, LenProperties DEF Range
  <2> QED
    BY <2>1 DEF Processable, Entries
<1>2. j \in Jobs /\ j.entry = NoPlay /\ j.list = <<>> /\ j.todo = Processable(limit)
  BY <1>1, JobFacts DEF Jobs, NoJob
<1>3. Held(j) \subseteq Range(dead) \cup {NoPlay}
  BY <1>1, <1>2, JobFacts DEF Held, NoJob
<1>4. GoOn(w, label, j) /\ label \in {"finish", "scan"}
  BY DEF StartAll
<1> HIDE DEF j, label
<1>5. Lawful(w, label, j)
  BY <1>2, <1>3, <1>4 DEF Lawful, Working, Awaiting, Holding
<1>6. UNCHANGED <<vars, tries, retryFaults>> /\ UNCHANGED <<dead, dequeued>>
  BY DEF StartAll, vars, listVars, eventVars
<1> QED
  BY <1>5, <1>6, LawfulKeeps, ClientUnchanged DEF DeadInv, WorkTypes

LEMMA RetryOneKeeps ==
  ASSUME DeadInv, NEW w \in Workers, NEW p \in Plays, RetryOne(w, p)
  PROVE  DeadInv'
<1> DEFINE j == [NoJob EXCEPT !.entry = p]
<1>1. j \in Jobs /\ j.entry = p /\ j.list = <<>> /\ j.todo = {}
  BY JobFacts DEF Jobs, NoJob
<1>2. p \in Range(dead)
  BY PlaysAssumption DEF RetryOne, FoundAt, IsHole, Range
<1>3. GoOn(w, "entry", j)
  BY DEF RetryOne
<1>4. Range(<<>>) = {}
  BY DEF Range
<1> HIDE DEF j
<1>5. Lawful(w, "entry", j)
  BY <1>1, <1>2, <1>3, <1>4, PlaysAssumption DEF Lawful, Held, Working, Awaiting, Holding
<1>6. UNCHANGED <<vars, tries, retryFaults>> /\ UNCHANGED <<dead, dequeued>> /\ apiCalls' \in Nat
  BY DEF RetryOne, ApiCall, vars, listVars, eventVars, DeadInv, WorkTypes
<1> QED
  BY <1>5, <1>6, LawfulKeeps, ClientUnchanged DEF DeadInv, WorkTypes

LEMMA ScanIsLawful ==
  ASSUME DeadInv, NEW w \in Workers, Scan(w)
  PROVE  \E label, j : Lawful(w, label, j)
<1> DEFINE array == IF job[w].live THEN dead ELSE job[w].list
           n == job[w].next
           j == [job[w] EXCEPT !.next = n + 1, !.entry = array[n]]
<1>1. /\ array \in Seq(Entries) /\ n \in Nat \ {0}
      /\ Range(array) \subseteq Held(job[w]) \cup Range(dead)
  BY JobFacts DEF Held
<1>2. CASE n > Len(array)
  <2>1. GoOn(w, "finish", job[w])
    BY <1>2 DEF Scan
  <2> QED
    BY <2>1, JobFacts DEF Lawful, Working, Awaiting, Holding
<1>3. CASE ~(n > Len(array)) /\ array[n] = NoPlay
  <2>1. EndJob(w)
    BY <1>3 DEF Scan
  <2> QED
    BY <2>1, EndJobIsLawful
<1>4. CASE ~(n > Len(array)) /\ array[n] # NoPlay
  <2>1. PICK label \in {"entry", "scan"} : GoOn(w, label, j)
    BY <1>4 DEF Scan
  <2>2. array[n] \in Range(array) /\ array[n] \in Entries
    BY <1>1, <1>4, ElementOfSeq, LenProperties DEF Range
  <2>3. j \in Jobs /\ j.entry = array[n] /\ j.list = job[w].list /\ j.todo = job[w].todo
    <3>1. n + 1 \in Nat \ {0} /\ job[w] \in Jobs
      BY <1>1, JobFacts
    <3> HIDE DEF array, n
    <3> QED
      BY <2>2, <3>1 DEF Jobs, Entries
  <2> HIDE DEF array, j
  <2>4. Held(j) \subseteq Held(job[w]) \cup Range(dead)
    <3>1. Held(j) = {array[n]} \cup Range(job[w].list) \cup job[w].todo
      BY <2>3 DEF Held
    <3> QED
      BY <1>1, <2>2, <3>1 DEF Held
  <2> QED
    BY <1>4, <2>1, <2>3, <2>4 DEF Lawful, Working, Awaiting, Holding
<1> QED
  BY <1>2, <1>3, <1>4

LEMMA EntryIsLawful ==
  ASSUME DeadInv, NEW w \in Workers, Entry(w)
  PROVE  \E label, j : Lawful(w, label, j)
<1>1. PICK i \in 0 .. Len(dead) :
        IF IsHole(i) THEN EndJob(w)
        ELSE GoOn(w, IF ~ready THEN "scan" ELSE IF Behind THEN "fetch" ELSE "judge",
                  [job[w] EXCEPT !.index = i, !.todo = @ \ {job[w].entry}])
  BY DEF Entry
<1>2. CASE IsHole(i)
  BY <1>1, <1>2, EndJobIsLawful
<1>3. CASE ~IsHole(i)
  <2> DEFINE j == [job[w] EXCEPT !.index = i, !.todo = @ \ {job[w].entry}]
  <2>1. PICK label \in {"scan", "fetch", "judge"} : GoOn(w, label, j)
    BY <1>1, <1>3
  <2>2. i \in Nat
    BY JobFacts, LenProperties
  <2>3. /\ j \in Jobs /\ j.entry = job[w].entry /\ j.list = job[w].list
        /\ j.todo \subseteq job[w].todo
    BY <2>2, JobFacts DEF Jobs
  <2>4. Held(j) \subseteq Held(job[w]) /\ job[w].entry # NoPlay
    BY <2>3 DEF Held, Entry, DeadInv, WorkTypes, Holding
  <2> HIDE DEF j
  <2> QED
    BY <2>1, <2>3, <2>4 DEF Lawful, Working, Awaiting, Holding
<1> QED
  BY <1>2, <1>3

LEMMA FetchAnsweredIsLawful ==
  ASSUME DeadInv, NEW w \in Workers, FetchAnswered(w)
  PROVE  \E label, j : Lawful(w, label, j)
<1>1. PICK S \in Latest(MaxStored) : GoOn(w, "fetch", [job[w] EXCEPT !.answer = S])
  BY DEF FetchAnswered
<1> DEFINE j == [job[w] EXCEPT !.answer = S]
<1>2. S \in SUBSET Plays
  BY DEF Latest, Upstream
<1>3. /\ j \in Jobs /\ j.entry = job[w].entry /\ j.list = job[w].list /\ j.todo = job[w].todo
  BY <1>2, JobFacts DEF Jobs
<1>4. Held(j) = Held(job[w]) /\ job[w].entry # NoPlay
  BY <1>3 DEF Held, FetchAnswered, DeadInv, WorkTypes, Holding
<1> HIDE DEF j
<1>5. GoOn(w, "fetch", j)
  BY <1>1 DEF j
<1> QED
  BY <1>3, <1>4, <1>5 DEF Lawful, Working, Awaiting, Holding

LEMMA QuietWorkKeeps ==
  ASSUME DeadInv, NEW w \in Workers,
         Scan(w) \/ Entry(w) \/ FetchAnswered(w) \/ FetchFails(w) \/ RestOver(w)
  PROVE  DeadInv'
<1>1. UNCHANGED <<vars, tries, apiCalls>> /\ (RetryFault \/ UNCHANGED retryFaults)
  <2>1. CASE Scan(w) \/ Entry(w) \/ FetchAnswered(w)
    BY <2>1 DEF Scan, Entry, FetchAnswered
  <2>2. CASE FetchFails(w) \/ RestOver(w)
    BY <2>2 DEF FetchFails, RestOver
  <2> QED
    BY <2>1, <2>2
<1>0. UNCHANGED <<dead, dequeued>> /\ apiCalls' \in Nat /\ retryFaults' \in Nat
  BY <1>1 DEF RetryFault, vars, listVars, eventVars, DeadInv, WorkTypes
<1>2. RestOver(w) => Lawful(w, "scan", job[w])
  BY JobFacts DEF RestOver, Lawful, Working, Awaiting, Holding
<1>3. PICK label, j : Lawful(w, label, j)
  BY <1>2, ScanIsLawful, EntryIsLawful, FetchAnsweredIsLawful, EndJobIsLawful DEF FetchFails
<1>4. WorkTypes' /\ Reported'
  BY <1>0, <1>1, <1>3, LawfulKeeps DEF DeadInv, WorkTypes
<1>5. Inv'
  BY <1>1, ClientUnchanged DEF DeadInv
<1> QED
  BY <1>4, <1>5 DEF DeadInv

-----------------------------------------------------------------------------
\* The steps of a worker that change what the client knows of its scrobbles.
LEMMA FetchReturnsKeeps ==
  ASSUME DeadInv, NEW w \in Workers, FetchReturns(w)
  PROVE  DeadInv'
<1> DEFINE j == [job[w] EXCEPT !.answer = Unanswered]
<1>1. /\ j \in Jobs /\ j.entry = job[w].entry /\ j.list = job[w].list /\ j.todo = job[w].todo
      /\ j.index = job[w].index /\ job[w].answer \in (SUBSET Plays) \cup {Unanswered}
  BY JobFacts DEF Jobs
<1>2. GoOn(w, "judge", j) /\ job[w].entry # NoPlay
  BY DEF FetchReturns, DeadInv, WorkTypes, Holding
<1> HIDE DEF j
<1>3. Held(j) = Held(job[w])
  BY <1>1 DEF Held
<1>4. Lawful(w, "judge", j)
  BY <1>1, <1>2, <1>3 DEF Lawful, Working, Awaiting, Holding
<1>5. UNCHANGED <<loopSide, dead, tracksScrobbled, lastDate, accepted, tries, apiCalls, retryFaults>>
      /\ UNCHANGED dequeued
  BY DEF FetchReturns, loopSide, eventVars
<1>6. WorkTypes' /\ Reported'
  BY <1>4, <1>5, LawfulKeeps DEF DeadInv, WorkTypes
<1>7. RecordTypes'
  <2>1. Refresh(job[w].answer)
    BY DEF FetchReturns
  <2> QED
    BY <1>1, <1>5, <2>1, RefreshTypes DEF DeadInv, Inv, TypeOK, RecordTypes
<1>8. Inv'
  BY <1>5, <1>7, JobFacts, LoopSideKept DEF DeadInv, Inv, TypeOK, WorldTypes
<1> QED
  BY <1>6, <1>8 DEF DeadInv

LEMMA RemoveEntryIsLawful ==
  ASSUME DeadInv, NEW w \in Workers, RemoveEntry(w)
  PROVE  /\ \E label, j : Lawful(w, label, j)
         /\ dead' \in Seq(Entries) /\ Range(dead') \subseteq Range(dead)
<1>1. PICK i \in 0 .. Len(dead) :
        IF i = 0 \/ IsHole(i)
        THEN EndJob(w) /\ UNCHANGED dead
        ELSE GoOn(w, "scan", job[w]) /\ dead' = RemoveAt(dead, i)
  BY DEF RemoveEntry
<1>2. CASE i = 0 \/ IsHole(i)
  BY <1>1, <1>2, EndJobIsLawful, JobFacts
<1>3. CASE ~(i = 0 \/ IsHole(i))
  <2>1. i \in 1 .. Len(dead)
    BY <1>3, JobFacts, LenProperties
  <2>2. dead' \in Seq(Entries) /\ Range(dead') \subseteq Range(dead)
    BY <1>1, <1>3, <2>1, JobFacts, RemoveAtProperties
  <2>3. Lawful(w, "scan", job[w])
    BY <1>1, <1>3, JobFacts DEF Lawful, Working, Awaiting, Holding
  <2> QED
    BY <2>2, <2>3
<1> QED
  BY <1>2, <1>3

LEMMA JudgeKeeps ==
  ASSUME DeadInv, NEW w \in Workers, Judge(w) \/ PauseOver(w)
  PROVE  DeadInv'
<1>1. /\ UNCHANGED <<loopSide, recordVars, refreshVars, accepted, tries, apiCalls, retryFaults>>
      /\ UNCHANGED dequeued
  BY DEF Judge, PauseOver, loopSide, eventVars
<1>2. /\ \E label, j : Lawful(w, label, j)
      /\ dead' \in Seq(Entries) /\ Range(dead') \subseteq Range(dead)
  <2>1. CASE RemoveEntry(w)
    BY <2>1, RemoveEntryIsLawful
  <2>2. CASE EndJob(w) /\ UNCHANGED dead
    BY <2>2, EndJobIsLawful, JobFacts
  <2>3. CASE at[w] = "judge" /\ ~IsGone(w) /\ GoOn(w, "submit", job[w]) /\ UNCHANGED dead
    BY <2>3, JobFacts
       DEF Lawful, IsGone, Working, Awaiting, Holding, DeadInv, WorkTypes
  <2> QED
    BY <2>1, <2>2, <2>3 DEF Judge, PauseOver
<1>3. WorkTypes' /\ Reported'
  BY <1>1, <1>2, LawfulKeeps DEF DeadInv, WorkTypes
<1>4. Inv'
  BY <1>1, <1>2, LoopSideKept
     DEF DeadInv, Inv, TypeOK, WorldTypes, RecordTypes, recordVars, refreshVars
<1> QED
  BY <1>3, <1>4 DEF DeadInv

LEMMA RetryEndKeeps ==
  ASSUME DeadInv, NEW w \in Workers, RetryAccepted(w) \/ RetrySucceeds(w) \/ RetryFails(w)
  PROVE  DeadInv'
<1> DEFINE p == job[w].entry
<1>1. /\ p \in Plays /\ job[w].index \in Nat \ {0} /\ job[w] \in Jobs
      /\ p \in Held(job[w])
  BY JobFacts DEF RetryAccepted, RetrySucceeds, RetryFails, DeadInv, WorkTypes, Holding, Entries, Held
<1>2. UNCHANGED <<loopSide, apiCalls, dequeued, refreshVars>>
  BY DEF RetryAccepted, RetrySucceeds, RetryFails, loopSide, eventVars
<1>3. \E label, j : Lawful(w, label, j)
  <2>1. PICK label \in {"reply", "pause", "rest"} : GoOn(w, label, job[w])
    BY DEF RetryAccepted, RetrySucceeds, RetryFails
  <2> QED
    BY <1>1, <2>1, PlaysAssumption DEF Lawful, Working, Awaiting, Holding
<1>4. tries' \in [Plays -> Nat] /\ retryFaults' \in Nat /\ accepted' \in [Plays -> Nat]
  <2>1. tries \in [Plays -> Nat] /\ retryFaults \in Nat /\ accepted \in [Plays -> Nat]
    BY DEF DeadInv, WorkTypes, Inv, TypeOK, WorldTypes
  <2>2. CASE RetryAccepted(w)
    BY <1>1, <2>1, <2>2 DEF RetryAccepted
  <2>3. CASE RetrySucceeds(w)
    BY <2>1, <2>3 DEF RetrySucceeds
  <2>4. CASE RetryFails(w)
    BY <1>1, <2>1, <2>4 DEF RetryFails, RetryFault
  <2> QED
    BY <2>2, <2>3, <2>4
<1>5. dead' \in Seq(Entries) /\ Range(dead') \subseteq Range(dead) \cup {p, NoPlay}
  <2>1. CASE RetryFails(w)
    BY <1>1, <2>1, JobFacts, WriteBackProperties DEF RetryFails
  <2>2. CASE UNCHANGED dead
    BY <2>2, JobFacts
  <2> QED
    BY <2>1, <2>2 DEF RetryAccepted, RetrySucceeds
<1>6. RecordTypes'
  <2>1. CASE RetrySucceeds(w)
    <3>1. Record(p) /\ Date[p] \in Nat
      BY <1>1, <2>1, PlaysAssumption DEF RetrySucceeds
    <3> QED
      BY <1>1, <1>2, <3>1 DEF Record, refreshVars, DeadInv, Inv, TypeOK, RecordTypes
  <2>2. CASE UNCHANGED recordVars
    BY <1>2, <2>2 DEF recordVars, refreshVars, DeadInv, Inv, TypeOK, RecordTypes
  <2> QED
    BY <2>1, <2>2 DEF RetryAccepted, RetryFails
<1> HIDE DEF p
<1>7. WorkTypes' /\ Reported'
  BY <1>1, <1>2, <1>3, <1>4, <1>5, LawfulKeeps DEF DeadInv, WorkTypes
<1>8. Inv'
  BY <1>2, <1>4, <1>5, <1>6, LoopSideKept DEF DeadInv
<1> QED
  BY <1>7, <1>8 DEF DeadInv

-----------------------------------------------------------------------------
\* The end of a worker; that of the heartbeat may start the loop again.
LEMMA RestartKeeps ==
  ASSUME Inv, Restart, UNCHANGED requests
  PROVE  Inv'
<1>1. PICK r \in Runners : pc[r] = "idle" /\ InitScrobbleMonitoring(r, FALSE)
  BY DEF Restart
<1>2. PICK label \in {"start", "idle", "init"} : Goto(r, label)
  BY <1>1 DEF InitScrobbleMonitoring
<1>3. UNCHANGED <<listVars, recordVars, refreshVars, scrobbling, stopSignal, ready, eventVars,
                  boundVars, inflight, window, worldVars>>
  BY <1>1 DEF InitScrobbleMonitoring, boundVars
<1>4. pc[r] \notin Processing /\ label \in Running \cup Waiting /\ label \notin Processing
  BY <1>1 DEF Processing, Running, Waiting
<1>5. UNCHANGED <<scrobbling, queue, inflight, announced, dequeued>>
  BY <1>3 DEF listVars, eventVars
<1>6. OneProcessor' /\ Conservation'
  BY <1>2, <1>4, <1>5, OutsideIsQuiet, QuietKeeps
<1>7. StateTypes'
  <2>1. CASE ready
    BY <1>1, <2>1 DEF InitScrobbleMonitoring, Inv, TypeOK, StateTypes
  <2>2. CASE ~ready
    BY <1>1, <2>2 DEF InitScrobbleMonitoring, Inv, TypeOK, StateTypes
  <2> QED
    BY <2>1, <2>2
<1>8. PlaceTypes'
  BY <1>2, <1>4 DEF Goto, Inv, TypeOK, PlaceTypes
<1>9. ListTypes' /\ RecordTypes' /\ TaskTypes' /\ WorldTypes'
  BY <1>3 DEF listVars, recordVars, refreshVars, eventVars, boundVars, worldVars,
              Inv, TypeOK, ListTypes, RecordTypes, TaskTypes, WorldTypes
<1> QED
  BY <1>6, <1>7, <1>8, <1>9 DEF Inv, TypeOK

LEMMA FinishKeeps ==
  ASSUME DeadInv, NEW w \in Workers, Finish(w)
  PROVE  DeadInv'
<1>1. Lawful(w, "off", NoJob) /\ UNCHANGED <<tries, apiCalls, retryFaults>>
  BY EndJobIsLawful DEF Finish
<1>2. (Restart /\ UNCHANGED requests) \/ UNCHANGED vars
  BY DEF Finish
<1>3. Inv'
  BY <1>2, RestartKeeps, ClientUnchanged DEF DeadInv
<1>4. UNCHANGED <<dead, dequeued>>
  <2>1. CASE Restart
    BY <2>1 DEF Restart, InitScrobbleMonitoring, listVars, eventVars
  <2>2. CASE UNCHANGED vars
    BY <2>2 DEF vars, listVars, eventVars
  <2> QED
    BY <1>2, <2>1, <2>2
<1>5. WorkTypes' /\ Reported'
  BY <1>1, <1>4, LawfulKeeps DEF DeadInv, WorkTypes
<1> QED
  BY <1>3, <1>5 DEF DeadInv

-----------------------------------------------------------------------------
\* The API and the restart of the process.
LEMMA DeleteOneKeeps ==
  ASSUME DeadInv, NEW p \in Plays, DeleteOne(p)
  PROVE  DeadInv'
<1>1. PICK i \in 1 .. Len(dead) : dead' = RemoveAt(dead, i)
  BY JobFacts, LenProperties DEF DeleteOne, DeadInv, Inv, TypeOK, ListTypes, Entries
<1>2. dead \in Seq(Entries)
  BY DEF DeadInv, Inv, TypeOK, ListTypes, Entries
<1>3. dead' \in Seq(Entries) /\ Range(dead') \subseteq Range(dead)
  BY <1>1, <1>2, RemoveAtProperties
<1>4. /\ UNCHANGED <<loopSide, recordVars, refreshVars, accepted, tries, at, job, retryFaults>>
      /\ UNCHANGED dequeued /\ apiCalls' \in Nat
  BY DEF DeleteOne, ApiCall, loopSide, eventVars, DeadInv, WorkTypes
<1>5. Inv'
  BY <1>3, <1>4, LoopSideKept
     DEF DeadInv, Inv, TypeOK, WorldTypes, RecordTypes, recordVars, refreshVars
<1>6. WorkTypes'
  BY <1>4 DEF DeadInv, WorkTypes
<1>7. Reported'
  BY <1>3, <1>4 DEF DeadInv, Reported, DeadLetters, Held
<1> QED
  BY <1>5, <1>6, <1>7 DEF DeadInv

LEMMA DeleteAllKeeps ==
  ASSUME DeadInv, DeleteAll
  PROVE  DeadInv'
<1>1. dead \in Seq(Entries) /\ dead' \in Seq(Entries) /\ Range(dead') = {}
  <2>1. <<>> \in Seq(Entries) /\ Range(<<>>) = {}
    BY EmptySeq DEF Range
  <2>2. dead' = <<>>
    BY DEF DeleteAll
  <2> QED
    BY <2>1, <2>2 DEF DeadInv, Inv, TypeOK, ListTypes, Entries
<1>2. /\ UNCHANGED <<loopSide, recordVars, refreshVars, accepted, tries, at, retryFaults>>
      /\ UNCHANGED dequeued /\ apiCalls' \in Nat
  <2>1. UNCHANGED <<loopSide, recordVars, refreshVars, accepted, tries, at, retryFaults>>
    BY DEF DeleteAll
  <2>2. UNCHANGED dequeued
    BY <2>1 DEF loopSide, eventVars
  <2>3. apiCalls' = apiCalls + 1
    BY DEF DeleteAll, ApiCall
  <2> QED
    BY <2>1, <2>2, <2>3 DEF DeadInv, WorkTypes
<1>3. Inv'
  BY <1>1, <1>2, LoopSideKept
     DEF DeadInv, Inv, TypeOK, WorldTypes, RecordTypes, recordVars, refreshVars
<1>4. ASSUME NEW w \in Workers
      PROVE  /\ job'[w] \in Jobs /\ job'[w].entry = job[w].entry /\ job'[w].index = job[w].index
             /\ Held(job'[w]) \subseteq Held(job[w]) \cup Range(dead)
  <2>1. CASE job[w].live
    <3> DEFINE j == [job[w] EXCEPT !.live = FALSE, !.list = dead]
    <3>1. job'[w] = j
      BY <2>1 DEF DeleteAll
    <3>2. /\ j \in Jobs /\ j.entry = job[w].entry /\ j.index = job[w].index /\ j.list = dead
          /\ j.todo = job[w].todo
      BY <1>1, JobFacts DEF Jobs, Entries
    <3> HIDE DEF j
    <3>3. Held(j) = {job[w].entry} \cup Range(dead) \cup job[w].todo
      BY <3>2 DEF Held
    <3> QED
      BY <3>1, <3>2, <3>3 DEF Held
  <2>2. CASE ~job[w].live
    <3>1. job'[w] = job[w]
      BY <2>2 DEF DeleteAll
    <3> QED
      BY <3>1, JobFacts
  <2> QED
    BY <2>1, <2>2
<1>5. WorkTypes'
  <2>1. job' \in [Workers -> Jobs]
    BY <1>4 DEF DeleteAll
  <2> QED
    BY <1>2, <1>4, <2>1 DEF DeadInv, WorkTypes
<1>6. Reported'
  <2>1. \A w \in Workers : Held(job'[w]) \subseteq dequeued \cup {NoPlay}
    BY <1>4 DEF DeadInv, Reported, DeadLetters
  <2>2. DeadLetters' = (Range(dead') \cup UNION {Held(job'[w]) : w \in Workers}) \ {NoPlay}
    BY DEF DeadLetters, Held
  <2> QED
    BY <1>1, <1>2, <2>1, <2>2 DEF Reported
<1> QED
  BY <1>3, <1>5, <1>6 DEF DeadInv

LEMMA DeadCrashKeeps ==
  ASSUME DeadInv, Yielded, DeadCrash
  PROVE  DeadInv'
<1>1. Crash /\ Inv'
  BY NextKeepsInv DEF DeadCrash, DeadInv, Next
<1>2. NoJob \in Jobs /\ Held(NoJob) = {NoPlay}
  <2>1. <<>> \in Seq(Plays \cup {NoPlay}) /\ Range(<<>>) = {}
    BY EmptySeq DEF Range
  <2> QED
    BY <2>1 DEF Jobs, NoJob, Held
<1>3. WorkTypes'
  BY <1>2 DEF DeadCrash, DeadInv, WorkTypes, Working, Awaiting, Holding
<1>4. \A w \in Workers : Held(job'[w]) = {NoPlay}
  BY <1>2 DEF DeadCrash
<1>5. Range(dead') = {}
  BY <1>1 DEF Crash, Range
<1>6. DeadLetters' = (Range(dead') \cup UNION {Held(job'[w]) : w \in Workers}) \ {NoPlay}
  BY DEF DeadLetters, Held
<1>7. DeadLetters' = {}
  BY <1>4, <1>5, <1>6
<1> QED
  BY <1>1, <1>3, <1>7 DEF DeadInv, Reported

-----------------------------------------------------------------------------
\* The loop reports a play as dequeued before it is a dead letter, and takes no
\* report back.
LEMMA LoopReports ==
  ASSUME Inv, NEW r \in Runners, Run(r) \/ Resume(r)
  PROVE  dequeued \subseteq dequeued' /\ Range(dead') \subseteq Range(dead) \cup dequeued'
<1> USE DEF ReportDequeued, listVars, eventVars
<1>1. CASE DeadLetter(r)
  <2> DEFINE a == Append(dead, inflight[r])
  <2>1. inflight[r] \in Plays /\ dead \in Seq(Entries)
    BY <1>1, InFlightIsPlay DEF DeadLetter, ScrobbleFails, Inv, TypeOK, ListTypes, Entries
  <2>2. a \in Seq(Entries) /\ Range(a) \subseteq Range(dead) \cup {inflight[r]}
    <3>1. /\ a \in Seq(Entries) /\ Len(a) = Len(dead) + 1 /\ Len(dead) \in Nat
          /\ DOMAIN a = 1 .. Len(dead) + 1 /\ DOMAIN dead = 1 .. Len(dead)
          /\ a[Len(dead) + 1] = inflight[r] /\ \A i \in 1 .. Len(dead) : a[i] = dead[i]
      BY <2>1, AppendProperties, LenProperties DEF Entries
    <3> HIDE DEF a
    <3> QED
      BY <3>1 DEF Range
  <2>3. Range(dead') = Range(a)
    BY <1>1, <2>2, SortingsProperties DEF DeadLetter
  <2>4. dequeued' = dequeued \cup {inflight[r]}
    BY <1>1 DEF DeadLetter
  <2> QED
    BY <2>2, <2>3, <2>4
<1>2. CASE Take(r) \/ ScrobbleSucceeds(r)
  BY <1>2 DEF Take, ScrobbleSucceeds
<1>3. CASE UNCHANGED <<dead, dequeued>>
  BY <1>3
<1> QED
  BY <1>1, <1>2, <1>3
     DEF Run, Resume, HeartbeatInit, StopTimedOut, StopAcknowledged, InitScrobbleMonitoring,
         UpstreamAnswers, StagesSucceed, InitSucceeds, InitFails, EnterProcessing, OuterLoop,
         InnerLoop, WakeUp, RefreshReturns, RefreshFails, UpstreamAccepts, PutBack, CatchError,
         BackoffOver

\* A step of the client alone.
ClientStep ==
  \/ \E r \in Runners : Run(r) \/ Resume(r) \/ HeartbeatInit(r)
  \/ \E p \in Plays : QueueScrobble(p)
  \/ Request \/ Tick

LEMMA ClientKeeps ==
  ASSUME DeadInv, Next, ClientStep, UNCHANGED workVars
  PROVE  DeadInv'
<1>1. Inv'
  BY NextKeepsInv DEF DeadInv
<1>2. dequeued \subseteq dequeued' /\ Range(dead') \subseteq Range(dead) \cup dequeued'
  <2>1. CASE \E r \in Runners : Run(r) \/ Resume(r)
    BY <2>1, LoopReports DEF DeadInv
  <2>2. CASE \/ \E r \in Runners : HeartbeatInit(r)
             \/ \E p \in Plays : QueueScrobble(p)
             \/ Request \/ Tick
    BY <2>2 DEF HeartbeatInit, QueueScrobble, Request, RequestStop, RequestStart,
                InitScrobbleMonitoring, Tick, listVars, eventVars
  <2> QED
    BY <2>1, <2>2 DEF ClientStep
<1>3. WorkTypes'
  BY DEF workVars, DeadInv, WorkTypes
<1>4. Reported'
  BY <1>2 DEF workVars, DeadInv, Reported, DeadLetters, Held
<1> QED
  BY <1>1, <1>3, <1>4 DEF DeadInv

-----------------------------------------------------------------------------
LEMMA DeadInitEstablishes ==
  ASSUME DeadInit
  PROVE  DeadInv
<1>1. Inv
  BY InitEstablishesInv DEF DeadInit
<1>2. NoJob \in Jobs /\ Held(NoJob) = {NoPlay} /\ Range(<<>>) = {}
  <2>1. <<>> \in Seq(Plays \cup {NoPlay}) /\ Range(<<>>) = {}
    BY EmptySeq DEF Range
  <2> QED
    BY <2>1 DEF Jobs, NoJob, Held
<1>3. WorkTypes
  BY <1>2 DEF DeadInit, WorkTypes, Working, Awaiting, Holding
<1>4. \A w \in Workers : Held(job[w]) = {NoPlay}
  BY <1>2 DEF DeadInit
<1>5. DeadLetters = {}
  BY <1>2, <1>4 DEF DeadInit, Init, DeadLetters
<1> QED
  BY <1>1, <1>3, <1>5 DEF DeadInv, Reported

LEMMA DeadNextKeeps ==
  ASSUME DeadInv, [DeadNext]_deadVars
  PROVE  DeadInv'
<1>1. ASSUME NEW r \in Runners, Run(r), UNCHANGED workVars PROVE DeadInv'
  BY <1>1, ClientKeeps DEF Next, ClientStep
<1>2. ASSUME NEW w \in Workers, Work(w) PROVE DeadInv'
  BY <1>2, QuietWorkKeeps, JudgeKeeps, FinishKeeps DEF Work
<1>3. ASSUME NEW w \in Workers, Await(w) PROVE DeadInv'
  BY <1>3, QuietWorkKeeps, FetchReturnsKeeps, RetryEndKeeps, JudgeKeeps DEF Await
<1>4. ASSUME Yielded, UNCHANGED workVars,
             \/ \E p \in Plays : QueueScrobble(p)
             \/ \E r \in Runners : Resume(r)
             \/ Request \/ Tick
      PROVE  DeadInv'
  <2>1. Next /\ ClientStep
    BY <1>4 DEF Next, ClientStep
  <2> QED
    BY <1>4, <2>1, ClientKeeps
<1>5. ASSUME Yielded, DeadHeartbeat PROVE DeadInv'
  <2>1. CASE HeartbeatDead
    <3>1. StartAll(Heart, DeadRetries) /\ apiCalls' \in Nat
      BY <2>1 DEF HeartbeatDead, DeadInv, WorkTypes
    <3> QED
      BY <3>1, DeadAssumption, StartKeeps
  <2>2. CASE (\E r \in Runners : HeartbeatInit(r)) /\ UNCHANGED workVars
    <3>1. Next /\ ClientStep
      BY <1>5, <2>2 DEF Next, Heartbeat, ClientStep
    <3> QED
      BY <2>2, <3>1, ClientKeeps
  <2> QED
    BY <1>5, <2>1, <2>2 DEF DeadHeartbeat
<1>6. ASSUME Api PROVE DeadInv'
  <2>1. ASSUME NEW w \in Workers, RetryAll(w) PROVE DeadInv'
    <3>1. StartAll(w, EveryEntry) /\ apiCalls' \in Nat /\ EveryEntry \in Nat
      BY <2>1 DEF RetryAll, ApiCall, EveryEntry, DeadInv, WorkTypes
    <3> QED
      BY <3>1, StartKeeps
  <2> QED
    BY <1>6, <2>1, RetryOneKeeps, DeleteOneKeeps, DeleteAllKeeps DEF Api
<1>7. CASE UNCHANGED deadVars
  <2>1. Inv'
    BY <1>7, ClientUnchanged DEF deadVars, DeadInv
  <2>2. WorkTypes'
    BY <1>7 DEF deadVars, workVars, DeadInv, WorkTypes
  <2>3. Reported'
    BY <1>7 DEF deadVars, vars, listVars, eventVars, workVars, DeadInv, Reported, DeadLetters, Held
  <2> QED
    BY <2>1, <2>2, <2>3 DEF DeadInv
<1> QED
  BY <1>1, <1>2, <1>3, <1>4, <1>5, <1>6, <1>7, DeadCrashKeeps DEF DeadNext, Idle

LEMMA DeadInvariance == DeadSpec => []DeadInv
<1>1. DeadInit => DeadInv
  BY DeadInitEstablishes
<1>2. DeadInv /\ [DeadNext]_deadVars => DeadInv'
  BY DeadNextKeeps
<1> QED
  BY <1>1, <1>2, PTL DEF DeadSpec

\* Every variable of the client and of the workers always has its type; a worker that
\* submits has an entry, and the index it found that entry at.
THEOREM DeadTypeCorrect == DeadSpec => []DeadTypeOK
<1>1. DeadInv => DeadTypeOK
  BY DEF DeadInv, Inv, DeadTypeOK
<1> QED
  BY <1>1, DeadInvariance, PTL

\* Heartbeat, API and loop add, retry, write back and delete entries in any order: no
\* dead letter is in the queue or being submitted by the loop as well.
THEOREM DeadLettersSettledAlways == DeadSpec => []DeadLettersSettled
<1>1. DeadInv => DeadLettersSettled
  BY DEF DeadInv, Reported, DeadLettersSettled, Inv, Conservation, EachPlayOnce
<1> QED
  BY <1>1, DeadInvariance, PTL

\* The workers do not disturb the loop: with them there is still at most one
\* doProcessing, and no play is lost or left to be processed twice.
THEOREM LoopUndisturbed == DeadSpec => [](OneProcessor /\ Conservation)
<1>1. DeadInv => OneProcessor /\ Conservation
  BY DEF DeadInv, Inv
<1> QED
  BY <1>1, DeadInvariance, PTL

-----------------------------------------------------------------------------
\* No call of the API is at work: only the heartbeat processes dead letters.
HeartAlone == \A w \in Workers \ {Heart} : at[w] = "off"

\* The entry the heartbeat holds had a retry left when it was read from the array,
\* and nobody has retried it since.
HeartInv ==
  /\ TriesBounded
  /\ job[Heart].limit <= DeadRetries
  /\ at[Heart] \in Holding => tries[job[Heart].entry] < DeadRetries

LEMMA HeartFacts ==
  ASSUME DeadInv
  PROVE  /\ Heart \in Workers /\ DeadRetries \in Nat /\ tries \in [Plays -> Nat]
         /\ at \in [Workers -> Working \cup Awaiting] /\ job \in [Workers -> Jobs]
         /\ \A w \in Workers : /\ job[w].limit \in Nat /\ job[w].entry \in Entries
                               /\ at[w] \in Holding => job[w].entry \in Plays
         /\ NoJob.limit = 0
BY DeadAssumption, JobFacts DEF DeadInv, WorkTypes, Jobs, NoJob, Entries

\* The heartbeat goes on with locals that keep the invariant.
LEMMA HeartGoesOn ==
  ASSUME DeadInv, HeartInv, UNCHANGED tries, NEW label, NEW j, GoOn(Heart, label, j),
         j.limit <= DeadRetries, label \in Holding => tries[j.entry] < DeadRetries
  PROVE  HeartInv'
<1>1. at'[Heart] = label /\ job'[Heart] = j
  BY HeartFacts DEF GoOn
<1> QED
  BY <1>1 DEF HeartInv, TriesBounded

\* What others do to the client or to the array leaves it alone.
LEMMA HeartStays ==
  ASSUME DeadInv, HeartInv, UNCHANGED tries, at'[Heart] = at[Heart],
         job'[Heart].limit = job[Heart].limit, job'[Heart].entry = job[Heart].entry
  PROVE  HeartInv'
BY DEF HeartInv, TriesBounded

LEMMA HeartScans ==
  ASSUME DeadInv, HeartInv, Scan(Heart)
  PROVE  HeartInv'
<1> DEFINE array == IF job[Heart].live THEN dead ELSE job[Heart].list
           n == job[Heart].next
           j == [job[Heart] EXCEPT !.next = n + 1, !.entry = array[n]]
<1>1. UNCHANGED tries
  BY DEF Scan
<1>2. CASE GoOn(Heart, "finish", job[Heart]) \/ EndJob(Heart)
  BY <1>1, <1>2, HeartFacts, HeartGoesOn DEF HeartInv, EndJob, Holding
<1>3. CASE /\ array[n] # NoPlay /\ ~(n > Len(array))
           /\ GoOn(Heart, IF HasRetries(array[n], job[Heart].limit) THEN "entry" ELSE "scan", j)
  <2>1. array \in Seq(Entries) /\ n \in Nat \ {0}
    BY JobFacts, HeartFacts
  <2>2. array[n] \in Plays
    BY <1>3, <2>1, ElementOfSeq, LenProperties DEF Entries
  <2>3. j.limit = job[Heart].limit /\ j.entry = array[n]
    BY HeartFacts DEF Jobs
  <2> HIDE DEF array, n, j
  <2>4. CASE HasRetries(array[n], job[Heart].limit)
    <3>1. tries[array[n]] < DeadRetries
      BY <2>2, <2>4, HeartFacts DEF HasRetries, HeartInv
    <3>2. GoOn(Heart, "entry", j)
      BY <1>3, <2>4
    <3> QED
      BY <1>1, <2>3, <3>1, <3>2, HeartGoesOn DEF HeartInv
  <2>5. CASE ~HasRetries(array[n], job[Heart].limit)
    <3>1. GoOn(Heart, "scan", j)
      BY <1>3, <2>5
    <3> QED
      BY <1>1, <2>3, <3>1, HeartGoesOn DEF HeartInv, Holding
  <2> QED
    BY <2>4, <2>5
<1> QED
  BY <1>2, <1>3 DEF Scan
LEMMA HeartWorks ==
  ASSUME DeadInv, HeartInv, Work(Heart) \/ Await(Heart)
  PROVE  HeartInv'
<1>1. CASE Scan(Heart)
  BY <1>1, HeartScans
<1>2. CASE Entry(Heart)
  <2>1. UNCHANGED tries /\ at[Heart] = "entry"
    BY <1>2 DEF Entry
  <2>2. tries[job[Heart].entry] < DeadRetries
    BY <2>1 DEF HeartInv, Holding
  <2>3. PICK i \in 0 .. Len(dead) :
          \/ EndJob(Heart)
          \/ \E label : GoOn(Heart, label, [job[Heart] EXCEPT !.index = i,
                                                              !.todo = @ \ {job[Heart].entry}])
    BY <1>2 DEF Entry
  <2>4. CASE EndJob(Heart)
    BY <2>1, <2>4, HeartFacts, HeartGoesOn DEF EndJob, Holding
  <2>5. CASE ~EndJob(Heart)
    <3> DEFINE j == [job[Heart] EXCEPT !.index = i, !.todo = @ \ {job[Heart].entry}]
    <3>1. PICK label : GoOn(Heart, label, j)
      BY <2>3, <2>5
    <3>2. j.limit = job[Heart].limit /\ j.entry = job[Heart].entry
      BY HeartFacts DEF Jobs
    <3> HIDE DEF j
    <3> QED
      BY <2>1, <2>2, <3>1, <3>2, HeartGoesOn DEF HeartInv
  <2> QED
    BY <2>4, <2>5
<1>3. CASE FetchAnswered(Heart) \/ FetchReturns(Heart)
  <2>1. UNCHANGED tries /\ at[Heart] = "fetch"
    BY <1>3 DEF FetchAnswered, FetchReturns
  <2>2. PICK answer, label : GoOn(Heart, label, [job[Heart] EXCEPT !.answer = answer])
    BY <1>3 DEF FetchAnswered, FetchReturns
  <2> DEFINE j == [job[Heart] EXCEPT !.answer = answer]
  <2>3. j.limit = job[Heart].limit /\ j.entry = job[Heart].entry
    BY HeartFacts DEF Jobs
  <2>4. GoOn(Heart, label, j)
    BY <2>2
  <2> HIDE DEF j
  <2> QED
    BY <2>1, <2>3, <2>4, HeartGoesOn DEF HeartInv, Holding
<1>4. CASE Finish(Heart) \/ FetchFails(Heart)
  BY <1>4, HeartFacts, HeartGoesOn DEF Finish, FetchFails, EndJob, Holding
<1>5. CASE Judge(Heart) \/ PauseOver(Heart)
  <2>1. UNCHANGED tries
    BY <1>5 DEF Judge, PauseOver
  <2>2. \/ EndJob(Heart) \/ GoOn(Heart, "scan", job[Heart])
        \/ at[Heart] = "judge" /\ GoOn(Heart, "submit", job[Heart])
    BY <1>5 DEF Judge, PauseOver, RemoveEntry
  <2> QED
    BY <2>1, <2>2, HeartFacts, HeartGoesOn DEF HeartInv, EndJob, Holding
<1>6. CASE RetryAccepted(Heart) \/ RetrySucceeds(Heart) \/ RestOver(Heart)
  <2>1. UNCHANGED tries
    BY <1>6 DEF RetryAccepted, RetrySucceeds, RestOver
  <2>2. \/ at[Heart] = "submit" /\ GoOn(Heart, "reply", job[Heart])
        \/ GoOn(Heart, "pause", job[Heart]) \/ GoOn(Heart, "scan", job[Heart])
    BY <1>6 DEF RetryAccepted, RetrySucceeds, RestOver
  <2> QED
    BY <2>1, <2>2, HeartGoesOn DEF HeartInv, Holding
<1>7. CASE RetryFails(Heart)
  <2>1. /\ at'[Heart] = "rest" /\ job'[Heart] = job[Heart]
        /\ tries' = [tries EXCEPT ![job[Heart].entry] = @ + 1]
    BY <1>7, HeartFacts DEF RetryFails, GoOn
  <2>2. job[Heart].entry \in Plays /\ tries[job[Heart].entry] < DeadRetries
    BY <1>7, HeartFacts DEF RetryFails, HeartInv, Holding
  <2>3. TriesBounded'
    BY <2>1, <2>2, HeartFacts DEF HeartInv, TriesBounded
  <2> QED
    BY <2>1, <2>3 DEF HeartInv, Holding
<1> QED
  BY <1>1, <1>2, <1>3, <1>4, <1>5, <1>6, <1>7 DEF Work, Await

LEMMA OnlyTheHeartWorks ==
  ASSUME HeartAlone, NEW w \in Workers, Work(w) \/ Await(w)
  PROVE  w = Heart
<1>1. CASE Work(w)
  <2>1. at[w] \in {"scan", "entry", "judge", "finish"}
    BY <1>1 DEF Work, Scan, Entry, Judge, Finish
  <2> QED
    BY <2>1 DEF HeartAlone
<1>2. CASE Await(w)
  <2>1. at[w] \in {"fetch", "submit", "reply", "pause", "rest"}
    <3>1. CASE FetchAnswered(w) \/ FetchReturns(w) \/ FetchFails(w)
      BY <3>1 DEF FetchAnswered, FetchReturns, FetchFails
    <3>2. CASE RetryAccepted(w) \/ RetrySucceeds(w) \/ RetryFails(w)
      BY <3>2 DEF RetryAccepted, RetrySucceeds, RetryFails
    <3>3. CASE PauseOver(w) \/ RestOver(w)
      BY <3>3 DEF PauseOver, RestOver
    <3> QED
      BY <1>2, <3>1, <3>2, <3>3 DEF Await
  <2> QED
    BY <2>1 DEF HeartAlone
<1> QED
  BY <1>1, <1>2

LEMMA HeartInvKept ==
  ASSUME DeadInv, HeartInv, HeartAlone, [DeadNext]_deadVars
  PROVE  HeartInv'
<1>1. \A w \in Workers : Work(w) \/ Await(w) => w = Heart
  BY OnlyTheHeartWorks
<1>2. ASSUME HeartbeatDead PROVE HeartInv'
  <2> DEFINE j == [NoJob EXCEPT !.limit = DeadRetries, !.live = TRUE,
                                !.todo = Processable(DeadRetries)]
  <2>1. PICK label \in {"finish", "scan"} : GoOn(Heart, label, j)
    BY <1>2 DEF HeartbeatDead, StartAll
  <2>2. j.limit = DeadRetries /\ UNCHANGED tries
    BY <1>2 DEF HeartbeatDead, StartAll, NoJob
  <2> HIDE DEF j
  <2> QED
    BY <2>1, <2>2, HeartFacts, HeartGoesOn DEF Holding
<1>3. ASSUME Api PROVE HeartInv'
  <2>1. ASSUME NEW w \in Workers \ {Heart}, RetryAll(w) \/ \E p \in Plays : RetryOne(w, p)
        PROVE  UNCHANGED tries /\ at'[Heart] = at[Heart] /\ job'[Heart] = job[Heart]
    BY <2>1, HeartFacts DEF RetryAll, StartAll, RetryOne, GoOn
  <2>2. ASSUME NEW p \in Plays, DeleteOne(p)
        PROVE  UNCHANGED tries /\ at'[Heart] = at[Heart] /\ job'[Heart] = job[Heart]
    BY <2>2 DEF DeleteOne
  <2>3. CASE DeleteAll
    <3>1. UNCHANGED tries /\ at'[Heart] = at[Heart]
      BY <2>3 DEF DeleteAll
    <3>2. job'[Heart] = [job[Heart] EXCEPT !.live = FALSE, !.list = dead]
          \/ job'[Heart] = job[Heart]
      BY <2>3, HeartFacts DEF DeleteAll
    <3>3. job'[Heart].limit = job[Heart].limit /\ job'[Heart].entry = job[Heart].entry
      BY <3>2, HeartFacts DEF Jobs
    <3> QED
      BY <3>1, <3>3, HeartStays
  <2> QED
    BY <1>3, <2>1, <2>2, <2>3, HeartStays DEF Api
<1>4. ASSUME DeadCrash PROVE HeartInv'
  BY <1>4, HeartFacts DEF DeadCrash, HeartInv, TriesBounded, Holding
<1>5. ASSUME UNCHANGED workVars PROVE HeartInv'
  BY <1>5, HeartStays DEF workVars
<1> QED
  BY <1>1, <1>2, <1>3, <1>4, <1>5, HeartWorks, HeartFacts DEF DeadNext, DeadHeartbeat, deadVars

\* Without calls of the API the heartbeat is alone.
LEMMA AloneWithoutApi ==
  ASSUME DeadInv, MaxApiCalls = 0, HeartAlone, apiCalls = 0, [DeadNext]_deadVars
  PROVE  HeartAlone' /\ apiCalls' = 0
<1>1. ~ApiCall
  BY DEF ApiCall
<1>2. ASSUME NEW label, NEW j, GoOn(Heart, label, j) PROVE HeartAlone'
  BY <1>2, HeartFacts DEF HeartAlone, GoOn
<1>3. ASSUME Work(Heart) PROVE HeartAlone' /\ apiCalls' = 0
  <2>1. CASE Scan(Heart) \/ Finish(Heart)
    BY <1>2, <2>1 DEF Scan, Finish, EndJob
  <2>2. CASE Entry(Heart)
    BY <1>2, <2>2 DEF Entry, EndJob
  <2>3. CASE Judge(Heart)
    BY <1>2, <2>3 DEF Judge, RemoveEntry, EndJob
  <2> QED
    BY <1>3, <2>1, <2>2, <2>3 DEF Work
<1>4. ASSUME Await(Heart) PROVE HeartAlone' /\ apiCalls' = 0
  <2>1. CASE FetchAnswered(Heart) \/ FetchReturns(Heart) \/ FetchFails(Heart)
    BY <1>2, <2>1 DEF FetchAnswered, FetchReturns, FetchFails, EndJob
  <2>2. CASE RetryAccepted(Heart) \/ RetrySucceeds(Heart) \/ RetryFails(Heart)
    BY <1>2, <2>2 DEF RetryAccepted, RetrySucceeds, RetryFails
  <2>3. CASE PauseOver(Heart) \/ RestOver(Heart)
    BY <1>2, <2>3 DEF PauseOver, RestOver, RemoveEntry, EndJob
  <2> QED
    BY <1>4, <2>1, <2>2, <2>3 DEF Await
<1>5. ASSUME HeartbeatDead PROVE HeartAlone' /\ apiCalls' = 0
  BY <1>2, <1>5 DEF HeartbeatDead, StartAll
<1>6. ~Api
  BY <1>1 DEF Api, RetryAll, RetryOne, DeleteOne, DeleteAll
<1>7. ASSUME DeadCrash PROVE HeartAlone' /\ apiCalls' = 0
  BY <1>7 DEF DeadCrash, HeartAlone
<1>8. ASSUME UNCHANGED workVars PROVE HeartAlone' /\ apiCalls' = 0
  BY <1>8 DEF workVars, HeartAlone
<1> QED
  BY <1>3, <1>4, <1>5, <1>6, <1>7, <1>8, OnlyTheHeartWorks DEF DeadNext, DeadHeartbeat, deadVars

\* As long as the API retries nothing, a dead letter is retried at most DeadRetries
\* times, whatever the loop adds, the API deletes and a crash interrupts.
THEOREM TriesBoundedAlways == DeadSpec /\ []HeartAlone => []TriesBounded
<1>1. DeadInit => HeartInv
  BY DeadAssumption DEF DeadInit, HeartInv, TriesBounded, NoJob, Holding
<1>2. DeadInv /\ HeartAlone /\ HeartInv /\ [DeadNext]_deadVars => HeartInv'
  BY HeartInvKept
<1>3. HeartInv => TriesBounded
  BY DEF HeartInv
<1> QED
  BY <1>1, <1>2, <1>3, DeadInvariance, PTL DEF DeadSpec

\* So it is where the API is never called.
COROLLARY TriesBoundedWithoutApi ==
  ASSUME MaxApiCalls = 0 PROVE DeadSpec => []TriesBounded
<1>1. DeadInit => HeartAlone /\ apiCalls = 0
  BY DEF DeadInit, HeartAlone
<1>2. DeadInv /\ (HeartAlone /\ apiCalls = 0) /\ [DeadNext]_deadVars
        => (HeartAlone /\ apiCalls = 0)'
  BY AloneWithoutApi
<1>3. DeadSpec => [](HeartAlone /\ apiCalls = 0)
  BY <1>1, <1>2, DeadInvariance, PTL DEF DeadSpec
<1> QED
  BY <1>3, TriesBoundedAlways, PTL
-----------------------------------------------------------------------------
\* A worker that saw its submission accepted, or is about to see it, has an entry that
\* was accepted: no other worker, nor the loop, gives it another entry meanwhile.
AcceptedInv ==
  \A w \in Workers : at[w] \in {"reply", "pause"} =>
    job[w].entry \in Plays /\ accepted[job[w].entry] > 0

\* The service takes no acceptance back.
LEMMA AcceptedGrows ==
  ASSUME DeadInv, [DeadNext]_deadVars, NEW p \in Plays, accepted[p] > 0
  PROVE  accepted'[p] > 0
<1>1. accepted \in [Plays -> Nat]
  BY DEF DeadInv, Inv, TypeOK, WorldTypes
<1>2. CASE Next
  BY <1>2, UpstreamGrows DEF DeadInv, Upstream
<1>3. ASSUME NEW w \in Workers, Work(w) PROVE accepted' = accepted
  <2>1. CASE Finish(w)
    BY <2>1 DEF Finish, Restart, InitScrobbleMonitoring, vars, worldVars
  <2>2. CASE Judge(w)
    BY <2>2 DEF Judge
  <2>3. CASE Scan(w) \/ Entry(w)
    BY <2>3 DEF Scan, Entry, vars, worldVars
  <2> QED
    BY <1>3, <2>1, <2>2, <2>3 DEF Work
<1>4. ASSUME NEW w \in Workers, Await(w) PROVE accepted'[p] > 0
  <2>1. CASE RetryAccepted(w)
    <3>1. job[w].entry \in Plays /\ accepted' = [accepted EXCEPT ![job[w].entry] = @ + 1]
      BY <2>1, HeartFacts DEF RetryAccepted, Holding
    <3> QED
      BY <1>1, <3>1
  <2>2. CASE FetchAnswered(w) \/ FetchReturns(w) \/ FetchFails(w)
    BY <2>2 DEF FetchAnswered, FetchReturns, FetchFails, vars, worldVars
  <2>3. CASE RetrySucceeds(w) \/ RetryFails(w) \/ PauseOver(w) \/ RestOver(w)
    BY <2>3 DEF RetrySucceeds, RetryFails, PauseOver, RestOver, vars, worldVars
  <2> QED
    BY <1>4, <2>1, <2>2, <2>3 DEF Await
<1>5. ASSUME Api \/ DeadCrash \/ HeartbeatDead \/ UNCHANGED deadVars PROVE accepted' = accepted
  <2>1. CASE Api
    BY <2>1 DEF Api, RetryAll, StartAll, RetryOne, DeleteOne, DeleteAll, vars, worldVars
  <2>2. CASE DeadCrash
    BY <2>2 DEF DeadCrash, Crash
  <2>3. CASE HeartbeatDead \/ UNCHANGED deadVars
    BY <2>3 DEF HeartbeatDead, StartAll, deadVars, vars, worldVars
  <2> QED
    BY <1>5, <2>1, <2>2, <2>3
<1>6. \/ Next \/ \E w \in Workers : Work(w) \/ Await(w)
      \/ Api \/ DeadCrash \/ HeartbeatDead \/ UNCHANGED deadVars
  BY DEF DeadNext, DeadHeartbeat, Heartbeat, Next, Idle
<1> QED
  BY <1>2, <1>3, <1>4, <1>5, <1>6

LEMMA AcceptedInvKept ==
  ASSUME DeadInv, AcceptedInv, [DeadNext]_deadVars
  PROVE  AcceptedInv'
<1> DEFINE Keeps(v) == at'[v] \in {"reply", "pause"} =>
                         job'[v].entry \in Plays /\ accepted'[job'[v].entry] > 0
<1>1. ASSUME NEW v \in Workers, at'[v] \in {"reply", "pause"} => at[v] \in {"reply", "pause"},
             job'[v].entry = job[v].entry \/ at'[v] \notin {"reply", "pause"}
      PROVE  Keeps(v)
  BY <1>1, AcceptedGrows DEF AcceptedInv
<1> HIDE DEF Keeps
<1>2. ASSUME NEW w \in Workers, NEW label, NEW j, GoOn(w, label, j),
             Keeps(w)
      PROVE  \A v \in Workers : Keeps(v)
  <2>1. ASSUME NEW v \in Workers, v # w PROVE at'[v] = at[v] /\ job'[v] = job[v]
    BY <1>2, <2>1, HeartFacts DEF GoOn
  <2> QED
    BY <1>1, <1>2, <2>1
<1>3. ASSUME NEW w \in Workers, NEW label, NEW j, GoOn(w, label, j),
             label \notin {"reply", "pause"}
      PROVE  \A v \in Workers : Keeps(v)
  <2>1. at'[w] = label
    BY <1>3, HeartFacts DEF GoOn
  <2>2. Keeps(w)
    BY <1>3, <2>1 DEF Keeps
  <2> QED
    BY <1>2, <1>3, <2>2
<1>4. ASSUME NEW w \in Workers, Work(w) PROVE \A v \in Workers : Keeps(v)
  <2>1. CASE Scan(w) \/ Finish(w)
    BY <1>3, <2>1 DEF Scan, Finish, EndJob
  <2>2. CASE Entry(w)
    BY <1>3, <2>2 DEF Entry, EndJob
  <2>3. CASE Judge(w)
    BY <1>3, <2>3 DEF Judge, RemoveEntry, EndJob
  <2> QED
    BY <1>4, <2>1, <2>2, <2>3 DEF Work
<1>5. ASSUME NEW w \in Workers, Await(w) PROVE \A v \in Workers : Keeps(v)
  <2>1. CASE RetryAccepted(w)
    <3>1. job[w].entry \in Plays /\ accepted' = [accepted EXCEPT ![job[w].entry] = @ + 1]
      BY <2>1, HeartFacts DEF RetryAccepted, Holding
    <3>2. GoOn(w, "reply", job[w])
      BY <2>1 DEF RetryAccepted
    <3>3. job'[w] = job[w] /\ accepted'[job[w].entry] > 0
      BY <3>1, <3>2, HeartFacts DEF GoOn, DeadInv, Inv, TypeOK, WorldTypes
    <3> QED
      BY <1>2, <3>1, <3>2, <3>3 DEF Keeps
  <2>2. CASE RetrySucceeds(w)
    <3>1. GoOn(w, "pause", job[w]) /\ at[w] = "reply"
      BY <2>2 DEF RetrySucceeds
    <3>2. Keeps(w)
      BY <1>1, <3>1, HeartFacts DEF GoOn
    <3> QED
      BY <1>2, <3>1, <3>2
  <2>3. CASE FetchAnswered(w) \/ FetchReturns(w) \/ FetchFails(w)
    <3>1. \E j : GoOn(w, "fetch", j) \/ GoOn(w, "judge", j) \/ GoOn(w, "off", j)
      BY <2>3 DEF FetchAnswered, FetchReturns, FetchFails, EndJob
    <3> QED
      BY <1>3, <3>1
  <2>4. CASE RetryFails(w) \/ PauseOver(w) \/ RestOver(w)
    BY <1>3, <2>4 DEF RetryFails, PauseOver, RestOver, RemoveEntry, EndJob
  <2> QED
    BY <1>5, <2>1, <2>2, <2>3, <2>4 DEF Await
<1>6. ASSUME HeartbeatDead PROVE \A v \in Workers : Keeps(v)
  BY <1>3, <1>6, HeartFacts DEF HeartbeatDead, StartAll
<1>7. ASSUME Api PROVE \A v \in Workers : Keeps(v)
  <2>1. ASSUME NEW w \in Workers, RetryAll(w) \/ \E p \in Plays : RetryOne(w, p)
        PROVE  \A v \in Workers : Keeps(v)
    <3>1. \E j : GoOn(w, "finish", j) \/ GoOn(w, "scan", j) \/ GoOn(w, "entry", j)
      <4>1. CASE RetryAll(w)
        BY <4>1 DEF RetryAll, StartAll
      <4>2. CASE \E p \in Plays : RetryOne(w, p)
        BY <4>2 DEF RetryOne
      <4> QED
        BY <2>1, <4>1, <4>2
    <3> QED
      BY <1>3, <3>1
  <2>2. ASSUME NEW p \in Plays, DeleteOne(p) PROVE \A v \in Workers : Keeps(v)
    BY <1>1, <2>2 DEF DeleteOne
  <2>3. CASE DeleteAll
    <3>1. ASSUME NEW v \in Workers PROVE job'[v].entry = job[v].entry
      <4>1. \/ job'[v] = [job[v] EXCEPT !.live = FALSE, !.list = dead]
            \/ job'[v] = job[v]
        BY <2>3 DEF DeleteAll
      <4>2. [job[v] EXCEPT !.live = FALSE, !.list = dead].entry = job[v].entry
        <5>1. job[v] \in Jobs
          BY HeartFacts
        <5> QED
          BY <5>1 DEF Jobs
      <4> QED
        BY <4>1, <4>2
    <3> QED
      BY <1>1, <2>3, <3>1 DEF DeleteAll
  <2> QED
    BY <1>7, <2>1, <2>2, <2>3 DEF Api
<1>8. ASSUME DeadCrash PROVE \A v \in Workers : Keeps(v)
  BY <1>8 DEF DeadCrash, Keeps
<1>9. ASSUME UNCHANGED workVars PROVE \A v \in Workers : Keeps(v)
  BY <1>1, <1>9 DEF workVars
<1>10. \A v \in Workers : Keeps(v)
  BY <1>4, <1>5, <1>6, <1>7, <1>8, <1>9 DEF DeadNext, DeadHeartbeat, deadVars
<1> QED
  BY <1>10 DEF AcceptedInv, Keeps
-----------------------------------------------------------------------------
\* RemoveEntry takes out the entry of its worker and no other.
LEMMA RemovesItsOwn ==
  ASSUME DeadInv, NEW w \in Workers, RemoveEntry(w), NEW p \in Removed
  PROVE  p = job[w].entry
<1>1. PICK i \in 0 .. Len(dead) :
        /\ FreshIndex(w, i)
        /\ IF i = 0 \/ IsHole(i) THEN UNCHANGED dead ELSE dead' = RemoveAt(dead, i)
  BY DEF RemoveEntry
<1>2. ~(i = 0 \/ IsHole(i))
  BY <1>1 DEF Removed
<1>3. i \in 1 .. Len(dead) /\ dead \in Seq(Entries)
  BY <1>2, JobFacts, LenProperties
<1>4. Range(dead) \subseteq Range(dead') \cup {dead[i]}
  BY <1>1, <1>2, <1>3, RemoveAtProperties
<1>5. dead[i] = job[w].entry
  BY <1>1, <1>2, <1>3 DEF FreshIndex, FoundAt, IsHole
<1> QED
  BY <1>4, <1>5 DEF Removed

\* The loop and its callers remove no dead letter.
LEMMA LoopRemovesNone ==
  ASSUME Inv, ClientStep
  PROVE  Removed = {}
<1> USE DEF listVars
<1>1. ASSUME NEW r \in Runners, DeadLetter(r) PROVE Range(dead) \subseteq Range(dead')
  BY <1>1, DeadLetterAdds
<1>2. ASSUME NEW r \in Runners, Run(r) \/ Resume(r), ~DeadLetter(r) PROVE UNCHANGED dead
  BY <1>2
     DEF Run, Resume, HeartbeatInit, StopTimedOut, StopAcknowledged, InitScrobbleMonitoring,
         UpstreamAnswers, StagesSucceed, InitSucceeds, InitFails, EnterProcessing, OuterLoop,
         InnerLoop, Take, WakeUp, RefreshReturns, RefreshFails, UpstreamAccepts,
         ScrobbleSucceeds, PutBack, CatchError, BackoffOver
<1>3. ASSUME \/ \E r \in Runners : HeartbeatInit(r)
             \/ \E p \in Plays : QueueScrobble(p)
             \/ Request \/ Tick
      PROVE  UNCHANGED dead
  BY <1>3 DEF HeartbeatInit, QueueScrobble, Request, RequestStop, RequestStart,
              InitScrobbleMonitoring, Tick
<1> QED
  BY <1>1, <1>2, <1>3 DEF ClientStep, Removed

LEMMA RemovalsHaveReasons ==
  ASSUME DeadInv, AcceptedInv, [DeadNext]_deadVars, NEW p \in Removed,
         \A w \in Workers : ~RetryFails(w)
  PROVE  HasReason(p)
<1>1. UNCHANGED dead => FALSE
  BY DEF Removed
<1>2. CASE ClientStep
  BY <1>2, LoopRemovesNone DEF DeadInv
<1>3. ASSUME NEW w \in Workers, Work(w) PROVE HasReason(p)
  <2>1. CASE Scan(w) \/ Entry(w) \/ Finish(w)
    BY <1>1, <2>1 DEF Scan, Entry, Finish, Restart, InitScrobbleMonitoring, vars, listVars
  <2>2. CASE Judge(w)
    <3>1. /\ TooOld(job[w].entry) \/ AlreadyScrobbled(job[w].entry)
          /\ RemoveEntry(w)
      BY <1>1, <2>2 DEF Judge
    <3> QED
      BY <3>1, RemovesItsOwn DEF HasReason
  <2> QED
    BY <1>3, <2>1, <2>2 DEF Work
<1>4. ASSUME NEW w \in Workers, Await(w) PROVE HasReason(p)
  <2>1. CASE PauseOver(w)
    <3>1. accepted[job[w].entry] > 0 /\ RemoveEntry(w)
      BY <2>1 DEF PauseOver, AcceptedInv
    <3> QED
      BY <3>1, RemovesItsOwn DEF HasReason
  <2>2. CASE FetchAnswered(w) \/ FetchReturns(w) \/ FetchFails(w)
    BY <1>1, <2>2 DEF FetchAnswered, FetchReturns, FetchFails, vars, listVars
  <2>3. CASE RetryAccepted(w) \/ RetrySucceeds(w) \/ RestOver(w)
    BY <1>1, <2>3 DEF RetryAccepted, RetrySucceeds, RestOver, vars, listVars
  <2> QED
    BY <1>4, <2>1, <2>2, <2>3 DEF Await
<1>5. ASSUME Api PROVE HasReason(p)
  <2>1. ASSUME NEW w \in Workers, RetryAll(w) \/ \E q \in Plays : RetryOne(w, q) PROVE FALSE
    BY <1>1, <2>1 DEF RetryAll, StartAll, RetryOne, vars, listVars
  <2>2. ASSUME NEW q \in Plays, DeleteOne(q) PROVE q = p
    <3>1. PICK i \in DOMAIN dead : FoundAt(q, i) /\ ~IsHole(i) /\ dead' = RemoveAt(dead, i)
      BY <2>2 DEF DeleteOne
    <3>2. i \in 1 .. Len(dead) /\ dead \in Seq(Entries)
      BY LenProperties DEF DeadInv, Inv, TypeOK, ListTypes, Entries
    <3>3. Range(dead) \subseteq Range(dead') \cup {dead[i]}
      BY <3>1, <3>2, RemoveAtProperties
    <3> QED
      BY <3>1, <3>2, <3>3 DEF FoundAt, IsHole, Removed
  <2> QED
    BY <1>5, <2>1, <2>2 DEF Api, HasReason
<1>6. CASE HeartbeatDead
  BY <1>1, <1>6 DEF HeartbeatDead, StartAll, vars, listVars
<1>7. CASE DeadCrash
  BY <1>7 DEF HasReason
<1>8. CASE UNCHANGED deadVars
  BY <1>1, <1>8 DEF deadVars, vars, listVars
<1>9. \/ ClientStep \/ \E w \in Workers : Work(w) \/ Await(w)
      \/ Api \/ DeadCrash \/ HeartbeatDead \/ UNCHANGED deadVars
  BY DEF DeadNext, DeadHeartbeat, ClientStep
<1> QED
  BY <1>2, <1>3, <1>4, <1>5, <1>6, <1>7, <1>8, <1>9

\* Whatever others add, remove or delete while a worker awaits, what it then removes is
\* the entry it judged or scrobbled; only the late write-back of a failed retry can
\* make another entry disappear.
THEOREM RemovalsTakeTheirOwnAlways == DeadSpec => RemovalsTakeTheirOwn
<1>1. DeadInit => AcceptedInv
  BY DEF DeadInit, AcceptedInv
<1>2. DeadInv /\ AcceptedInv /\ [DeadNext]_deadVars => AcceptedInv'
  BY AcceptedInvKept
<1>3. DeadInv /\ AcceptedInv /\ [DeadNext]_deadVars =>
        [(\E w \in Workers : RetryFails(w)) \/ \A p \in Removed : HasReason(p)]_deadVars
  BY RemovalsHaveReasons
<1> QED
  BY <1>1, <1>2, <1>3, DeadInvariance, PTL DEF DeadSpec, RemovalsTakeTheirOwn

=============================================================================
