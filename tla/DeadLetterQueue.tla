-------------------------- MODULE DeadLetterQueue --------------------------
(***************************************************************************)
(* The dead letter queue of a scrobble client, composed with its loop.     *)
(* The heartbeat and the API retry entries, the API deletes them, and the  *)
(* loop goes on adding them meanwhile.  A worker is one call of            *)
(* processDeadLetterQueue or processDeadLetterScrobble; at[w] is where it  *)
(* waits, job[w] holds its locals.                                         *)
(*                                                                         *)
(* An entry is its play: addDeadLetterScrobble spreads the queued play     *)
(* over the new entry, so the entry keeps the id of the play.              *)
(***************************************************************************)
EXTENDS ScrobbleClient, SequencesExt

CONSTANTS
  Workers,        \* calls that can process dead letters at the same time
  Heart,          \* the one that is the heartbeat
  DeadRetries,    \* deadLetterRetries
  MaxRetryFaults, \* bound: failed retries and failed fetches of workers
  MaxApiCalls     \* bound: calls of the dead letter routes

ASSUME DeadAssumption ==
  /\ Heart \in Workers
  /\ DeadRetries \in Nat
  /\ MaxRetryFaults \in Nat
  /\ MaxApiCalls \in Nat

VARIABLES
  tries,        \* retries of the entry of each play
  at,           \* where each worker is
  job,          \* its locals, see Jobs
  apiCalls, retryFaults

workVars == <<tries, at, job, apiCalls, retryFaults>>
deadVars == <<vars, workVars>>

\* The code of a worker between two awaits, and its awaits.
Working  == {"scan", "entry", "judge", "finish"}
Awaiting == {"off", "fetch", "submit", "reply", "pause", "rest"}

\* An iteration reads the live array until removeDeadLetterScrobbles puts another
\* in its place; list is what it reads from then on.  todo is history: the entries
\* it set out to retry and did not get to yet.
Jobs == [limit : Nat, live : BOOLEAN, list : Seq(Plays \cup {NoPlay}), next : Nat \ {0},
         entry : Plays \cup {NoPlay}, index : Nat,
         answer : (SUBSET Plays) \cup {Unanswered}, todo : SUBSET Plays]
NoJob == [limit |-> 0, live |-> FALSE, list |-> <<>>, next |-> 1, entry |-> NoPlay,
          index |-> 0, answer |-> Unanswered, todo |-> {}]

Idle == Yielded /\ \A w \in Workers : at[w] \notin Working

GoOn(w, label, j) == at' = [at EXCEPT ![w] = label] /\ job' = [job EXCEPT ![w] = j]
EndJob(w)         == GoOn(w, "off", NoJob)

\* What no worker changes.
loopSide == <<queue, loopVars, readyVars, eventVars, boundVars, pc, inflight, window, now>>

RetryFault == retryFaults < MaxRetryFaults /\ retryFaults' = retryFaults + 1
ApiCall    == apiCalls < MaxApiCalls /\ apiCalls' = apiCalls + 1

\* findIndex by id stops at i: 0 when there is no such entry.  At a hole it throws.
FoundAt(p, i) ==
  /\ i # 0 => dead[i] \in {p, NoPlay}
  /\ \A j \in 1 .. (IF i = 0 THEN Len(dead) ELSE i - 1) : dead[j] \notin {p, NoPlay}
IsHole(i) == i # 0 /\ dead[i] = NoPlay

\* Entries with retries left, and mutants of that, one retry too many and too few.
\* A hole is filtered out.
OneTooMany(p, limit) == tries[p] <= limit
OneTooFew(p, limit)  == tries[p] + 1 < limit
HasRetries(p, limit) == tries[p] < limit
Processable(limit)   == {p \in Range(dead) \ {NoPlay} : HasRetries(p, limit)}

-----------------------------------------------------------------------------
DeadInit ==
  /\ Init
  /\ tries = [p \in Plays |-> 0]
  /\ at = [w \in Workers |-> "off"] /\ job = [w \in Workers |-> NoJob]
  /\ apiCalls = 0 /\ retryFaults = 0

\* processDeadLetterQueue: nothing to do, or start to iterate.
StartAll(w, limit) ==
  /\ at[w] = "off"
  /\ GoOn(w, IF Processable(limit) = {} THEN "finish" ELSE "scan",
          [NoJob EXCEPT !.limit = limit, !.live = TRUE, !.todo = Processable(limit)])
  /\ UNCHANGED <<vars, tries, retryFaults>>

\* The heartbeat of a client that is ready.  Heartbeats do not overlap.
HeartbeatDead ==
  /\ ready /\ \A r \in Runners : pc[r] \notin {"beat", "beatFetch"}
  /\ StartAll(Heart, DeadRetries)
  /\ UNCHANGED apiCalls

\* PUT /api/dead, with more retries than any entry has had.
EveryEntry == 1000
RetryAll(w) == ApiCall /\ StartAll(w, EveryEntry)

\* PUT /api/dead/:id: one entry, and no iteration.
RetryOne(w, p) ==
  /\ ApiCall /\ at[w] = "off"
  /\ \E i \in DOMAIN dead : FoundAt(p, i) /\ ~IsHole(i)
  /\ GoOn(w, "entry", [NoJob EXCEPT !.entry = p])
  /\ UNCHANGED <<vars, tries, retryFaults>>

\* The next round of the iteration, by position in an array that others change.
Scan(w) ==
  /\ at[w] = "scan"
  /\ LET array == IF job[w].live THEN dead ELSE job[w].list
         n     == job[w].next
     IN IF n > Len(array) THEN GoOn(w, "finish", job[w])
        ELSE IF array[n] = NoPlay THEN EndJob(w)
        ELSE GoOn(w, IF HasRetries(array[n], job[w].limit) THEN "entry" ELSE "scan",
                  [job[w] EXCEPT !.next = n + 1, !.entry = array[n]])
  /\ UNCHANGED <<vars, tries, apiCalls, retryFaults>>

\* processDeadLetterScrobble up to its first await.
Behind == queue # <<>> /\ lastCheck < Date[queue[Len(queue)]]
Entry(w) ==
  /\ at[w] = "entry"
  /\ \E i \in 0 .. Len(dead) :
       /\ FoundAt(job[w].entry, i)
       /\ IF IsHole(i) THEN EndJob(w)
          ELSE GoOn(w, IF ~ready THEN "scan" ELSE IF Behind THEN "fetch" ELSE "judge",
                    [job[w] EXCEPT !.index = i, !.todo = @ \ {job[w].entry}])
  /\ UNCHANGED <<vars, tries, apiCalls, retryFaults>>

\* The refresh of a worker: answered, applied, or failed, which ends the worker.
FetchAnswered(w) ==
  /\ at[w] = "fetch" /\ job[w].answer = Unanswered /\ RefreshEnabled
  /\ \E S \in Latest(MaxStored) : GoOn(w, "fetch", [job[w] EXCEPT !.answer = S])
  /\ UNCHANGED <<vars, tries, apiCalls, retryFaults>>

FetchReturns(w) ==
  /\ at[w] = "fetch"
  /\ Refresh(job[w].answer)
  /\ GoOn(w, "judge", [job[w] EXCEPT !.answer = Unanswered])
  /\ UNCHANGED <<loopSide, dead, tracksScrobbled, lastDate, accepted, tries, apiCalls, retryFaults>>

FetchFails(w) ==
  /\ at[w] = "fetch"
  /\ RetryFault
  /\ EndJob(w)
  /\ UNCHANGED <<vars, tries, apiCalls>>

\* removeDeadLetterScrobble looks the entry up again, and throws when it is gone.
\* HeldIndex is a mutant of FreshIndex: the index found before the awaits.
HeldIndex(w, i)  == i = IF job[w].index > Len(dead) THEN 0 ELSE job[w].index
FreshIndex(w, i) == FoundAt(job[w].entry, i)
RemoveEntry(w) ==
  \E i \in 0 .. Len(dead) :
    /\ FreshIndex(w, i)
    /\ IF i = 0 \/ IsHole(i)
       THEN EndJob(w) /\ UNCHANGED dead
       ELSE GoOn(w, "scan", job[w]) /\ dead' = RemoveAt(dead, i)

\* An entry that was gone at the first look-up is undefined here, and throws.
IsGone(w) == job[w].index = 0
Judge(w) ==
  /\ at[w] = "judge"
  /\ IF IsGone(w)
     THEN EndJob(w) /\ UNCHANGED dead
     ELSE IF TooOld(job[w].entry) \/ AlreadyScrobbled(job[w].entry)
          THEN RemoveEntry(w)
          ELSE GoOn(w, "submit", job[w]) /\ UNCHANGED dead
  /\ UNCHANGED <<loopSide, recordVars, refreshVars, accepted, tries, apiCalls, retryFaults>>

RetryAccepted(w) ==
  /\ at[w] = "submit"
  /\ accepted' = [accepted EXCEPT ![job[w].entry] = @ + 1]
  /\ GoOn(w, "reply", job[w])
  /\ UNCHANGED <<loopSide, dead, recordVars, refreshVars, tries, apiCalls, retryFaults>>

RetrySucceeds(w) ==
  /\ at[w] = "reply"
  /\ Record(job[w].entry)
  /\ GoOn(w, "pause", job[w])
  /\ UNCHANGED <<loopSide, dead, refreshVars, accepted, tries, apiCalls, retryFaults>>

\* The entry is written back at the index found before the awaits: over another
\* entry when the array changed since, and behind holes when it became short.
WriteBack(i, p) ==
  [j \in 1 .. (IF i > Len(dead) THEN i ELSE Len(dead)) |->
     IF j = i THEN p ELSE IF j <= Len(dead) THEN dead[j] ELSE NoPlay]
RetryFails(w) ==
  /\ at[w] = "submit" \/ (LostReplies /\ at[w] = "reply")
  /\ RetryFault
  /\ tries' = [tries EXCEPT ![job[w].entry] = @ + 1]
  /\ dead' = WriteBack(job[w].index, job[w].entry)
  /\ GoOn(w, "rest", job[w])
  /\ UNCHANGED <<loopSide, recordVars, refreshVars, accepted, apiCalls>>

\* The second that follows each retry is over: a success is removed only now.
PauseOver(w) ==
  /\ at[w] = "pause"
  /\ RemoveEntry(w)
  /\ UNCHANGED <<loopSide, recordVars, refreshVars, accepted, tries, apiCalls, retryFaults>>

RestOver(w) ==
  /\ at[w] = "rest"
  /\ GoOn(w, "scan", job[w])
  /\ UNCHANGED <<vars, tries, apiCalls, retryFaults>>

\* The worker is done.  The heartbeat goes on to start the loop if it does not run
\* (one that finds no coroutine left in Runners leaves it to the next heartbeat).
Restart == \E r \in Runners : pc[r] = "idle" /\ InitScrobbleMonitoring(r, FALSE)
Finish(w) ==
  /\ at[w] = "finish"
  /\ EndJob(w)
  /\ IF w = Heart /\ ~scrobbling /\ \E r \in Runners : pc[r] = "idle"
     THEN Restart /\ UNCHANGED requests
     ELSE UNCHANGED vars
  /\ UNCHANGED <<tries, apiCalls, retryFaults>>

\* DELETE /api/dead/:id and DELETE /api/dead.
DeleteOne(p) ==
  /\ ApiCall
  /\ \E i \in DOMAIN dead : FoundAt(p, i) /\ ~IsHole(i) /\ dead' = RemoveAt(dead, i)
  /\ UNCHANGED <<loopSide, recordVars, refreshVars, accepted, tries, at, job, retryFaults>>

DeleteAll ==
  /\ ApiCall
  /\ dead' = <<>>
  /\ job' = [w \in Workers |-> IF job[w].live
                               THEN [job[w] EXCEPT !.live = FALSE, !.list = dead]
                               ELSE job[w]]
  /\ UNCHANGED <<loopSide, recordVars, refreshVars, accepted, tries, at, retryFaults>>

DeadCrash ==
  /\ Crash
  /\ tries' = [p \in Plays |-> 0]
  /\ at' = [w \in Workers |-> "off"] /\ job' = [w \in Workers |-> NoJob]
  /\ UNCHANGED <<apiCalls, retryFaults>>

-----------------------------------------------------------------------------
Work(w) == Scan(w) \/ Entry(w) \/ Judge(w) \/ Finish(w)
Await(w) ==
  \/ FetchAnswered(w) \/ FetchReturns(w) \/ FetchFails(w)
  \/ RetryAccepted(w) \/ RetrySucceeds(w) \/ RetryFails(w) \/ PauseOver(w) \/ RestOver(w)
Api ==
  \/ \E w \in Workers \ {Heart} : RetryAll(w) \/ \E p \in Plays : RetryOne(w, p)
  \/ \E p \in Plays : DeleteOne(p)
  \/ DeleteAll
DeadHeartbeat ==
  \/ HeartbeatDead
  \/ at[Heart] = "off" /\ (\E r \in Runners : HeartbeatInit(r)) /\ UNCHANGED workVars

DeadNext ==
  \/ \E r \in Runners : Run(r) /\ UNCHANGED workVars
  \/ \E w \in Workers : Work(w)
  \/ /\ Idle
     /\ \/ /\ \/ \E p \in Plays : QueueScrobble(p)
              \/ \E r \in Runners : Resume(r)
              \/ Request \/ Tick
           /\ UNCHANGED workVars
        \/ \E w \in Workers : Await(w)
        \/ Api \/ DeadHeartbeat \/ DeadCrash

DeadSpec == DeadInit /\ [][DeadNext]_deadVars

\* As for the client, with its heartbeat; the workers are code and timers likewise.
DeadFairness ==
  /\ \A r \in Runners : /\ WF_deadVars(Run(r) /\ UNCHANGED workVars)
                        /\ SF_deadVars(Idle /\ Resume(r) /\ UNCHANGED workVars)
  /\ \A w \in Workers : WF_deadVars(Work(w)) /\ SF_deadVars(Idle /\ Await(w))
  /\ SF_deadVars(Idle /\ DeadHeartbeat)
FairDeadSpec == DeadSpec /\ DeadFairness

-----------------------------------------------------------------------------
Holding == {"entry", "fetch", "judge", "submit", "reply"}  \* a worker that has an entry
WorkTypes ==
  /\ tries \in [Plays -> Nat] /\ apiCalls \in Nat /\ retryFaults \in Nat
  /\ at \in [Workers -> Working \cup Awaiting] /\ job \in [Workers -> Jobs]
  /\ \A w \in Workers : /\ at[w] \in Holding => job[w].entry # NoPlay
                        /\ at[w] \in {"submit", "reply"} => job[w].index # 0
DeadTypeOK == TypeOK /\ WorkTypes

\* A dead letter, or what a worker still holds of one, was reported as dequeued and is
\* neither in the queue nor being submitted by the loop: no retry, late write-back or
\* deletion puts one play before the loop and a worker at the same time.
Held(j)     == {j.entry} \cup Range(j.list) \cup j.todo
DeadLetters == (Range(dead) \cup UNION {Held(job[w]) : w \in Workers}) \ {NoPlay}
DeadLettersSettled ==
  DeadLetters \subseteq dequeued /\ DeadLetters \cap (Range(queue) \cup InFlight) = {}

\* An entry leaves the dead letter queue when it was scrobbled, when it needs no
\* scrobble, when the API deletes it, or with the process: no retry of one entry
\* makes another one disappear.
HasReason(p) ==
  \/ accepted[p] > 0 \/ TooOld(p) \/ AlreadyScrobbled(p)
  \/ DeleteOne(p) \/ DeleteAll \/ DeadCrash
Removed == Range(dead) \ (Range(dead') \cup {NoPlay})
EntriesLeaveForAReason == [][\A p \in Removed : HasReason(p)]_deadVars

\* ... and but for a failed retry this is so: whatever others added, removed or
\* deleted during its awaits, a removal takes out the entry it is for.
RemovalsTakeTheirOwn ==
  [][(\E w \in Workers : RetryFails(w)) \/ \A p \in Removed : HasReason(p)]_deadVars

\* What the heartbeat retries, it retries at most DeadRetries times.
TriesBounded == \A p \in Plays : tries[p] <= DeadRetries

\* An entry with retries left is retried until it leaves the queue or has none left:
\* entries the iteration skips are reached by a later heartbeat.
DeadLettersRetried ==
  \A p \in Plays : p \in Range(dead) ~> p \notin Range(dead) \/ tries[p] >= DeadRetries

=============================================================================
