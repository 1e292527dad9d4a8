---------------------------- MODULE MemorySource ----------------------------
(***************************************************************************)
(* A source without a history of its own: it is told what its players do,  *)
(* derives listened plays from it and discovers those that pass the        *)
(* threshold (MemorySource.ts over the players of PlayerState).            *)
(*                                                                         *)
(* A user who listens, pauses, jumps in a track, changes the device and    *)
(* leaves is the environment; the service reports the state of the device  *)
(* when it is asked, or when it calls the source itself.                   *)
(***************************************************************************)
EXTENDS PlayerState, FiniteSets, FiniteSetsExt

CONSTANTS
  Platforms,        \* device and user, as in a player's key
  Sources,          \* the kinds of source a behaviour may be about: the class of its
                    \* players, multiPlatform, canPoll, whether it reports a status
  Threshold,        \* scrobbleThresholds.duration; the percentage is the default 50
  CloseDates,       \* dates this close are of one listen
  MaxTime, MaxActs, MaxSeeks \* bounds: time, what the user does, jumps in a track

ASSUME MemorySourceAssumption ==
  /\ Platforms # {}
  /\ \A s \in Sources : /\ s.kind \in {"timestamp", "positional", "plex"}
                        /\ {s.multi, s.polled, s.reports} \subseteq BOOLEAN
  /\ {Threshold, CloseDates, MaxTime, MaxActs, MaxSeeks} \subseteq Nat

VARIABLES
  source,      \* what the source is
  now,
  user,        \* where the user listens, to what, at which position
  heard,       \* how long the user has heard each track
  acts,        \* what the user has done so far
  seeks,       \* how often that was a jump
  players,     \* the players by platform
  attempted,   \* playerCleanupDiscoveryAttempt
  discovered   \* recentDiscoveredPlays, of all platforms

env  == <<user, heard, acts, seeks>>
vars == <<source, now, env, players, attempted, discovered>>
----------------------------------------------------------------------------
\* comparePlayTemporally() at CLOSE or better, for plays of one source.
SameListen(e, c) ==
  /\ e.track = c.track
  /\ \/ e.date - c.date \in (-CloseDates)..CloseDates
     \/ \E r \in ToSet(e.ranges) : r.since < c.date /\ c.date < r.until

\* existingDiscovered(): in the list of the platform, when the source has many.
Existing(key, c) ==
  {d \in ToSet(discovered) : (source.multi => d.platform = key) /\ SameListen(d.play, c)}

\* timePassesScrobbleThreshold(): 49.5 percent is rounded to 50.
PassesThreshold(listened) == listened >= Threshold \/ 200 * listened >= 99 * Duration

\* isListenedPlayDiscoverable()
Discoverable(key, c) ==
  /\ PassesThreshold(c.listened)
  /\ \/ Existing(key, c) = {}
     \/ \E d \in Existing(key, c) : c.date > d.play.date + Duration

\* discover(), for what a player gave: what is in the list is not added again.  Plays of
\* one call are of different platforms, or there is one: none stands in another's way.
Discover(key, plays) ==
  {[platform |-> key, play |-> c] :
     c \in {c \in ToSet(plays) : Discoverable(key, c) /\ Existing(key, c) = {}}}
----------------------------------------------------------------------------
\* The players after those of new platforms were added: when the source has one player,
\* the new one takes over from it.
Added(key) ==
  CASE key \in DOMAIN players -> players
    [] source.multi /\ key \notin DOMAIN players ->
         [k \in DOMAIN players \cup {key} |->
            IF k = key THEN NewPlayer(source.kind, now) ELSE players[k]]
    [] OTHER ->
         [k \in {key} |-> IF players = <<>> THEN NewPlayer(source.kind, now)
                          ELSE TransferTo(players[CHOOSE o \in DOMAIN players : TRUE], now)]

\* cleanupPlayer(): the player of a platform that is silent, whether it goes, and the
\* play that was in progress, once.
Cleanup(key, p) ==
  LET stale == UpdateStale(p, now)
      q     == IF stale THEN CheckOrphaned(CheckStale(p, now), now) ELSE p
  IN [player |-> q,
      gone   |-> stale /\ Orphaned(p, now) /\ Dead(p, now),
      tried  |-> stale,
      done   |-> IF stale /\ key \notin attempted THEN Played(q) ELSE <<>>]

\* Mutant of Outcome: a report does not clear playerCleanupDiscoveryAttempt.
Outcome_StillTried(key, p, reports) ==
  IF key \in DOMAIN reports
    THEN LET u == Update(p, reports[key], now)
         IN  [player |-> u.player, gone |-> FALSE, tried |-> key \in attempted, done |-> u.done]
    ELSE Cleanup(key, p)

\* What processRecentPlays() makes of each player: an update or a cleanup.
Outcome(key, p, reports) ==
  IF key \in DOMAIN reports
    THEN LET u == Update(p, reports[key], now)
         IN  [player |-> u.player, gone |-> FALSE, tried |-> FALSE, done |-> u.done]
    ELSE Cleanup(key, p)

\* Mutant of HandOver: the play of a silent player is dropped when the player goes.
HandOver_Forgets(outcomes) ==
  discovered \o SetToSeq(UNION {Discover(k, outcomes[k].done) :
                                  k \in {k \in DOMAIN outcomes : ~outcomes[k].gone}})

HandOver(outcomes) ==
  discovered \o SetToSeq(UNION {Discover(k, outcomes[k].done) : k \in DOMAIN outcomes})

Settle(outcomes) ==
  /\ players' = [k \in {k \in DOMAIN outcomes : ~outcomes[k].gone} |-> outcomes[k].player]
  /\ attempted' = {k \in Platforms :
                     IF k \in DOMAIN outcomes THEN outcomes[k].tried ELSE k \in attempted}

\* processRecentPlays() and discover(), for the report of at most one platform.
Process(reports) ==
  LET ps == IF reports = <<>> THEN players
            ELSE Added(CHOOSE k \in DOMAIN reports : TRUE)
      outcomes == [k \in DOMAIN ps |-> Outcome(k, ps[k], reports)]
  IN  Settle(outcomes) /\ discovered' = HandOver(outcomes)
----------------------------------------------------------------------------
Silent == user.track = NoTrack

\* What the service says of the device the user is at.
Report ==
  [track |-> user.track, pos |-> user.pos,
   status |-> IF Silent THEN "stopped"
              ELSE IF source.reports THEN (IF user.on THEN "playing" ELSE "paused")
              ELSE "none"]

Init ==
  /\ source \in Sources
  /\ now = 0
  /\ user = [platform |-> CHOOSE k \in Platforms : TRUE, track |-> NoTrack, pos |-> 0, on |-> FALSE]
  /\ heard = [t \in Tracks |-> 0]
  /\ acts = 0 /\ seeks = 0
  /\ players = <<>>
  /\ attempted = {}
  /\ discovered = <<>>

\* Time passes; a track that ends leaves the device silent.
Tick ==
  /\ now < MaxTime
  /\ now' = now + 1
  /\ IF user.on
       THEN /\ heard' = [heard EXCEPT ![user.track] = @ + 1]
            /\ user' = IF user.pos + 1 < Duration THEN [user EXCEPT !.pos = @ + 1]
                       ELSE [user EXCEPT !.track = NoTrack, !.pos = 0, !.on = FALSE]
       ELSE UNCHANGED <<heard, user>>
  /\ UNCHANGED <<source, acts, seeks, players, attempted, discovered>>

Acts ==
  /\ acts < MaxActs /\ acts' = acts + 1
  /\ UNCHANGED <<source, now, heard, players, attempted, discovered>>

StartTrack(t) ==
  /\ Acts /\ UNCHANGED seeks
  /\ t # user.track
  /\ user' = [user EXCEPT !.track = t, !.pos = 0, !.on = TRUE]

PauseOrResume ==
  /\ Acts /\ UNCHANGED seeks
  /\ ~Silent
  /\ user' = [user EXCEPT !.on = ~@]

Seek ==
  /\ Acts
  /\ ~Silent
  /\ seeks < MaxSeeks /\ seeks' = seeks + 1
  /\ \E pos \in 0..(Duration - 1) : pos # user.pos /\ user' = [user EXCEPT !.pos = pos]

Leave ==
  /\ Acts /\ UNCHANGED seeks
  /\ ~Silent
  /\ user' = [user EXCEPT !.track = NoTrack, !.pos = 0, !.on = FALSE]

Move ==
  /\ Acts /\ UNCHANGED seeks
  /\ \E k \in Platforms \ {user.platform} : user' = [user EXCEPT !.platform = k]

\* The source polls, or is called: the service reports the device.  When nothing plays
\* it may still do so, if it reports a status; an answer to a poll may hold nothing.
Reported ==
  /\ \/ (~Silent \/ source.reports) /\ Process([k \in {user.platform} |-> Report])
     \/ Silent /\ source.polled /\ Process(<<>>)
  /\ UNCHANGED <<source, now, env>>

\* The job that a source that is not polled runs every 15 seconds: it cleans the players
\* up, and what cleanupPlayer() returns is dropped.
ScheduledCleanup ==
  /\ ~source.polled
  /\ Settle([k \in DOMAIN players |-> Cleanup(k, players[k])])
  /\ UNCHANGED <<source, now, env, discovered>>

Next ==
  \/ Tick \/ PauseOrResume \/ Seek \/ Leave \/ Move
  \/ \E t \in Tracks : StartTrack(t)
  \/ Reported \/ ScheduledCleanup

Spec == Init /\ [][Next]_vars
----------------------------------------------------------------------------
\* What a range counts beyond what the graces allow it: to begin at position 1 and to
\* last to the end of the track.
Grace      == EndBuffer - 1 + Snap - 1
Beyond(r)  == IF r.to - r.from > Grace THEN r.to - r.from - Grace ELSE 0
Credit(rs) == Sum([i \in 1..Len(rs) |-> Beyond(rs[i])])

\* What is credited to a track by what was discovered of a player, and by what it is
\* playing unless that is discovered already.
From(d, key) == source.multi => d.platform = key
Found(t, key) ==
  Sum([i \in 1..Len(discovered) |->
         IF From(discovered[i], key) /\ discovered[i].play.track = t
           THEN Credit(discovered[i].play.ranges) ELSE 0])
Playing(t, key) ==
  IF /\ key \in DOMAIN players /\ players[key].track = t
     /\ \A d \in ToSet(discovered) :
          From(d, key) /\ d.play.track = t => d.play.date # players[key].seen
    THEN Credit(players[key].ranges \o players[key].cur) ELSE 0

\* A player that knows positions never counts more than was heard, and never more than
\* the time gone by when the user jumped ahead: up to the allowed drift and the graces.
InTime(r) == r.to - r.from <= r.until - r.since + Drift + EndBuffer - 1
CountsWhatWasHeard ==
  source.kind = "positional" =>
    /\ seeks = 0 => \A t \in Tracks, k \in Platforms : Found(t, k) + Playing(t, k) <= heard[t]
    /\ \A d \in ToSet(discovered) : \A r \in ToSet(d.play.ranges) : InTime(r)
    /\ \A k \in DOMAIN players : \A r \in ToSet(players[k].ranges \o players[k].cur) : InTime(r)

\* A play that was listened to for long enough is discovered before its player lets go
\* of it: when the track changes or is played again, the player stops or is removed (but
\* for the removals of ScheduledCleanup).
Holds(ps, play) == \E k \in DOMAIN ps : ps[k].track = play.track /\ ps[k].seen = play.date
LongEnough(p) == PassesThreshold(Listened(p)) /\ PassesThreshold(Listened(Stopped(p, now)))
NothingIsLost ==
  [][\A k \in DOMAIN players :
       LET p == players[k]
       IN  p.track # NoTrack /\ LongEnough(p)
             => \/ Holds(players', [track |-> p.track, date |-> p.seen])
                \/ \E d \in ToSet(discovered') : SameListen(d.play, Played(p)[1])
                \/ ~source.polled /\ k \notin DOMAIN players']_vars

\* A player that is silent has its play discovered while it waits to be removed.
IsDiscovered(k) ==
  PassesThreshold(Listened(players[k]))
    => \E d \in ToSet(discovered) : SameListen(d.play, Played(players[k])[1])
StaleIsDiscovered ==
  source.polled => \A k \in attempted \cap DOMAIN players : IsDiscovered(k)

=============================================================================
