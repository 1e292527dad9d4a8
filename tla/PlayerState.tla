---------------------------- MODULE PlayerState ----------------------------
(***************************************************************************)
(* A player of a memory source: AbstractPlayerState and its subclasses.    *)
(* From the states that a service reports it derives how long the current  *)
(* play was listened to, in ranges that end when the player pauses, stops, *)
(* is seeked or goes silent.                                               *)
(*                                                                         *)
(* A player is a value and its methods are operators on it.  Times and     *)
(* positions share one unit.                                               *)
(***************************************************************************)
EXTENDS Integers, Sequences, SequencesExt

CONSTANTS
  Tracks, NoTrack,
  Duration,     \* of every track
  Drift,        \* allowedDrift
  EndBuffer,    \* gracefulEndBuffer
  Snap,         \* a new track reported this early is counted from position 1
  StartZone,    \* positions at which a track may have been started again
  EndZone,      \* what is left of a track that was nearly finished
  LongListen,   \* listening after which a jump to the start is a repeat
  StaleAfter,   \* staleInterval
  OrphanAfter   \* orphanedInterval

ASSUME PlayerStateAssumption ==
  /\ NoTrack \notin Tracks
  /\ {Duration, Drift, EndBuffer, Snap, StartZone, EndZone, LongListen,
      StaleAfter, OrphanAfter} \subseteq Nat \ {0}

Statuses == {"unknown", "playing", "paused", "stopped", "stale", "orphaned"}

Positional(p) == p.kind # "timestamp"
----------------------------------------------------------------------------
\* A listen range: where the player was, and when, at its first and latest report.
\* The clock of a positional range runs from its first report on.
Length(kind, r) == IF kind = "timestamp" THEN r.until - r.since ELSE r.to - r.from
Clock(r, t)  == r.from + t - r.since

Sum(s) ==
  LET sum[n \in 0..Len(s)] == IF n = 0 THEN 0 ELSE sum[n - 1] + s[n]
  IN  sum[Len(s)]
SumOf(kind, rs) == Sum([i \in 1..Len(rs) |-> Length(kind, rs[i])])
Listened(p)     == SumOf(p.kind, p.ranges \o p.cur)

NewPlayer(kind, t) ==
  [kind |-> kind, calc |-> "unknown", reported |-> "unknown", track |-> NoTrack,
   seen |-> 0, playAt |-> 0, ranges |-> <<>>, cur |-> <<>>, stateAt |-> t]

\* getPlayedObject(): nothing, or the play with what was listened of it.
Played(p) ==
  IF p.track = NoTrack THEN <<>>
  ELSE <<[track |-> p.track, date |-> p.seen, listened |-> Listened(p),
          ranges |-> p.ranges \o p.cur]>>

\* isUpdateStale(), isOrphaned(), isDead()
UpdateStale(p, t) == p.track # NoTrack /\ t - p.playAt > StaleAfter
Orphaned(p, t)    == t - p.stateAt >= OrphanAfter
Dead(p, t)        == t - p.stateAt >= 2 * OrphanAfter
----------------------------------------------------------------------------
\* currentListenSessionEnd(): a track that was nearly over counts as finished; a player
\* that trusts its own clock (Plex) takes the position from it.
Ended(p, r, t) ==
  CASE p.kind = "timestamp" -> r
    [] p.kind # "timestamp" /\ p.calc \in {"playing", "stale"} /\ Duration - r.to < EndBuffer ->
         [r EXCEPT !.to = Duration]
    [] OTHER -> IF p.kind = "plex" THEN [r EXCEPT !.to = Clock(r, t)] ELSE r

\* Mutant of SessionEnd: a range that ended stays the current one as well.
SessionEnd_Kept(p, t) ==
  [p EXCEPT !.ranges = IF p.cur = <<>> THEN @ ELSE Append(@, Ended(p, p.cur[1], t))]

SessionEnd(p, t) ==
  [p EXCEPT !.ranges = IF p.cur # <<>> /\ Length(p.kind, p.cur[1]) # 0
                         THEN Append(@, Ended(p, p.cur[1], t)) ELSE @,
            !.cur = <<>>]

\* ListenRangePositional.seeked(): by how much, and whether it is a seek at all.
SeekedBy(r, pos, t) == IF pos < r.to THEN pos - r.to ELSE pos - Clock(r, t)
Drifted(r, pos, t)  == pos - Clock(r, t) > Drift \/ Clock(r, t) - pos > Drift
Seeked(p, pos, t)   ==
  /\ Positional(p) /\ p.cur # <<>>
  /\ pos < p.cur[1].to \/ Drifted(p.cur[1], pos, t)

\* isSessionRepeat(): a jump back to the start of a track that was heard for long or
\* nearly finished.
SessionRepeat(p, pos, t) ==
  /\ Seeked(p, pos, t) /\ SeekedBy(p.cur[1], pos, t) <= 0
  /\ pos <= StartZone \/ 100 * pos <= 15 * Duration
  /\ \/ Listened(p) >= LongListen \/ 2 * Listened(p) >= Duration
     \/ Duration - p.cur[1].to < EndZone \/ 100 * p.cur[1].to > 85 * Duration

\* isSessionStillPlaying()
StillPlaying(p, pos, t) ==
  IF p.kind = "plex" THEN p.reported = "playing"
  ELSE ~Drifted(p.cur[1], pos, t) \/ pos # p.cur[1].to

StatusAfter(p, pos, t) ==
  CASE p.kind = "timestamp" -> "playing"
    [] Positional(p) /\ ~StillPlaying(p, pos, t) /\ p.calc \notin {"paused", "stopped"} ->
         IF p.reported = "stopped" THEN "stopped" ELSE "paused"
    [] OTHER -> IF pos # p.cur[1].to THEN "playing" ELSE p.calc

\* currentListenSessionContinue()
SessionContinue(p, pos, t) ==
  IF p.cur = <<>>
    THEN LET at == IF Positional(p) /\ p.calc = "playing" /\ pos <= Snap THEN 1 ELSE pos
         IN  [p EXCEPT !.cur = <<[from |-> at, to |-> at, since |-> t, until |-> t]>>]
    ELSE [p EXCEPT !.calc = StatusAfter(p, pos, t),
                   !.cur = <<[p.cur[1] EXCEPT !.to = pos, !.until = t]>>]
----------------------------------------------------------------------------
\* setCurrentPlay()
SetCurrentPlay(p, rep, t) ==
  LET q == [p EXCEPT !.track = rep.track, !.seen = t, !.ranges = <<>>, !.cur = <<>>]
  IN  IF q.reported = "stopped" THEN q ELSE SessionContinue(q, rep.pos, t)

\* The seek that setPlay() looks for before it continues a range.
SeekEnds(p, rep, t) ==
  IF Seeked(p, rep.pos, t)
    THEN SessionEnd([p EXCEPT !.calc = IF p.cur[1].to = rep.pos THEN "paused" ELSE @], t)
    ELSE p

\* setPlay(): the player afterwards, and the play that a report ended.
SetPlay(p0, rep, t) ==
  LET p == [p0 EXCEPT !.playAt = t,
                      !.reported = IF rep.status = "none" THEN @ ELSE rep.status]
      ended == SessionEnd(p, t)
      next  == SetCurrentPlay(ended, rep, t)
  IN CASE p.track = NoTrack ->
            [player |-> [SetCurrentPlay(p, rep, t) EXCEPT !.calc = "unknown"], done |-> <<>>]
       [] p.track \notin {NoTrack, rep.track} ->
            [player |-> [next EXCEPT !.calc = IF @ = "playing" THEN @ ELSE "unknown"],
             done   |-> Played(ended)]
       [] p.track = rep.track /\ rep.status \in {"paused", "stopped"} ->
            [player |-> [ended EXCEPT !.calc = p.reported], done |-> <<>>]
       [] p.track = rep.track /\ rep.status \notin {"paused", "stopped"} ->
            IF SessionRepeat(p, rep.pos, t)
              THEN [player |-> next, done |-> Played(ended)]
              ELSE [player |-> SessionContinue(SeekEnds(p, rep, t), rep.pos, t), done |-> <<>>]

\* stopPlayer() and clearPlayer()
Stopped(p, t) == SessionEnd([p EXCEPT !.reported = "stopped", !.calc = "stopped", !.playAt = t], t)
Cleared(p)    == [p EXCEPT !.track = NoTrack, !.playAt = 0, !.seen = 0, !.ranges = <<>>, !.cur = <<>>]

\* update(): a report without a play only tells a status.
Update(p0, rep, t) ==
  LET p == [p0 EXCEPT !.stateAt = t]
  IN  IF rep.track # NoTrack THEN SetPlay(p, rep, t)
      ELSE IF rep.status = "stopped" /\ p.reported # "stopped" /\ p.track # NoTrack
        THEN [player |-> Cleared(Stopped(p, t)), done |-> Played(Stopped(p, t))]
        ELSE [player |-> [p EXCEPT !.reported = IF rep.status = "none" THEN @ ELSE rep.status],
              done   |-> <<>>]

\* checkStale() and checkOrphaned()
CheckStale(p, t) ==
  IF UpdateStale(p, t) /\ p.calc \notin {"stale", "orphaned"}
    THEN SessionEnd([p EXCEPT !.calc = "stale"], t) ELSE p
CheckOrphaned(p, t) == IF Orphaned(p, t) THEN [p EXCEPT !.calc = "orphaned"] ELSE p

\* transferToNewPlayer()
TransferTo(p, t) ==
  [NewPlayer(p.kind, t) EXCEPT
     !.calc = p.calc, !.track = p.track,
     !.reported = IF p.track = NoTrack THEN @ ELSE p.reported,
     !.seen = p.seen, !.playAt = p.playAt, !.ranges = p.ranges, !.cur = p.cur]
=============================================================================
