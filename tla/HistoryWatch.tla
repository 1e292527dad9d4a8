---------------------------- MODULE HistoryWatch ----------------------------
(***************************************************************************)
(* YouTube Music tells neither when nor how often a track was played: its  *)
(* history is a list of tracks, newest first, in which a track that is     *)
(* played again the same day moves to the top.  YTMusicSource compares     *)
(* each answer with the one before and takes what was put or moved on top  *)
(* for plays (YTMusicSource.ts over PlayComparisonUtils.ts).               *)
(***************************************************************************)
EXTENDS Integers, FiniteSets, Sequences, SequencesExt, Places

CONSTANTS
  Songs,
  Window,      \* entries of the history that are compared
  Remembered,  \* answers kept in recentChangedHistoryResponses
  MaxListens, MaxDays, MaxStale  \* bounds: listens, days, outdated answers

VARIABLES
  history,     \* what the service keeps
  today,       \* how many of its entries are of this day
  before,      \* the history before its latest change
  pending,     \* listens since a poll found plays
  fresh,       \* how many of them the service's answers have not shown yet
  current,     \* the latest answer was not outdated
  recentlyPlayed,  \* the answer before, as far as it is compared
  recentChanged,   \* recentChangedHistoryResponses
  polling,
  found,       \* the new plays of the latest answer
  since,       \* time since the latest discovery, in halves of a track
  listens, stale

service == <<history, today, before, listens>>
watcher == <<recentlyPlayed, recentChanged, polling, found>>
vars    == <<service, pending, fresh, current, watcher, since, stale>>
----------------------------------------------------------------------------
\* The how manieth entry with its track this one is.
Nth(list, i) == Cardinality({k \in 1..i : list[k] = list[i]})

\* getListDiff() of superdiff: each entry of b is the first equal entry of a that is not
\* another one's already; the result is its place, 0 for an entry that was added.
Origins(a, b) ==
  [i \in 1..Len(b) |->
     LET same == {j \in 1..Len(a) : a[j] = b[i] /\ Nth(a, j) = Nth(b, i)}
     IN  IF same = {} THEN 0 ELSE CHOOSE j \in same : TRUE]

Equal(a, b) == a = b

\* playsAreBumpedOnly(): everything is where it was or one further, from the bump on.
\* "prepend" is a move to the top, "append" one to the end.
BumpType(a, b) ==
  LET o == Origins(a, b)
      n == Len(b)
      shift(i) == i - o[i]
      type == IF shift(1) < 0 THEN "prepend" ELSE "append"
  IN  IF \/ Len(a) # n \/ n = 0 \/ a = b \/ (\E i \in 1..n : o[i] = 0) \/ shift(1) > 0
         \/ type = "append" /\ n > 1 /\ shift(n) = 0
         \/ \E i \in 2..(n - 1) : shift(i) \notin -1..1
         \/ \E i \in 2..(n - 2) : IF type = "prepend" THEN shift(i) = 0 /\ shift(i + 1) # 0
                                  ELSE shift(i) # 0 /\ shift(i + 1) = 0
      THEN "none" ELSE type

\* playsAreAddedOnly(): what was added is one block at the top or at the end.  An entry is
\* replaced when the one at its place was deleted.
AddType(a, b) ==
  LET o == Origins(a, b)
      n == Len(b)
      added(i)    == o[i] = 0
      replaced(i) == added(i) /\ i <= Len(a) /\ \A j \in 1..n : o[j] # i
  IN  IF \/ \E i \in 1..n : replaced(i)
         \/ \E i \in 2..(n - 1) : added(i) /\ ~added(IF added(1) THEN i - 1 ELSE i + 1)
      THEN "none"
      ELSE IF n > 1 /\ added(n) THEN "append"
      ELSE IF n > 0 /\ added(1) THEN "prepend" ELSE "none"

\* The plays that were added, oldest first.
AddedPlays(a, b) == Reverse(Kept(b, {i \in 1..Len(b) : Origins(a, b)[i] = 0}))

\* Mutant of Reverted: an answer that was seen before is compared like any other.
Reverted_Never(plays) == FALSE

\* The service answered with a list that it has answered with shortly before.
Reverted(plays) == \E i \in 1..Len(recentChanged) : Equal(recentChanged[i], plays)

\* getIncomingHistoryConsistencyResult()
NewPlays(plays) ==
  CASE Equal(recentlyPlayed, plays) -> <<>>
    [] ~Equal(recentlyPlayed, plays) /\ BumpType(recentlyPlayed, plays) # "none" ->
         IF BumpType(recentlyPlayed, plays) = "prepend" THEN <<plays[1]>> ELSE <<>>
    [] OTHER ->
         IF AddType(recentlyPlayed, plays) = "prepend" /\ ~Reverted(plays)
           THEN AddedPlays(recentlyPlayed, plays) ELSE <<>>

\* Of several new plays the earlier ones count when half of each fits into the time since
\* the latest discovery, counted from the newest.
Listenable(plays) ==
  IF recentChanged = <<>> THEN plays
  ELSE Kept(plays, {i \in 1..Len(plays) : i = Len(plays) \/ since > Len(plays) - i})

FirstOf(list, n) == SubSeq(list, 1, IF Len(list) < n THEN Len(list) ELSE n)

\* Mutant of Watch: the answer replaces the one before only when it has new plays.
Watch_Lazy(plays, new) ==
  /\ recentlyPlayed' = IF new = <<>> THEN recentlyPlayed ELSE plays
  /\ recentChanged' = IF new = <<>> THEN recentChanged
                      ELSE <<plays>> \o FirstOf(recentChanged, Remembered - 1)
  /\ found' = new

\* The end of parseRecentAgainstResponse().
Watch(plays, new) ==
  /\ recentlyPlayed' = plays
  /\ recentChanged' = IF new = <<>> THEN recentChanged
                      ELSE <<plays>> \o FirstOf(recentChanged, Remembered - 1)
  /\ found' = new

Cut(list) == FirstOf(list, Window)
----------------------------------------------------------------------------
Init ==
  /\ history \in UNION {[1..n -> Songs] : n \in 0..Window}
  /\ IsInjective(history)
  /\ today = 0 /\ before = history
  /\ pending = <<>> /\ fresh = 0 /\ current = TRUE
  /\ recentlyPlayed = <<>> /\ recentChanged = <<>> /\ found = <<>>
  /\ polling = FALSE
  /\ since = 0 /\ listens = 0 /\ stale = 0

\* A track that is neither on top nor listed on an earlier day.
Plain(s) ==
  /\ s \notin ToSet(SubSeq(history, today + 1, Len(history)))
  /\ history # <<>> => history[1] # s

\* The user plays a track to its end, or skips it.  It moves to the top of the day's part
\* of the history.
Listen ==
  \E s \in Songs, skipped \in BOOLEAN :
    /\ listens < MaxListens /\ polling
    /\ listens' = listens + 1
    /\ \/ /\ s \notin ToSet(SubSeq(history, 1, today))
          /\ history' = <<s>> \o history
          /\ today' = today + 1
       \/ \E p \in 1..today :
            /\ history[p] = s
            /\ history' = <<s>> \o RemoveAt(history, p)
            /\ UNCHANGED today
    /\ before' = history
    /\ pending' = Append(pending, [song |-> s, plain |-> Plain(s)])
    /\ fresh' = fresh + 1
    /\ since' = IF skipped THEN since ELSE since + 2
    /\ UNCHANGED <<current, watcher, stale>>

\* A day begins with an empty part of the history.
NewDay ==
  /\ today > 0 /\ today < MaxDays
  /\ today' = 0
  /\ UNCHANGED <<history, before, listens, pending, fresh, current, watcher, since, stale>>

\* onPollPostAuthCheck(): the first answer is the reference, all of it is discovered.
Hydrate ==
  /\ ~polling /\ polling' = TRUE
  /\ recentlyPlayed' = Cut(history)
  /\ recentChanged' = IF history = <<>> THEN recentChanged ELSE <<Cut(history)>>
  /\ since' = 0
  /\ UNCHANGED <<service, pending, fresh, current, found, stale>>

Parse(answer) ==
  LET new == Listenable(NewPlays(answer))
  IN  /\ Watch(answer, new)
      /\ since' = IF new = <<>> THEN since ELSE 0

\* getRecentlyPlayed() reads the history of the service, which may be outdated.
Poll ==
  /\ polling
  /\ Parse(Cut(history))
  /\ pending' = IF found' = <<>> THEN pending ELSE <<>>
  /\ fresh' = 0 /\ current' = TRUE
  /\ UNCHANGED <<service, polling, stale>>

\* (An outdated answer that undoes a move to the top passes for such a move itself; the
\* outdated answers here lack a track that is new.)
PollOutdated ==
  /\ polling /\ stale < MaxStale
  /\ before # history /\ history[1] \notin ToSet(Cut(before))
  /\ stale' = stale + 1
  /\ Parse(Cut(before))
  /\ current' = FALSE
  /\ UNCHANGED <<service, polling, pending, fresh>>

Next == Listen \/ NewDay \/ Hydrate \/ Poll \/ PollOutdated

Spec == Init /\ [][Next]_vars
----------------------------------------------------------------------------
\* The entries of t are entries of s, in their order.
Within(t, s) ==
  \E f \in [1..Len(t) -> 1..Len(s)] :
    /\ \A i \in 1..Len(t) : t[i] = s[f[i]]
    /\ \A i, j \in 1..Len(t) : i < j => f[i] < f[j]

\* A poll reports only plays that were listened to since one that reported plays, in
\* their order, also when the service falls back to an older answer -- unless there are
\* listens on top of what it fell back from.
FoundWasHeard ==
  Poll /\ (current \/ fresh = 0) => Within(found', [i \in 1..Len(pending) |-> pending[i].song])
NothingIsInvented == [][FoundWasHeard]_vars

\* A track that was listened to between two polls is found, unless it was on top already
\* or is listed on an earlier day as well, or it is new and makes the history look as it
\* did in one of the answers that are remembered.
HeardIsFound ==
  /\ Poll /\ current /\ fresh = 1 /\ Last(pending).plain
  /\ Last(pending).song \in ToSet(recentlyPlayed) \/ ~Reverted(Cut(history))
  => found' = <<Last(pending).song>>
OneListenIsFound == [][HeardIsFound]_vars
=============================================================================
