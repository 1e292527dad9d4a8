-------------------------------- MODULE Ingress -------------------------------
(***************************************************************************)
(* Webhooks: the ingress routes of Plex, Tautulli, Jellyfin and             *)
(* WebScrobbler, and the sources PlexSource, TautulliSource, JellyfinSource *)
(* and WebScrobblerSource that take what they receive.                      *)
(*                                                                          *)
(* A server or browser extension notifies of each listen.  Notifications    *)
(* arrive late, out of order, more than once, unreadable or not at all.     *)
(* The route gives each one it can read to its sources in turn; a source    *)
(* filters it, works out when the play took place, and announces it to the  *)
(* clients unless it knows it already.  A Jellyfin source also follows the  *)
(* players, and is told of the end of what it followed ("UserDataSaved").   *)
(*                                                                          *)
(* Time is in units of 10 seconds.                                          *)
(***************************************************************************)
EXTENDS Integers, Sequences

CONSTANTS
    Tracks, Users,
    SourceSets,     \* for each route, configurations of its sources, in their order
    Duration,       \* of every track
    MaxTime,        \* bound
    MaxListens,     \* bound
    MaxDeliveries   \* bound: notifications delivered

None == "none"
Routes == {"plex", "tautulli", "jellyfin", "webscrobbler"}
Hour == 360

VARIABLES
    route,
    sources,    \* sequence of [ours, label, only, except]: ours is FALSE for a source
                \* of another class; label is its slug or name
    zone,       \* Jellyfin: the error of the dates it sends, from a wrong UTC offset
    now,
    listens,    \* the listens that there were: [track, user, start, end, offline]
    mail,       \* notifications on their way
    deliveries,
    tracked,    \* Jellyfin: for each source, the listen its player has, or 0
    discovered, \* for each source, sequence of [listen, date]: recentDiscoveredPlays
    thrown      \* history: what [source, listen] a source in front, throwing, cut off

vars == <<route, sources, zone, now, listens, mail, deliveries, tracked, discovered, thrown>>

Distance(a, b) == IF a < b THEN b - a ELSE a - b

-----------------------------------------------------------------------------
(* The listens: external.  An offline listen is reported when the player is  *)
(* online again.  `to` is the slug in the path, or the name in the payload.  *)

Live == {l \in DOMAIN listens : listens[l].end = -1}

Begin ==
    /\ Live = {} /\ Len(listens) < MaxListens
    /\ \E t \in Tracks, u \in Users, off \in IF route = "jellyfin" THEN BOOLEAN ELSE {FALSE} :
           listens' = Append(listens, [track |-> t, user |-> u, start |-> now, end |-> -1, offline |-> off])
    /\ UNCHANGED <<route, sources, zone, now, mail, deliveries, tracked, discovered, thrown>>

\* What a notification says: of an event that is no scrobble, or of a track that
\* was not played to its end or is not to be scrobbled, it is not `final`.  Some
\* leave out the user; a Jellyfin client sends the time at which the play ended
\* or, some do, started.
Notifications(l) ==
    [listen : {l},
     user : IF route \in {"jellyfin", "webscrobbler"} THEN {listens[l].user} ELSE {listens[l].user, None},
     to : IF route \in {"plex", "jellyfin"} THEN {None} ELSE {sources[i].label : i \in DOMAIN sources} \union {None},
     date : IF route = "jellyfin" THEN {listens[l].start, now} ELSE {listens[l].start},
     final : BOOLEAN]

Finish(l) ==
    /\ l \in Live /\ now - listens[l].start >= Duration
    /\ listens' = [listens EXCEPT ![l].end = now]
    /\ \E n \in Notifications(l) : mail' = mail \union {n}
    /\ UNCHANGED <<route, sources, zone, now, deliveries, tracked, discovered, thrown>>

Tick ==
    /\ now < MaxTime /\ now' = now + 1
    /\ UNCHANGED <<route, sources, zone, listens, mail, deliveries, tracked, discovered, thrown>>

-----------------------------------------------------------------------------
(* Which sources a route gives a notification to. *)

\* Without a slug, a source that has one throws: the sources behind it are
\* not reached.  So does a source of another class, without a handler.
MatchSlug(source, to) == source.label = to

Throws(source, n) ==
    CASE route = "webscrobbler" -> n.to = None /\ source.label # None
      [] route \in {"plex", "jellyfin"} -> ~source.ours
      [] OTHER -> FALSE

\* The first source of the name, whatever its type.
Named(to) == {i \in DOMAIN sources : sources[i].label = to /\ \A j \in 1..(i - 1) : sources[j].label # to}

Candidates(n) ==
    CASE route = "webscrobbler" -> {i \in DOMAIN sources : MatchSlug(sources[i], n.to)}
      [] route = "tautulli" /\ n.to # None -> {i \in Named(n.to) : sources[i].ours}
      [] OTHER -> {i \in DOMAIN sources : sources[i].ours}

CutOff(n) == {i \in Candidates(n) : \E j \in 1..(i - 1) : Throws(sources[j], n)}

(* isValidEvent, isValidScrobble.  Plex and Tautulli let pass who is not      *)
(* named; for WebScrobbler it is the connector that is filtered.             *)
AcceptsPlex(source, n) == n.final /\ (source.only # {} => n.user \in source.only \union {None})
AcceptsJellyfin(source, n) == n.final /\ (source.only # {} => n.user \in source.only)
AcceptsWebScrobbler(source, n) ==
    n.final /\ n.user \notin source.except /\ (source.only # {} => n.user \in source.only)

Accepts(source, n) ==
    CASE route = "jellyfin" -> AcceptsJellyfin(source, n)
      [] route = "webscrobbler" -> AcceptsWebScrobbler(source, n)
      [] OTHER -> AcceptsPlex(source, n)

-----------------------------------------------------------------------------
(* When it took place (formatPlayObj), and what is known already. *)

\* Plex and Tautulli do not say: it is the time of arrival.
PlexDate(n) == now
TautulliDate(n) == now
JellyfinDate(n) == n.date
WebScrobblerDate(n) == n.date

PlayDate(n) ==
    CASE route = "plex" -> PlexDate(n)
      [] route = "tautulli" -> TautulliDate(n)
      [] route = "webscrobbler" -> WebScrobblerDate(n)

SameListener(k, l) == listens[k].track = listens[l].track /\ listens[k].user = listens[l].user

Tolerance == 1
Close(a, b) == Distance(a, b) <= Tolerance

\* Mutant: only the play discovered last is compared.
Known_Newest(i, l, date) ==
    /\ discovered[i] # <<>>
    /\ LET newest == discovered[i][Len(discovered[i])] IN SameListener(newest.listen, l) /\ Close(newest.date, date)
Known(i, l, date) ==
    \E k \in DOMAIN discovered[i] :
        SameListener(discovered[i][k].listen, l) /\ Close(discovered[i][k].date, date)

\* discover and scrobble, for the sources of a set.
Announced(at, l, date) ==
    [i \in DOMAIN discovered |->
        IF i \in at /\ ~Known(i, l, date) THEN Append(discovered[i], [listen |-> l, date |-> date])
        ELSE discovered[i]]

(* JellyfinSource.handle for the end of a play.  A date of an hour ahead, or  *)
(* one that is present once the offset is taken off, has the wrong offset.   *)
Corrected(date) ==
    LET sent == date + zone IN
    IF sent >= now + Hour \/ Distance(now, sent - zone) <= Tolerance THEN sent - zone ELSE sent

Followed(i, l, date) ==
    tracked[i] # 0 /\ SameListener(tracked[i], l) /\ Close(listens[tracked[i]].start, date)

\* Mutant: the difference is taken without its sign, as in the guard before.
Offline_Unsigned(i, l, date) ==
    /\ ~Followed(i, l, date)
    /\ Distance(now, date) >= 3
    /\ Distance(now, date + Duration) >= 1
Offline(i, l, date) ==
    /\ ~Followed(i, l, date)
    /\ Distance(now, date) >= 3
    /\ now - (date + Duration) >= 1

-----------------------------------------------------------------------------
Init ==
    /\ route \in Routes /\ sources \in SourceSets[route]
    /\ zone \in IF route = "jellyfin" THEN {-5 * Hour, 0, Hour, 2 * Hour} ELSE {0}
    /\ now = 0 /\ listens = <<>> /\ mail = {} /\ deliveries = 0
    /\ tracked = [i \in DOMAIN sources |-> 0]
    /\ discovered = [i \in DOMAIN sources |-> <<>>]
    /\ thrown = {}

\* The notification may come again; what was played online is not late.
Deliver(n) ==
    /\ n \in mail /\ deliveries < MaxDeliveries
    /\ route = "jellyfin" /\ ~listens[n.listen].offline => now - listens[n.listen].end <= Tolerance
    /\ deliveries' = deliveries + 1
    /\ \E again \in BOOLEAN : mail' = IF again THEN mail ELSE mail \ {n}
    /\ UNCHANGED <<route, sources, zone, now, listens>>

\* The body is empty, of another type or cannot be parsed.
Unreadable(n) ==
    /\ Deliver(n)
    /\ UNCHANGED <<tracked, discovered, thrown>>

Served(n) == {i \in Candidates(n) \ CutOff(n) : Accepts(sources[i], n)}

CutOffNow(n) == thrown \union {[source |-> i, listen |-> n.listen] : i \in CutOff(n)}

\* PlexSource, TautulliSource and WebScrobblerSource.
Receive(n) ==
    /\ route # "jellyfin" /\ Deliver(n)
    /\ discovered' = Announced(Served(n), n.listen, PlayDate(n))
    /\ thrown' = CutOffNow(n)
    /\ UNCHANGED tracked

\* JellyfinSource, event "UserDataSaved" with reason "PlaybackFinished".
ReceiveEnd(n) ==
    /\ route = "jellyfin" /\ Deliver(n)
    /\ LET date == Corrected(JellyfinDate(n)) IN
       discovered' = Announced({i \in Served(n) : Offline(i, n.listen, date)}, n.listen, date)
    /\ thrown' = CutOffNow(n)
    /\ UNCHANGED tracked

\* "PlaybackStarted", "PlaybackProgress": the player of a source has the play.
\* The play it had is discovered if it was heard for long enough.
ReceiveProgress(l) ==
    /\ route = "jellyfin" /\ l \in Live /\ ~listens[l].offline
    /\ LET n == [listen |-> l, user |-> listens[l].user, to |-> None, date |-> now, final |-> TRUE]
           at == {i \in Served(n) : tracked[i] # l} IN
       /\ at # {}
       /\ tracked' = [i \in DOMAIN tracked |-> IF i \in at THEN l ELSE tracked[i]]
       /\ \E heard \in SUBSET {i \in at : tracked[i] # 0} :
              discovered' = [i \in DOMAIN discovered |->
                                IF i \in heard THEN Announced({i}, tracked[i], listens[tracked[i]].start)[i]
                                ELSE discovered[i]]
    /\ UNCHANGED <<route, sources, zone, now, listens, mail, deliveries, thrown>>

\* The player's session is over, or its play was heard for long enough.
Heard(i) ==
    /\ tracked[i] # 0
    /\ discovered' = Announced({i}, tracked[i], listens[tracked[i]].start)
    /\ \E over \in BOOLEAN : tracked' = IF over THEN [tracked EXCEPT ![i] = 0] ELSE tracked
    /\ UNCHANGED <<route, sources, zone, now, listens, mail, deliveries, thrown>>

Next ==
    \/ Begin \/ Tick \/ \E l \in DOMAIN listens : Finish(l) \/ ReceiveProgress(l)
    \/ \E n \in mail : Unreadable(n) \/ Receive(n) \/ ReceiveEnd(n)
    \/ \E i \in DOMAIN sources : Heard(i)

Spec == Init /\ [][Next]_vars

-----------------------------------------------------------------------------
Times(i, l) == {k \in DOMAIN discovered[i] : discovered[i][k].listen = l}

\* No source announces a listen twice, however often and whenever it hears of
\* it, live and again at its end: except that Plex and Tautulli only know it
\* again for 10 seconds, and that Jellyfin's dates cannot be corrected when the
\* offset is negative (TimeUtils.ts:57, JellyfinSource.ts:303).
ListenOnce ==
    \A i \in DOMAIN sources, l \in DOMAIN listens :
        \A j, k \in Times(i, l) :
            \/ j = k
            \/ route \in {"plex", "tautulli"} /\ ~Close(discovered[i][j].date, discovered[i][k].date)
            \/ route = "jellyfin" /\ zone < 0

\* Nothing that is announced is dated in the future (JellyfinSource.ts:294).
NeverAhead == \A i \in DOMAIN sources : \A k \in DOMAIN discovered[i] : discovered[i][k].date <= now

\* A notification that names no slug is served by the WebScrobbler source that has
\* none, as webscrobbler.ts (the configuration's interface) promises.
SluglessIsServed == route = "webscrobbler" => thrown = {}
=============================================================================
