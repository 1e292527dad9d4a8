----------------------------- MODULE PolledPlayers ----------------------------
(***************************************************************************)
(* The sources that poll a player or music server of the user's own: MPD,   *)
(* VLC, Musikcube, Mopidy, Subsonic and MPRIS.  Each reaches its server in  *)
(* its own way, notices in its own way that the server is gone, and makes a *)
(* play of what the server says it plays.                                   *)
(*                                                                          *)
(* The polling is that of AbstractSource as SourcePolling has it, without   *)
(* the API's requests: heartbeats initialize a source that is not ready and *)
(* start its polling; an error is retried, then ends the polling.           *)
(***************************************************************************)
EXTENDS Naturals

CONSTANTS
    Kinds,          \* of sources.  An "mpdSocket" is an MPD that is configured by path
    Tracks,         \* [uri, artist, albumArtist, other]: what they are tagged with.
                    \* `uri` stands for the name of the player with MPRIS
    None,           \* no tag
    Filters,        \* [white, black]: sets of uris
    MaxRetries      \* maxPollRetries

VARIABLES
    kind, filter,
    sound,          \* the configuration can be built
    password,       \* it is the right one
    up,             \* the server answers
    playing,        \* the tracks it plays
    wire,           \* the client's connection, of kinds that keep one
    buildOK, connectionOK, authed, authFailure,
    stage,          \* of the source's coroutine
    within,         \* it initializes within startPolling
    retries,        \* pollRetries
    tracked         \* the plays the players were last told of

server == <<kind, filter, sound, password, up, playing>>
flags == <<buildOK, connectionOK, authed, authFailure>>
vars == <<server, wire, flags, stage, within, retries, tracked>>

NeedsAuth == kind \notin {"mopidy", "mpris"}
MultiPlatform == kind \in {"subsonic", "mpris"}
IsReady == buildOK /\ connectionOK /\ (NeedsAuth => authed)

-----------------------------------------------------------------------------
(* formatPlayObj: whom a play credits. *)

Given(tag) == {tag} \ {None}

\* The first of the tags that is given.
FirstGiven(a, b, c) == IF a # None THEN {a} ELSE IF b # None THEN {b} ELSE Given(c)

Credited(artists, albumArtists) == [artists |-> artists, albumArtists |-> albumArtists]

\* Mutant: album artists stay what they are when there is nobody else.
FormatMpd_Kept(track) ==
    LET artists == FirstGiven(track.artist, track.other, None) IN
    Credited(artists, Given(track.albumArtist) \ Given(track.artist))
FormatMpd(track) ==
    LET artists == FirstGiven(track.artist, track.other, None)
        albumArtists == Given(track.albumArtist) \ Given(track.artist)
    IN IF artists = {} THEN Credited(albumArtists, {}) ELSE Credited(artists, albumArtists)

\* The stream's artist and the writer count only beside an artist.
FormatVlc(track) ==
    IF track.artist = None THEN Credited(Given(track.albumArtist), {})
    ELSE Credited({track.artist}, Given(track.albumArtist))

FormatMusikcube(track) ==
    Credited(Given(track.artist), Given(track.albumArtist) \ Given(track.artist))

FormatMopidy(track) ==
    IF track.artist = None /\ track.albumArtist # None THEN Credited({track.albumArtist}, {})
    ELSE Credited(FirstGiven(track.artist, track.other, None), Given(track.albumArtist))

FormatSubsonic(track) == Credited(Given(track.artist), {})

FormatMpris(track) ==
    Credited(Given(track.artist), Given(track.albumArtist) \ Given(track.artist))

FormatPlayObj(track) ==
    [track |-> track,
     play |-> CASE kind \in {"mpd", "mpdSocket"} -> FormatMpd(track)
                [] kind = "vlc" -> FormatVlc(track)
                [] kind = "musikcube" -> FormatMusikcube(track)
                [] kind = "mopidy" -> FormatMopidy(track)
                [] kind = "subsonic" -> FormatSubsonic(track)
                [] kind = "mpris" -> FormatMpris(track)]

-----------------------------------------------------------------------------
(* getRecentlyPlayed. *)

\* Without a whitelist it is the whitelist, again, that is searched for what
\* the blacklist is to keep out.
MopidyKeeps(track) == filter.white # {} => track.uri \in filter.white
MprisKeeps(track) == filter.white # {} => track.uri \in filter.white

Kept == CASE kind = "mopidy" -> {t \in playing : MopidyKeeps(t)}
          [] kind = "mpris" -> {t \in playing : MprisKeeps(t)}
          \* with a wrong password Subsonic answers with an error, which is not thrown
          [] kind = "subsonic" /\ ~password -> {}
          [] OTHER -> playing

Answers ==
    CASE kind \in {"mpd", "mpdSocket", "musikcube"} -> up /\ wire
      [] kind = "mopidy" -> up \/ ~wire    \* a client that is not ready is not asked
      [] OTHER -> up

Tracked == IF kind = "mopidy" /\ ~wire THEN tracked ELSE {FormatPlayObj(t) : t \in Kept}

\* Mutant: a failed poll leaves the flags alone.
Noticed_Nothing(on) == on
\* What a failed poll makes of connectionOK and authed.
Noticed(on) == on /\ kind \notin {"mpd", "mpdSocket", "vlc"}

-----------------------------------------------------------------------------
(* The server: external. *)

Starts ==
    /\ ~up /\ up' = TRUE
    /\ UNCHANGED <<kind, filter, sound, password, playing, wire, flags, stage, within, retries, tracked>>

\* Musikcube's client may, or may not, report that it could not connect again.
Stops ==
    /\ up /\ up' = FALSE /\ wire' = FALSE
    /\ \E told \in BOOLEAN :
           /\ told => kind = "musikcube"
           /\ connectionOK' = (connectionOK /\ ~told)
           /\ authed' = (authed /\ ~told)
    /\ UNCHANGED <<kind, filter, sound, password, playing, buildOK, authFailure, stage, within, retries, tracked>>

PlayingChanges ==
    /\ \E t \in Tracks :
           playing' \in {playing \ {t}, IF MultiPlatform THEN playing \union {t} ELSE {t}}
    /\ UNCHANGED <<kind, filter, sound, password, up, wire, flags, stage, within, retries, tracked>>

\* Mopidy's client connects again by itself, once it was connected.
Reconnects ==
    /\ kind = "mopidy" /\ up /\ connectionOK /\ ~wire /\ wire' = TRUE
    /\ UNCHANGED <<server, flags, stage, within, retries, tracked>>

-----------------------------------------------------------------------------
Init ==
    /\ kind \in Kinds
    /\ filter \in IF kind \in {"mopidy", "mpris"} THEN Filters ELSE {[white |-> {}, black |-> {}]}
    /\ sound \in IF kind \in {"mpd", "vlc", "subsonic"} THEN BOOLEAN ELSE {TRUE}
    /\ password \in IF NeedsAuth THEN BOOLEAN ELSE {TRUE}
    /\ up \in BOOLEAN /\ playing = {} /\ wire = FALSE
    /\ buildOK = FALSE /\ connectionOK = FALSE /\ authed = FALSE /\ authFailure = FALSE
    /\ stage = "idle" /\ within = FALSE /\ retries = 0 /\ tracked = {}

Heartbeat ==
    /\ stage = "idle"
    /\ stage' = IF IsReady THEN "poll" ELSE "build"
    /\ within' = FALSE /\ retries' = 0
    /\ UNCHANGED <<server, wire, flags, tracked>>

\* An error: outside of startPolling the heartbeat ends with it.
Fails ==
    /\ retries' = IF within THEN retries + 1 ELSE retries
    /\ stage' = IF within /\ retries < MaxRetries THEN "backoff" ELSE "idle"

\* doBuildInitData.  What is wrong with a url of Musikcube or Mopidy already
\* throws in the constructor.
MpdBuilds == kind = "mpd" => sound          \* an empty url
VlcBuilds == kind = "vlc" => sound          \* an empty url, a pattern that is no regular expression
SubsonicBuilds == kind = "subsonic" => sound    \* no user, password or url

BuildInitData ==
    /\ stage = "build"
    /\ IF buildOK \/ (MpdBuilds /\ VlcBuilds /\ SubsonicBuilds)
       THEN buildOK' = TRUE /\ stage' = "connect" /\ UNCHANGED retries
       ELSE buildOK' = FALSE /\ Fails
    /\ UNCHANGED <<server, wire, connectionOK, authed, authFailure, within, tracked>>

\* doCheckConnection.  A socket's path is not checked; Musikcube and Mopidy open
\* the connection they keep; an answer that is an error is one of Subsonic too.
MpdConnects == kind = "mpd" => up
VlcConnects == kind = "vlc" => up
SubsonicConnects == kind = "subsonic" => up
MprisConnects == kind = "mpris" => up
MusikcubeConnects == kind = "musikcube" => up /\ wire'
MopidyConnects == kind = "mopidy" => up /\ wire'

Connects ==
    /\ MpdConnects /\ VlcConnects /\ SubsonicConnects /\ MprisConnects
    /\ MusikcubeConnects /\ MopidyConnects
    /\ kind \notin {"musikcube", "mopidy"} => UNCHANGED wire

CheckConnection ==
    /\ stage = "connect"
    /\ \/ /\ connectionOK /\ UNCHANGED wire
          /\ connectionOK' = TRUE /\ stage' = "auth" /\ UNCHANGED retries
       \/ /\ ~connectionOK /\ wire' \in {wire, TRUE} /\ Connects
          /\ connectionOK' = TRUE /\ stage' = "auth" /\ UNCHANGED retries
       \/ /\ ~connectionOK /\ ~up /\ kind # "mpdSocket" /\ wire' = FALSE
          /\ connectionOK' = FALSE /\ Fails
    /\ UNCHANGED <<server, buildOK, authed, authFailure, within, tracked>>

\* doAuthentication.  MPD opens its connection; Musikcube uses the one it has,
\* and gives up after two seconds; to Subsonic a wrong password is no error.
MpdAccepts == kind \in {"mpd", "mpdSocket"} => up /\ password
VlcAccepts == kind = "vlc" => up /\ password
MusikcubeAccepts == kind = "musikcube" => up /\ wire /\ password
SubsonicAccepts == kind = "subsonic" => up
Accepted == MpdAccepts /\ VlcAccepts /\ MusikcubeAccepts /\ SubsonicAccepts

\* An error of the network is one after which it is tried again.  That a
\* socket's file does not exist is none, nor is Musikcube's silence.
OfTheNetwork == ~up /\ kind \in {"mpd", "vlc", "subsonic"}

TestAuth ==
    /\ stage = "auth"
    /\ IF ~NeedsAuth \/ authed
       THEN stage' = "poll" /\ within' = TRUE /\ UNCHANGED <<wire, authed, authFailure, retries>>
       ELSE IF ~authFailure /\ Accepted
            THEN /\ authed' = TRUE /\ authFailure' = FALSE
                 /\ wire' = (wire \/ kind \in {"mpd", "mpdSocket"})
                 /\ stage' = "poll" /\ within' = TRUE /\ UNCHANGED retries
            ELSE /\ authed' = FALSE /\ authFailure' = (authFailure \/ ~OfTheNetwork)
                 /\ Fails /\ UNCHANGED <<wire, within>>
    /\ UNCHANGED <<server, buildOK, connectionOK, tracked>>

Poll ==
    /\ stage = "poll" /\ Answers
    /\ tracked' = Tracked
    /\ UNCHANGED <<server, wire, flags, stage, within, retries>>

\* A request to Mopidy may be on its way when the connection is lost.
PollFails ==
    /\ stage = "poll" /\ (~Answers \/ (kind = "mopidy" /\ ~wire))
    /\ connectionOK' = Noticed(connectionOK) /\ authed' = Noticed(authed)
    /\ within' = TRUE
    /\ retries' = retries + 1
    /\ stage' = IF retries < MaxRetries THEN "backoff" ELSE "idle"
    /\ UNCHANGED <<server, wire, buildOK, authFailure, tracked>>

BackoffOver ==
    /\ stage = "backoff"
    /\ stage' = IF ~IsReady /\ buildOK THEN "build" ELSE "poll"
    /\ UNCHANGED <<server, wire, flags, within, retries, tracked>>

Source == Heartbeat \/ BuildInitData \/ CheckConnection \/ TestAuth \/ PollFails \/ BackoffOver

Next == Starts \/ Stops \/ PlayingChanges \/ Reconnects \/ Source \/ Poll

\* Heartbeats are scheduled, timers fire, requests are answered or time out, and
\* Mopidy's client goes on trying.
Fairness == WF_vars(Source) /\ WF_vars(Poll) /\ WF_vars(Reconnects)

Spec == Init /\ [][Next]_vars /\ Fairness

-----------------------------------------------------------------------------
\* Once its server stays up, a source that can be built and has the right password
\* is polling, and stays at it, whatever it missed before (AbstractComponent.ts:278):
\* except for an MPD configured by path and for Musikcube, which may take a server
\* that is down for a failed authentication, and Musikcube a closed socket for an open one.
PollsAgain ==
    sound /\ password /\ kind \notin {"mpdSocket", "musikcube"} /\ <>[]up
        => <>[](stage = "poll" /\ Answers /\ (kind = "mopidy" => wire))

\* Of a track of which MPD or Mopidy names anybody, the play has an artist
\* (MPDSource.ts:168, MopidySource.ts:146): without one it cannot be scrobbled.
CreditsAnArtist ==
    kind \in {"mpd", "mpdSocket", "mopidy"} =>
        \A p \in tracked : p.play.artists = {} =>
            p.track.artist = None /\ p.track.albumArtist = None /\ p.track.other = None

\* What is on the blacklist is not tracked, as the documentation of uriBlacklist
\* (mopidy.ts) and of MPRIS's blacklist (mpris.ts) says.
BlacklistIsKept == \A p \in tracked : p.track.uri \notin filter.black
=============================================================================
