-------------------------------- MODULE MCParts -------------------------------
(***************************************************************************)
(* Six modules about parts of the program that do not share state, side by *)
(* side.  `machine` says which of them a behaviour is of; the variables of *)
(* the others stay as they are.                                            *)
(***************************************************************************)
EXTENDS Naturals, Sequences, TLC

CONSTANTS
    Songs, Compared, AnswersKept, ListensMade, DaysHad, OutdatedHad,        \* HistoryWatch
    SomeEntities, KindOf, NameGiven, TokensIssued, CrashesHad,     \* Credentials
    SomeLibraries, InsideOf, ConfigsOf, PlayersOf, ChangesHad, SessionsHad      \* MediaServer

VARIABLES
    machine,
    history, today, before, pending, fresh, current, recentlyPlayed, recentChanged, polling,
    found, since, listens, stale,                                               \* HistoryWatch
    main, files, env, role, todo, configs, clients, sources,                    \* ConfigBuild
    client, play, service, outages, request, retries, met, stored,              \* Upstream
    up, pc, mem, file, writes, asked, issued, live, honoured, kept, crashes,    \* Credentials
    route, ingresses, zone, now, heard, mail, deliveries, followed, discovered, thrown, \* Ingress
    kind, config, shelf, sessions, serving, changes, played, stage, usersAllow, libraries,
    tracked, latest                                                             \* MediaServer

historyVars == <<history, today, before, pending, fresh, current, recentlyPlayed, recentChanged,
                 polling, found, since, listens, stale>>
configVars == <<main, files, env, role, todo, configs, clients, sources>>
upstreamVars == <<client, play, service, outages, request, retries, met, stored>>
tokenVars == <<up, pc, mem, file, writes, asked, issued, live, honoured, kept, crashes>>
ingressVars == <<route, ingresses, zone, now, heard, mail, deliveries, followed, discovered, thrown>>
serverVars == <<kind, config, shelf, sessions, serving, changes, played, stage, usersAllow,
                libraries, tracked, latest>>
vars == <<machine, historyVars, configVars, upstreamVars, tokenVars, ingressVars, serverVars>>

-----------------------------------------------------------------------------
History == INSTANCE HistoryWatch WITH
    Window <- Compared, Remembered <- AnswersKept, MaxListens <- ListensMade,
    MaxDays <- DaysHad, MaxStale <- OutdatedHad

\* One day with more listens than entries that are compared.
Busy == INSTANCE HistoryWatch WITH
    Window <- 2, Remembered <- 2, MaxListens <- 4, MaxDays <- 1, MaxStale <- 1

-----------------------------------------------------------------------------
(* Files with two good or bad entries for lastfm, duplicated names for        *)
(* spotify, every kind of file for maloja, and a config.json of each kind.    *)

T == INSTANCE ConfigBuild WITH Mains <- {}, Files <- {}, Envs <- {}

Undefined == "undefined"
Entry(name, as, type) == [name |-> name, configureAs |-> as, spelled |-> "exact", type |-> type,
                          ok |-> TRUE, enable |-> TRUE, fit |-> TRUE, keys |-> {}]
\* An entry of a file, which is of the file's type.
InFile(name) == Entry(name, Undefined, Undefined)
NoFile == [kind |-> "absent", entries |-> <<>>]
Many(entries) == [kind |-> "many", entries |-> entries]
UpTo2(S) == {<<>>} \union {<<x>> : x \in S} \union {<<x, y>> : x, y \in S}

LastfmEntries ==
    {InFile("a"), Entry("a", "source", Undefined), Entry(Undefined, "client", Undefined),
     [InFile("b") EXCEPT !.ok = FALSE], [Entry("b", "source", Undefined) EXCEPT !.fit = FALSE]}

SpotifyFiles ==
    {NoFile, Many(<<InFile("a"), InFile("a"), InFile("a1")>>),
     Many(<<InFile(Undefined), InFile(Undefined)>>)}
MalojaFiles ==
    {NoFile, [NoFile EXCEPT !.kind = "broken"], Many(<<InFile("a")>>),
     [kind |-> "one", entries |-> <<InFile("m")>>]}
JellyfinFile == [kind |-> "one", entries |-> <<[InFile("j") EXCEPT !.keys = {"user"}]>>]

ConfigFiles ==
    {[t \in T!Types |-> CASE t = "lastfm" -> Many(l) [] t = "spotify" -> s [] t = "maloja" -> m
                        [] t = "jellyfin" -> JellyfinFile [] OTHER -> NoFile] :
        l \in UpTo2(LastfmEntries), s \in SpotifyFiles, m \in MalojaFiles}

ConfigMains ==
    {[kind |-> "absent", clients |-> <<>>, sources |-> <<>>],
     [kind |-> "broken", clients |-> <<>>, sources |-> <<>>],
     [kind |-> "object", clients |-> <<[Entry("b", Undefined, "maloja") EXCEPT !.spelled = "case"]>>,
                         sources |-> <<Entry(Undefined, "source", "lastfm"), Entry("a", Undefined, "spotify")>>],
     [kind |-> "object", clients |-> <<>>,
                         sources |-> <<[Entry("a", Undefined, "spotify") EXCEPT !.spelled = "missing"]>>]}

ConfigEnvs == {{}, {"LASTFM_API_KEY", "PLEX_USER", "JELLYFIN_USER"}}

C == INSTANCE ConfigBuild WITH Mains <- ConfigMains, Files <- ConfigFiles, Envs <- ConfigEnvs

-----------------------------------------------------------------------------
U == INSTANCE Upstream WITH kind <- client, changes <- outages, stage <- request, MaxChanges <- 3

-----------------------------------------------------------------------------
(* Names tell apart what is looked up by name; files and clients share them.  *)

Kind == "spotify" :> "spotify" @@ "deezer" :> "deezer" @@ "lfm" :> "lastfm-client"
Name == "spotify" :> "a" @@ "deezer" :> "b" @@ "lfm" :> "a"
Issued == "spotify" :> 2 @@ "deezer" :> 1 @@ "lfm" :> 1

Tokens == INSTANCE Credentials WITH
    Entities <- SomeEntities, Kind <- KindOf, Name <- NameGiven,
    MaxIssued <- TokensIssued, MaxCrashes <- CrashesHad

Y == INSTANCE Credentials WITH
    Entities <- {"yt"}, Kind <- "yt" :> "ytmusic", Name <- "yt" :> "c",
    MaxIssued <- "yt" :> 3, MaxCrashes <- 2

-----------------------------------------------------------------------------
(* The routes, with sources of another class between, and with filters.       *)

Src(ours, label, only, except) == [ours |-> ours, label |-> label, only |-> only, except |-> except]
IngressSources == [
    plex |-> {<<Src(TRUE, "a", {"u1"}, {}), Src(FALSE, "b", {}, {}), Src(TRUE, "c", {}, {})>>},
    tautulli |-> {<<Src(FALSE, "a", {}, {}), Src(TRUE, "a", {}, {}), Src(TRUE, "b", {"u1"}, {})>>},
    jellyfin |-> {<<Src(TRUE, "a", {"u1"}, {}), Src(TRUE, "b", {}, {})>>},
    webscrobbler |-> {<<Src(TRUE, "none", {}, {"u1"}), Src(TRUE, "a", {"u2"}, {}), Src(TRUE, "none", {}, {})>>}]

I == INSTANCE Ingress WITH
    listens <- heard, sources <- ingresses, tracked <- followed,
    Tracks <- {"t1"}, Users <- {"u1", "u2"}, SourceSets <- IngressSources,
    Duration <- 3, MaxTime <- 6, MaxListens <- 2, MaxDeliveries <- 2

-----------------------------------------------------------------------------
Base == [secret |-> "apiKey", usersAllow |-> {"default"}, usersBlock |-> {}, devicesAllow |-> {},
         devicesBlock |-> {}, librariesAllow |-> {}, librariesBlock |-> {}, additional |-> {},
         logFilterFailure |-> "warn"]
ServerConfigs == [
    jellyfin |-> {[Base EXCEPT !.usersAllow = {"true"}, !.usersBlock = {"guest"}, !.librariesBlock = {"pop"}, !.logFilterFailure = "invalid"],
                  [Base EXCEPT !.secret = "password", !.additional = {"other"}, !.devicesBlock = {"phone"}]},
    plex |-> {[Base EXCEPT !.usersAllow = {"true"}, !.librariesAllow = {"pop"}, !.librariesBlock = {"pop", "spoken"}],
              [Base EXCEPT !.usersAllow = {"guest"}, !.devicesAllow = {"tv"}]}]
ServerPlayers == {<<"owner", "phone">>, <<"guest", "tv">>, <<"PLEX_LOCAL_USER", "tv">>}
ServerInside == [jellyfin |-> {<<"spoken", "pop">>}, plex |-> {}]

Media == INSTANCE MediaServer WITH
    up <- serving, fresh <- latest, Libraries <- SomeLibraries, Inside <- InsideOf,
    Configs <- ConfigsOf, Players <- PlayersOf, MaxChanges <- ChangesHad, MaxPlayed <- SessionsHad

-----------------------------------------------------------------------------
\* The variables of a module that a behaviour is not of.
NoHistory ==
    /\ history = 0 /\ today = 0 /\ before = 0 /\ pending = 0 /\ fresh = 0 /\ current = 0
    /\ recentlyPlayed = 0 /\ recentChanged = 0 /\ polling = 0 /\ found = 0 /\ since = 0
    /\ listens = 0 /\ stale = 0

NoConfig ==
    /\ main = 0 /\ files = 0 /\ env = 0 /\ role = 0 /\ todo = 0 /\ configs = 0 /\ clients = 0
    /\ sources = 0

NoUpstream ==
    /\ client = 0 /\ play = 0 /\ service = 0 /\ outages = 0 /\ request = 0 /\ retries = 0
    /\ met = 0 /\ stored = 0

NoTokens ==
    /\ up = 0 /\ pc = 0 /\ mem = 0 /\ file = 0 /\ writes = 0 /\ asked = 0 /\ issued = 0
    /\ live = 0 /\ honoured = 0 /\ kept = 0 /\ crashes = 0

NoIngress ==
    /\ route = 0 /\ ingresses = 0 /\ zone = 0 /\ now = 0 /\ heard = 0 /\ mail = 0
    /\ deliveries = 0 /\ followed = 0 /\ discovered = 0 /\ thrown = 0

NoServer ==
    /\ kind = 0 /\ config = 0 /\ shelf = 0 /\ sessions = 0 /\ serving = 0 /\ changes = 0
    /\ played = 0 /\ stage = 0 /\ usersAllow = 0 /\ libraries = 0 /\ tracked = 0 /\ latest = 0

Init ==
    \/ machine = "history" /\ History!Init /\ NoConfig /\ NoUpstream /\ NoTokens /\ NoIngress /\ NoServer
    \/ machine = "busy" /\ Busy!Init /\ NoConfig /\ NoUpstream /\ NoTokens /\ NoIngress /\ NoServer
    \/ machine = "config" /\ C!Init /\ NoHistory /\ NoUpstream /\ NoTokens /\ NoIngress /\ NoServer
    \/ machine = "upstream" /\ U!Init /\ NoHistory /\ NoConfig /\ NoTokens /\ NoIngress /\ NoServer
    \/ /\ machine = "tokens" /\ Tokens!Init
       /\ NoHistory /\ NoConfig /\ NoUpstream /\ NoIngress /\ NoServer
    \/ machine = "ytmusic" /\ Y!Init /\ NoHistory /\ NoConfig /\ NoUpstream /\ NoIngress /\ NoServer
    \/ machine = "ingress" /\ I!Init /\ NoHistory /\ NoConfig /\ NoUpstream /\ NoTokens /\ NoServer
    \/ /\ machine = "server" /\ Media!Init
       /\ NoHistory /\ NoConfig /\ NoUpstream /\ NoTokens /\ NoIngress

Watching == ((machine = "history" /\ History!Next) \/ (machine = "busy" /\ Busy!Next))
            /\ UNCHANGED <<machine, configVars, upstreamVars, tokenVars, ingressVars, serverVars>>
Building == machine = "config" /\ C!Next
            /\ UNCHANGED <<machine, historyVars, upstreamVars, tokenVars, ingressVars, serverVars>>
Requesting == machine = "upstream" /\ U!Next
              /\ UNCHANGED <<machine, historyVars, configVars, tokenVars, ingressVars, serverVars>>
Authorizing == ((machine = "tokens" /\ Tokens!Next) \/ (machine = "ytmusic" /\ Y!Next))
               /\ UNCHANGED <<machine, historyVars, configVars, upstreamVars, ingressVars, serverVars>>
Receiving == machine = "ingress" /\ I!Next
             /\ UNCHANGED <<machine, historyVars, configVars, upstreamVars, tokenVars, serverVars>>
Serving == machine = "server" /\ Media!Next
           /\ UNCHANGED <<machine, historyVars, configVars, upstreamVars, tokenVars, ingressVars>>

Next == Watching \/ Building \/ Requesting \/ Authorizing \/ Receiving \/ Serving

Spec == Init /\ [][Next]_vars

-----------------------------------------------------------------------------
\* The properties of the six modules.
NothingIsInvented ==
    [][(machine = "history" => History!FoundWasHeard) /\ (machine = "busy" => Busy!FoundWasHeard)]_vars
OneListenIsFound ==
    [][(machine = "history" => History!HeardIsFound) /\ (machine = "busy" => Busy!HeardIsFound)]_vars
OneRole == machine = "config" => C!OneRole
NamesTellApart == machine = "config" => C!NamesTellApart
ScrobbledIsStored == machine = "upstream" => U!ScrobbledIsStored
RefusedStepsAside == machine = "upstream" => U!RefusedStepsAside
OutageIsNoRefusal == machine = "upstream" => U!OutageIsNoRefusal
KeepsASession ==
    (machine = "tokens" => Tokens!KeepsASession) /\ (machine = "ytmusic" => Y!KeepsASession)
ConsentIsServed ==
    [][(machine = "tokens" => Tokens!Serves) /\ (machine = "ytmusic" => Y!Serves)]_vars
ListenOnce == machine = "ingress" => I!ListenOnce
NeverAhead == machine = "ingress" => I!NeverAhead
TracksWhatIsAdmitted == [][machine = "server" => Media!TracksAdmitted]_vars

SluglessIsServed == machine = "ingress" => I!SluglessIsServed
=============================================================================
