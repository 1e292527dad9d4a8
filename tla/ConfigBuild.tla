------------------------------ MODULE ConfigBuild ------------------------------
(***************************************************************************)
(* From config.json, one file per type and the environment to the clients  *)
(* and the sources of the process: ScrobbleClients.buildClientsFromConfig   *)
(* and addClient, then ScrobbleSources.buildSourcesFromConfig and           *)
(* addSource, in the order index.ts calls them.  Every file read is an      *)
(* await, so every file is a step.                                          *)
(*                                                                          *)
(* An entry is [name, configureAs, spelled, type, ok, enable, fit, keys]:   *)
(* the name and configureAs, "undefined" when they are not given, whether   *)
(* the type is written as the code writes it, whether the schema of the     *)
(* type accepts it, the flag `enable`, whether the constructor accepts it,  *)
(* and which of the two data keys that choose a class are given.            *)
(* With its id, <<where it is from, its place there>>, it is a candidate.   *)
(***************************************************************************)
EXTENDS Naturals, SequencesExt

CONSTANTS
    Mains,      \* contents config.json may have: [kind, clients, sources]
    Files,      \* what the files of the types may be: a set of [Types -> [kind, entries]]
    Envs        \* sets of environment variables that may be set

clientTypes == <<"maloja", "lastfm", "listenbrainz">>
sourceTypes == <<"spotify", "plex", "tautulli", "subsonic", "jellyfin", "lastfm", "deezer",
                 "ytmusic", "mpris", "mopidy", "listenbrainz", "jriver", "kodi", "webscrobbler",
                 "chromecast", "musikcube", "mpd", "vlc">>
Types == ToSet(clientTypes) \union ToSet(sourceTypes)
Dual == {"lastfm", "listenbrainz"}

VARIABLES
    main, files, env,   \* what the administrator wrote
    role,               \* the registry being built: "clients", "sources", "done", "failed"
    todo,               \* what is still to be read: "main", then the types
    configs,            \* candidates accepted so far
    clients, sources    \* the components built

vars == <<main, files, env, role, todo, configs, clients, sources>>
given == <<main, files, env>>

-----------------------------------------------------------------------------
(* The environment: the variables that make an entry of a type.             *)

ClientVars ==
    [maloja       |-> {"MALOJA_URL", "MALOJA_API_KEY"},
     lastfm       |-> {"LASTFM_API_KEY", "LASTFM_SECRET", "LASTFM_REDIRECT_URI", "LASTFM_SESSION"},
     listenbrainz |-> {"LZ_URL", "LZ_TOKEN", "LZ_USER"}]

ClientEnvName == [maloja |-> "unnamed-mlj", lastfm |-> "unnamed-lfm", listenbrainz |-> "unnamed-lz"]

ServiceVars ==
    [spotify      |-> {"SPOTIFY_ACCESS_TOKEN", "SPOTIFY_CLIENT_ID", "SPOTIFY_CLIENT_SECRET",
                       "SPOTIFY_REDIRECT_URI", "SPOTIFY_REFRESH_TOKEN"},
     tautulli     |-> {"TAUTULLI_USER", "PLEX_USER"},
     plex         |-> {"PLEX_USER", "PLEX_URL", "PLEX_TOKEN", "PLEX_USERS_ALLOW", "PLEX_USERS_BLOCK",
                       "PLEX_DEVICES_ALLOW", "PLEX_DEVICES_BLOCK", "PLEX_LIBRARIES_ALLOW",
                       "PLEX_LIBRARIES_BLOCK"},
     subsonic     |-> {"SUBSONIC_USER", "SUBSONIC_PASSWORD", "SUBSONIC_URL"},
     jellyfin     |-> {"JELLYFIN_USER", "JELLYFIN_SERVER", "JELLYFIN_PASSWORD", "JELLYFIN_APIKEY",
                       "JELLYFIN_URL", "JELLYFIN_USERS_ALLOW", "JELLYFIN_USERS_BLOCK",
                       "JELLYFIN_DEVICES_ALLOW", "JELLYFIN_DEVICES_BLOCK",
                       "JELLYFIN_LIBRARIES_ALLOW", "JELLYFIN_LIBRARIES_BLOCK"},
     deezer       |-> {"DEEZER_CLIENT_ID", "DEEZER_CLIENT_SECRET", "DEEZER_REDIRECT_URI",
                       "DEEZER_ACCESS_TOKEN"},
     mpris        |-> {"MPRIS_ENABLE", "MPRIS_BLACKLIST", "MPRIS_WHITELIST"}]

PlayerVars ==
    [jriver       |-> {"JRIVER_URL", "JRIVER_USER", "JRIVER_PASSWORD"},
     kodi         |-> {"KODI_URL", "KODI_USER", "KODI_PASSWORD"},
     webscrobbler |-> {"WS_ENABLE", "WS_BLACKLIST", "WS_WHITELIST"},
     chromecast   |-> {"CC_ENABLE", "CC_BLACKLIST_DEVICES", "CC_WHITELIST_DEVICES",
                       "CC_BLACKLIST_APPS", "CC_WHITELIST_APPS"},
     musikcube    |-> {"MC_URL", "MC_PASSWORD"},
     vlc          |-> {"VLC_URL", "VLC_PASSWORD"},
     ytmusic      |-> {"YTM_REDIRECT_URI", "YTM_CLIENT_ID", "YTM_CLIENT_SECRET", "YTM_COOKIE"}]

SourceVars == ServiceVars @@ PlayerVars

EnvEntry(type, name) ==
    [name |-> name, configureAs |-> "undefined", spelled |-> "exact", type |-> type,
     ok |-> TRUE, enable |-> TRUE, fit |-> TRUE,
     keys |-> {k \in {"token", "user"} : /\ k = "token" => "PLEX_TOKEN" \in env
                                         /\ k = "user" => "JELLYFIN_USER" \in env}]

\* lastfm, listenbrainz, mopidy and mpd have no source in the environment.
FromEnv(type) ==
    IF role = "clients" THEN ClientVars[type] \intersect env # {}
                        ELSE type \in DOMAIN SourceVars /\ SourceVars[type] \intersect env # {}
EnvName(type) == IF role = "clients" THEN ClientEnvName[type] ELSE "unnamed"
EnvCandidates(type) ==
    IF FromEnv(type) THEN {[entry |-> EnvEntry(type, EnvName(type)), id |-> <<type, 0>>]} ELSE {}

-----------------------------------------------------------------------------
(* Which entries of a file are used. *)

\* Mutant of ForSource: an entry of a dual type is a source by default.
ForSource_Default(e) == ~(e.type \in Dual /\ e.configureAs = "client")

ForClient(e) == ~(e.type \in Dual /\ e.configureAs = "source")
ForSource(e) == ~(e.type \in Dual /\ e.configureAs # "source")
MyRole(e) == IF role = "clients" THEN ForClient(e) ELSE ForSource(e)

TypesOfRole == IF role = "clients" THEN clientTypes ELSE sourceTypes
Candidates(entries, from) == {[entry |-> entries[i], id |-> <<from, i>>] : i \in DOMAIN entries}

MainCandidates == Candidates(main[role], "main")

MainAccepted(c) ==
    /\ c.entry.spelled # "unknown"
    /\ c.entry.type \in ToSet(TypesOfRole)
    /\ MyRole(c.entry)
    /\ c.entry.ok

\* The file of a dual type is read twice, once for each registry; a client
\* entry of another type has to be one, whatever the file it is in.
FileAccepted(c) ==
    /\ MyRole(c.entry)
    /\ c.entry.ok
    /\ role = "clients" => c.entry.configureAs # "source"

\* What is in the file of a type is of that type.
OfType(entries, type) == [i \in DOMAIN entries |-> [entries[i] EXCEPT !.type = type]]
FileCandidates(type) == Candidates(OfType(files[type].entries, type), type)

NameOf(c) == IF c.entry.name = "undefined" THEN "unnamed" ELSE c.entry.name

-----------------------------------------------------------------------------
(* What is built. *)

Class(c) ==
    CASE c.entry.type = "plex" /\ "token" \in c.entry.keys -> "PlexApiSource"
      [] c.entry.type = "jellyfin" /\ "user" \in c.entry.keys -> "JellyfinApiSource"
      [] OTHER -> c.entry.type

\* A type not written as the code writes it passes the checks, and is then
\* not recognised by the switch of addClient and addSource.
Constructed(c) == c.entry.enable /\ c.entry.spelled = "exact" /\ c.entry.fit

Component(c, name) == [type |-> c.entry.type, name |-> name, class |-> Class(c), id |-> c.id]

\* Mutant of UniqueName: clients may share a name with those of another type.
UniqueName_PerType(c) ==
    \A d \in configs : NameOf(d) = NameOf(c) /\ d.entry.type = c.entry.type => d.id = c.id

\* Clients that share a name are not built at all.
UniqueName(c) == \A d \in configs : NameOf(d) = NameOf(c) => d.id = c.id

\* Sources of one type that share a name are numbered as they were read; the
\* type is the one written, so that a misspelled one is of another group.
SameGroup(c, d) == /\ c.entry.type = d.entry.type
                   /\ c.entry.spelled = d.entry.spelled
                   /\ NameOf(c) = NameOf(d)
ReadBefore(c, d) == \/ c.id[1] = "main" /\ d.id[1] # "main"
                    \/ c.id[1] = d.id[1] /\ c.id[2] < d.id[2]
Numbered(c) ==
    LET group == {d \in configs : SameGroup(d, c)}
        nth == 1 + Cardinality({d \in group : ReadBefore(d, c)})
    IN  IF Cardinality(group) > 1 THEN NameOf(c) \o ToString(nth) ELSE NameOf(c)

BuiltClients == {Component(c, NameOf(c)) : c \in {d \in configs : UniqueName(d) /\ Constructed(d)}}
BuiltSources == {Component(c, Numbered(c)) : c \in {d \in configs : Constructed(d)}}

-----------------------------------------------------------------------------

Init ==
    /\ main \in Mains
    /\ files \in Files
    /\ env \in Envs
    /\ role = "clients"
    /\ todo = <<"main">> \o clientTypes
    /\ configs = {}
    /\ clients = {} /\ sources = {}

Failed == role' = "failed" /\ UNCHANGED <<given, todo, configs, clients, sources>>

Took(new) == /\ configs' = configs \union new
             /\ todo' = Tail(todo)
             /\ UNCHANGED <<given, role, clients, sources>>

Reading(what) == role \in {"clients", "sources"} /\ todo # <<>> /\ Head(todo) = what

\* config.json; an entry without a type is an uncaught TypeError.
ReadMain ==
    /\ Reading("main")
    /\ \/ main.kind = "broken" /\ Failed
       \/ main.kind = "absent" /\ Took({})
       \/ main.kind = "object" /\ (\E i \in DOMAIN main[role] : main[role][i].spelled = "missing") /\ Failed
       \/ /\ main.kind = "object"
          /\ \A i \in DOMAIN main[role] : main[role][i].spelled # "missing"
          /\ Took({c \in MainCandidates : MainAccepted(c)})

\* The environment of a type, then its file.
ReadType(type) ==
    /\ Reading(type)
    /\ \/ files[type].kind \in {"absent", "broken", "null", "other"} /\ Took(EnvCandidates(type))
       \/ /\ files[type].kind = "many" \/ (files[type].kind = "one" /\ role = "sources")
          /\ Took(EnvCandidates(type) \union {c \in FileCandidates(type) : FileAccepted(c)})
       \* buildClientsFromConfig iterates the object it read, not the list it made of it
       \/ files[type].kind = "one" /\ role = "clients" /\ Failed

BuildClients ==
    /\ role = "clients" /\ todo = <<>>
    /\ clients' = BuiltClients
    /\ role' = "sources"
    /\ todo' = <<"main">> \o sourceTypes
    /\ configs' = {}
    /\ UNCHANGED <<given, sources>>

BuildSources ==
    /\ role = "sources" /\ todo = <<>>
    /\ sources' = BuiltSources
    /\ role' = "done"
    /\ UNCHANGED <<given, todo, configs, clients>>

Next == ReadMain \/ (\E type \in Types : ReadType(type)) \/ BuildClients \/ BuildSources

Spec == Init /\ [][Next]_vars

-----------------------------------------------------------------------------
(* Properties. *)

\* An entry the administrator wrote well: its type, its schema, its
\* constructor are right and it is not disabled.
Sound(e) == e.spelled = "exact" /\ e.ok /\ e.enable /\ e.fit

BuiltFrom(registry, id) == \E c \in registry : c.id = id

Named(e) == IF e.name = "undefined" THEN "unnamed" ELSE e.name
\* Another entry that may become a client has the name of this one: of a
\* file, of config.json, or made of the environment.
Taken(type, i) ==
    \/ \E t \in ToSet(clientTypes) : \E n \in DOMAIN files[t].entries :
            <<t, n>> # <<type, i>> /\ Named(files[t].entries[n]) = Named(files[type].entries[i])
    \/ \E n \in DOMAIN main.clients : Named(main.clients[n]) = Named(files[type].entries[i])
    \/ \E t \in ToSet(clientTypes) : /\ ClientVars[t] \intersect env # {}
                                     /\ ClientEnvName[t] = Named(files[type].entries[i])

\* lastfm and listenbrainz can be either a client or a source, and the two
\* registries read the same file independently, each with its own default.
\* Once both are built no entry of such a file is in both and, whatever the
\* other entries and files are, each good one is in one of them, unless
\* another client has its name.
OneRole ==
    role = "done" =>
        \A type \in Dual : \A i \in DOMAIN files[type].entries :
            LET asClient == BuiltFrom(clients, <<type, i>>)
                asSource == BuiltFrom(sources, <<type, i>>)
            IN  /\ ~(asClient /\ asSource)
                /\ Sound(files[type].entries[i]) =>
                      asClient \/ asSource \/ (Taken(type, i) /\ files[type].entries[i].configureAs # "source")

\* Routes and authentication callbacks find a client by its name, and a
\* source by its name and type.  Whatever names the files give, no two
\* clients share one, and two sources of a type share one only when they
\* were given different names, which their numbers then make one.
NamesTellApart ==
    /\ \A c, d \in clients : c.name = d.name => c = d
    /\ \A c, d \in sources :
          c.name = d.name /\ c.type = d.type /\ c # d =>
              \E a, b \in configs : a.id = c.id /\ b.id = d.id /\ NameOf(a) # NameOf(b)

=============================================================================
