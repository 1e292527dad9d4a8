----------------------------- MODULE MediaServer ------------------------------
(***************************************************************************)
(* JellyfinApiSource and PlexApiSource: sources that poll a media server     *)
(* for its sessions, and track those that pass the filters of users,        *)
(* devices and libraries.                                                   *)
(*                                                                          *)
(* The server's libraries and sessions change at any time.  The source      *)
(* reads its settings, connects, authenticates, reads the libraries once    *)
(* when it starts polling, and filters the sessions of every poll with what *)
(* it read then.  What becomes of a tracked play is in MemorySource.        *)
(***************************************************************************)
EXTENDS Naturals, FiniteSets

CONSTANTS
    Libraries,      \* names; a library has a kind: "music" or "other"
    Inside,         \* of each kind, pairs <<a, b>>: what is in a also counts as in b, for the path of
                    \* a is below the path of b, or the name of a contains that of b
    Configs,        \* configurations of a source
    Players,        \* <<user, device>> that sessions may have
    MaxChanges,     \* bound: changes of the server's libraries, or of whether it answers
    MaxPlayed       \* bound: changes of its sessions

Owner == "owner"                \* the user whose token or name the source has
Local == "PLEX_LOCAL_USER"
Everybody == {"true"}           \* usersAllow: true
Default == {"default"}          \* usersAllow is not given
None == "none"
Own == "MS"                     \* the device the source itself is for the server

VARIABLES
    kind, config,
    shelf,          \* server: library -> "music", "other" or "absent"
    sessions,       \* server: set of [key, user, device, item, playing]
    up,             \* the server answers
    changes, played,
    stage,          \* of the source
    usersAllow,
    libraries,      \* what the source read of shelf
    tracked,        \* <<user, device>> -> [item, status] of its player, or NoPlayer
    fresh           \* history: nothing changed since the last poll

vars == <<kind, config, shelf, sessions, up, changes, played, stage, usersAllow, libraries, tracked, fresh>>

server == <<shelf, sessions, up, changes, played, fresh>>

-----------------------------------------------------------------------------
(* The server: external. *)

Item == [library : Libraries, media : {"track", "other"}]
NoItem == [library |-> None, media |-> None]
NoPlayer == [item |-> NoItem, status |-> None]

Change ==
    /\ changes < MaxChanges /\ changes' = changes + 1 /\ fresh' = FALSE
    /\ \/ /\ \E l \in Libraries, k \in {"music", "other", "absent"} : shelf' = [shelf EXCEPT ![l] = k]
          /\ UNCHANGED <<sessions, up>>
       \/ up' = ~up /\ UNCHANGED <<shelf, sessions>>
    /\ UNCHANGED <<kind, config, played, stage, usersAllow, libraries, tracked>>

\* Plex has no session without an item, and does not name a local user.
Sessions(keys) ==
    {[key |-> k, user |-> p[1], device |-> p[2], item |-> i, playing |-> b] :
        k \in keys,
        p \in IF kind = "plex" THEN Players ELSE {q \in Players : q[1] # Local} \union {<<Owner, Own>>},
        i \in Item \union IF kind = "jellyfin" THEN {NoItem} ELSE {}, b \in BOOLEAN}

SessionsChange ==
    /\ played < MaxPlayed /\ played' = played + 1 /\ fresh' = FALSE
    /\ \E k \in {1, 2} :
           LET others == {s \in sessions : s.key # k} IN
           \/ sessions' = others
           \/ \E s \in Sessions({k}) :
                  /\ s.item # NoItem => shelf[s.item.library] # "absent"
                  /\ sessions' = others \union {s}
    /\ UNCHANGED <<kind, config, shelf, up, changes, stage, usersAllow, libraries, tracked>>

-----------------------------------------------------------------------------
(* doBuildInitData, doCheckConnection, doAuthentication, onPollPostAuthCheck *)

JellyfinSettings ==
    /\ config.secret # None
    /\ usersAllow' = CASE config.usersAllow = Default -> {Owner}
                       [] config.usersAllow = Everybody -> {}
                       [] OTHER -> config.usersAllow

PlexSettings ==
    /\ config.secret # None
    /\ usersAllow' = IF config.usersAllow \in {Default, Everybody} THEN {} ELSE config.usersAllow

BuildInitData ==
    /\ stage = "new" /\ stage' = "built"
    /\ IF kind = "jellyfin" THEN JellyfinSettings ELSE PlexSettings
    /\ UNCHANGED <<kind, config, server, libraries, tracked>>

JellyfinConnects ==
    /\ kind = "jellyfin" /\ stage = "built" /\ up
    /\ stage' = "connected"
    /\ UNCHANGED <<kind, config, server, usersAllow, libraries, tracked>>

PlexConnects ==
    /\ kind = "plex" /\ stage = "built" /\ up
    /\ stage' = "connected"
    /\ UNCHANGED <<kind, config, server, usersAllow, libraries, tracked>>

\* With an API key the user must be one of the server's.
JellyfinAuth ==
    /\ kind = "jellyfin" /\ stage = "connected" /\ up
    /\ config.secret \in {"password", "apiKey"}
    /\ stage' = "ready"
    /\ UNCHANGED <<kind, config, server, usersAllow, libraries, tracked>>

\* Without allowed users, only the owner of the token and the local user are.
PlexAuth ==
    /\ stage' = "ready"
    /\ usersAllow' = IF usersAllow = {} THEN {Owner, Local} ELSE usersAllow

PlexAuthenticates ==
    /\ kind = "plex" /\ stage = "connected" /\ up
    /\ PlexAuth
    /\ UNCHANGED <<kind, config, server, libraries, tracked>>

Shelved == {l \in Libraries : shelf[l] # "absent"}
ReadShelf == libraries' = [l \in Shelved |-> shelf[l]]

JellyfinStarts ==
    /\ kind = "jellyfin" /\ stage = "ready" /\ up
    /\ stage' = "polling" /\ ReadShelf
    /\ UNCHANGED <<kind, config, server, usersAllow, tracked>>

PlexStarts ==
    /\ kind = "plex" /\ stage = "ready" /\ up
    /\ stage' = "polling" /\ ReadShelf
    /\ UNCHANGED <<kind, config, server, usersAllow, tracked>>

-----------------------------------------------------------------------------
(* isActivityValid *)

PassesUser(user) ==
    /\ usersAllow # {} => user \in usersAllow
    /\ user \notin config.usersBlock

PassesDevice(device) ==
    /\ config.devicesAllow # {} => device \in config.devicesAllow
    /\ device \notin config.devicesBlock

AllowedLibraries == config.librariesAllow \intersect DOMAIN libraries
BlockedLibraries == config.librariesBlock \intersect DOMAIN libraries

JellyfinValid == {l \in DOMAIN libraries : libraries[l] \in {"music"} \union config.additional}
PlexValid == {l \in DOMAIN libraries : libraries[l] = "music"}

CountsAsIn(l, some) == \E m \in some : l = m \/ <<l, m>> \in Inside[kind]

\* Both read: the libraries allowed, or else any not blocked of a valid kind.
\* JellyfinApiSource looks for the path, for valid libraries too.
JellyfinLibrary(l) ==
    IF AllowedLibraries # {} THEN CountsAsIn(l, AllowedLibraries)
    ELSE ~CountsAsIn(l, BlockedLibraries) /\ CountsAsIn(l, JellyfinValid)

\* Mutant: an allowed library is blocked still.
PlexLibrary_Blocked(l) ==
    /\ AllowedLibraries # {} => CountsAsIn(l, AllowedLibraries)
    /\ ~CountsAsIn(l, BlockedLibraries)
    /\ l \in PlexValid
PlexLibrary(l) ==
    IF AllowedLibraries # {} THEN CountsAsIn(l, AllowedLibraries)
    ELSE ~CountsAsIn(l, BlockedLibraries) /\ l \in PlexValid

PassesLibrary(item) ==
    item # NoItem => IF kind = "jellyfin" THEN JellyfinLibrary(item.library) ELSE PlexLibrary(item.library)

JellyfinMedia(item) == item # NoItem => item.media = "track"
PlexMedia(item) == item.media = "track"
PassesMedia(item) == IF kind = "jellyfin" THEN JellyfinMedia(item) ELSE PlexMedia(item)

Valid(s) == PassesUser(s.user) /\ PassesDevice(s.device) /\ PassesLibrary(s.item) /\ PassesMedia(s.item)

-----------------------------------------------------------------------------
(* getRecentlyPlayed *)

Player(s) == <<s.user, s.device>>

\* A session of the source itself, or without an item or a player, is left out.
JellyfinConsidered == {s \in sessions : s.device # Own /\ (s.item # NoItem \/ tracked[Player(s)] # NoPlayer)}
PlexConsidered == sessions
Considered == IF kind = "jellyfin" THEN JellyfinConsidered ELSE PlexConsidered

JellyfinStatus(s) == IF s.item = NoItem THEN "stopped" ELSE IF s.playing THEN "playing" ELSE "paused"
PlexStatus(s) == IF s.playing THEN "playing" ELSE "paused"

\* Jellyfin: the first that the server lists, here any.  Plex: the latest.
JellyfinPicks(some) == some
PlexPicks(some) == {s \in some : \A t \in some : s.key >= t.key}

\* The state a player is given: a stopped one keeps its play.
Updated(p, s) ==
    IF kind = "plex" THEN [item |-> s.item, status |-> PlexStatus(s)]
    ELSE [item |-> IF s.item = NoItem THEN tracked[p].item ELSE s.item, status |-> JellyfinStatus(s)]

\* What cannot be logged, for an option that is not valid, is called all the same.
Dropped(some) == {s \in some : ~Valid(s)}
LogThrows(some) == config.logFilterFailure = "invalid" /\ Dropped(some) # {}

Processed(some) ==
    \E pick \in [{Player(s) : s \in some} -> some] :
        /\ \A p \in DOMAIN pick :
               LET of == {s \in some : Player(s) = p} IN
               pick[p] \in IF kind = "jellyfin" THEN JellyfinPicks(of) ELSE PlexPicks(of)
        /\ tracked' = [p \in DOMAIN tracked |-> IF p \in DOMAIN pick THEN Updated(p, pick[p]) ELSE tracked[p]]

Polled ==
    /\ stage = "polling" /\ up /\ ~LogThrows(Considered)
    /\ Processed({s \in Considered : Valid(s)})
    /\ fresh' = TRUE
    /\ UNCHANGED <<kind, config, shelf, sessions, up, changes, played, stage, usersAllow, libraries>>

\* An error ends polling; it starts again, and reads the libraries again.
PollFails ==
    /\ stage = "polling" /\ (~up \/ LogThrows(Considered))
    /\ stage' = "ready" /\ fresh' = FALSE
    /\ UNCHANGED <<kind, config, shelf, sessions, up, changes, played, usersAllow, libraries, tracked>>

\* A player that heard nothing for long is deleted.
Cleaned(p) ==
    /\ tracked[p] # NoPlayer
    /\ \A s \in sessions : Player(s) # p
    /\ tracked' = [tracked EXCEPT ![p] = NoPlayer] /\ fresh' = FALSE
    /\ UNCHANGED <<kind, config, shelf, sessions, up, changes, played, stage, usersAllow, libraries>>

Init ==
    /\ kind \in {"jellyfin", "plex"} /\ config \in Configs[kind]
    /\ shelf \in [Libraries -> {"music", "other"}]
    /\ sessions = {} /\ up = TRUE /\ changes = 0 /\ played = 0 /\ fresh = FALSE
    /\ stage = "new" /\ usersAllow = {} /\ libraries = <<>>
    /\ tracked = [p \in Players |-> NoPlayer]

Next ==
    \/ Change \/ SessionsChange
    \/ BuildInitData \/ JellyfinConnects \/ PlexConnects \/ JellyfinAuth \/ PlexAuthenticates
    \/ JellyfinStarts \/ PlexStarts \/ Polled \/ PollFails
    \/ \E p \in Players : Cleaned(p)

Spec == Init /\ [][Next]_vars

-----------------------------------------------------------------------------
(* What the configuration's documentation says: the reference. *)

AllowedUsers ==
    IF config.usersAllow \notin {Default, Everybody} THEN config.usersAllow
    ELSE IF kind = "plex" THEN {Owner, Local}
    ELSE IF config.usersAllow = Default THEN {Owner} ELSE {p[1] : p \in Players}

Listed(l) ==
    LET allowed == config.librariesAllow \intersect Shelved
        music == {"music"} \union IF kind = "jellyfin" THEN config.additional ELSE {}
    IN  /\ l \in Shelved
        /\ IF allowed # {} THEN l \in allowed ELSE l \notin config.librariesBlock /\ shelf[l] \in music

Admitted(s) ==
    /\ s.item # NoItem /\ s.item.media = "track" /\ Listed(s.item.library)
    /\ s.user \in AllowedUsers \ config.usersBlock
    /\ s.device \notin config.devicesBlock \union {Own}
    /\ config.devicesAllow # {} => s.device \in config.devicesAllow

\* A session without an item.  Of several sessions of a player the source takes the first:
\* "this should only be one" (MemorySource.ts:209).
Idle(p) == \E s \in sessions : Player(s) = p /\ s.item = NoItem

Ambiguous == \E s \in sessions : \E m \in Libraries : s.item # NoItem /\ <<s.item.library, m>> \in Inside[kind]
Current == libraries = [l \in Shelved |-> shelf[l]]

\* A poll gives a player the item of a session that the configuration admits, the
\* latest for Plex, and gives nothing else to any: as long as the libraries are
\* what they were when polling started, none is inside another, and the player has no
\* idle session beside the one with the item (JellyfinApiSource.ts:294,
\* PlexApiSource.ts:217, 389).
TracksAdmitted ==
    Polled /\ Current /\ ~Ambiguous =>
        \A p \in Players :
            LET of == {s \in sessions : Player(s) = p /\ Admitted(s)} IN
            IF of = {} THEN tracked[p] = NoPlayer => tracked'[p] = NoPlayer
            ELSE Idle(p) \/
                 /\ tracked'[p] # NoPlayer
                 /\ \E s \in of :
                        /\ tracked'[p].item = s.item
                        /\ kind = "plex" => \A t \in of : t.key <= s.key
TracksWhatIsAdmitted == [][TracksAdmitted]_vars

=============================================================================
