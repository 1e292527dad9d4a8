----------------------------- MODULE Credentials -----------------------------
(***************************************************************************)
(* The tokens of the clients and sources a user has to authorize: Spotify,  *)
(* Deezer, Last.fm (client or source) and YouTube Music.  They get them in  *)
(* a callback of the web server, keep them in memory and in a file of the   *)
(* configuration directory, and read the file again when the process has    *)
(* started.  Spotify's callApi also replaces the access token when it has   *)
(* expired.  Writing a file is an await: tokens are in memory before they    *)
(* are in the file (Deezer: after), and a crash may leave half of it.        *)
(***************************************************************************)
EXTENDS Naturals, Sequences

CONSTANTS
    Entities,       \* clients and sources that need an authorization
    Kind,           \* of each: "spotify", "deezer", "lastfm-client", "lastfm-source", "ytmusic"
    Name,           \* of each, as given in the configuration
    MaxIssued,      \* bound: tokens each gets
    MaxCrashes      \* bound: restarts

VARIABLES
    up,         \* the process runs
    pc,         \* each entity: "off", "build" (not initialized), "idle", "refreshing"
    mem,        \* tokens in memory: 0 is none
    file,       \* of each name in use: who wrote it, and the tokens
    writes,     \* contents being written for each entity
    asked,      \* entities whose user is at the consent page
    issued, live, honoured,  \* the service: tokens issued; the access token and the refresh tokens it accepts
    kept,       \* history: a session was saved, and neither damaged nor given up since
    crashes

vars == <<up, pc, mem, file, writes, asked, issued, live, honoured, kept, crashes>>
service == <<issued, live, honoured>>

Clients == {e \in Entities : Kind[e] = "lastfm-client"}
Sources == Entities \ Clients
Format(e) == IF Kind[e] \in {"lastfm-client", "lastfm-source"} THEN "lastfm" ELSE Kind[e]

\* workingCredsPath.  Spotify and Deezer have the same file name.
FileOf(e) == CASE Format(e) = "lastfm" -> "currentCreds-lastfm-" \o Name[e]
               [] Kind[e] = "ytmusic" -> "yti-" \o Name[e]
               [] OTHER -> "currentCreds-" \o Name[e]
FileNames == {FileOf(e) : e \in Entities}

None == [access |-> 0, refresh |-> 0]
Absent == [by |-> "nobody", tokens |-> None]
Broken == [by |-> "broken", tokens |-> None]

\* Deezer and Last.fm have one token, that does not expire.
Refreshable(e) == Kind[e] \in {"spotify", "ytmusic"}
Honours(e) == honoured[e] # {} \/ ~Refreshable(e)

Init ==
    /\ up = TRUE /\ crashes = 0
    /\ pc = [e \in Entities |-> "build"]
    /\ mem = [e \in Entities |-> None]
    /\ file = [f \in FileNames |-> Absent]
    /\ writes = [e \in Entities |-> {}]
    /\ asked = {}
    /\ issued = [e \in Entities |-> 0]
    /\ live = [e \in Entities |-> 0]
    /\ honoured = [e \in Entities |-> {}]
    /\ kept = [e \in Entities |-> FALSE]

\* buildSpotifyApi, doBuildInitData of Deezer and YouTube Music, initialize of the
\* Last.fm API client.  A file that cannot be parsed stops Deezer and Last.fm.
Readable(e) == file[FileOf(e)] # Broken \/ Refreshable(e)

Build(e) ==
    LET found == file[FileOf(e)]
    IN  /\ up /\ pc[e] = "build"
        /\ Readable(e)
        /\ mem' = [mem EXCEPT ![e] = IF found.by = Format(e) THEN found.tokens ELSE None]
        /\ pc' = [pc EXCEPT ![e] = "idle"]
        /\ UNCHANGED <<up, file, writes, asked, service, kept, crashes>>

\* reauthenticate() of YouTube Music gives the session up first.
SignOut(e) ==
    /\ mem' = [mem EXCEPT ![e] = None]
    /\ honoured' = [honoured EXCEPT ![e] = {}]
    /\ writes' = [writes EXCEPT ![e] = {}]
    /\ kept' = [kept EXCEPT ![e] = FALSE]

\* /api/client/auth and /api/source/auth.
Ask(e) ==
    /\ up /\ pc[e] = "idle" /\ e \notin asked
    /\ asked' = asked \union {e}
    /\ IF Kind[e] = "ytmusic" /\ mem[e] # None
       THEN SignOut(e)
       ELSE UNCHANGED <<mem, honoured, writes, kept>>
    /\ UNCHANGED <<up, pc, file, issued, live, crashes>>

\* The order in which the sources are built, and find() looks.
Types == <<"spotify", "lastfm-source", "deezer", "ytmusic", "lastfm-client">>
Rank(e) == CHOOSE i \in DOMAIN Types : Types[i] = Kind[e]
First(S) == CHOOSE x \in S : \A y \in S : Rank(x) <= Rank(y)
Named(S, e) == {x \in S : Name[x] = Name[e]}

Found_SourcesFirst(e) == First(Named(Entities, e))
\* Who answers the callback of e: by name among the clients, then among the
\* sources, for Last.fm; by name for YouTube Music; by name and type for Spotify;
\* Deezer's goes through a strategy of its own.
Found(e) ==
    CASE Format(e) = "lastfm" -> IF Named(Clients, e) # {} THEN First(Named(Clients, e)) ELSE First(Named(Sources, e))
      [] Kind[e] = "ytmusic" -> First(Named(Sources, e))
      [] OTHER -> e

New(e) == issued[e] + 1
Issue(e, content) ==
    /\ issued' = [issued EXCEPT ![e] = @ + 1]
    /\ live' = [live EXCEPT ![e] = content.access]
    /\ honoured' = [honoured EXCEPT ![e] = @ \union ({content.refresh} \ {0})]

\* handleAuthCodeCallback, authenticate: Deezer has the token in memory after it is written.
Taken(x, tokens) ==
    /\ mem' = IF Kind[x] = "deezer" THEN mem ELSE [mem EXCEPT ![x] = tokens]
    /\ writes' = [writes EXCEPT ![x] = @ \union {tokens}]

\* The callback.  One that reaches an entity of another type is an error.
Callback(e) ==
    LET tokens == [access |-> New(e), refresh |-> IF Refreshable(e) THEN New(e) ELSE 0]
    IN  /\ up /\ e \in asked /\ issued[e] < MaxIssued[e]
        /\ asked' = asked \ {e}
        /\ LET x == Found(e)
           IN  IF Format(x) = Format(e)
               THEN Issue(e, tokens) /\ Taken(x, tokens)
               ELSE UNCHANGED <<mem, writes, service>>
        /\ UNCHANGED <<up, pc, file, kept, crashes>>

\* writeFile is done, in any order when there are two.
Written(e) ==
    \E tokens \in writes[e] :
        /\ up
        /\ file' = [file EXCEPT ![FileOf(e)] = [by |-> Format(e), tokens |-> tokens]]
        /\ writes' = [writes EXCEPT ![e] = @ \ {tokens}]
        /\ mem' = IF Kind[e] = "deezer" THEN [mem EXCEPT ![e] = tokens] ELSE mem
        /\ kept' = [kept EXCEPT ![e] = Honours(e)]
        /\ UNCHANGED <<up, pc, asked, service, crashes>>

\* The service lets the access token expire.
Expire(e) ==
    /\ Refreshable(e) /\ live[e] # 0
    /\ live' = [live EXCEPT ![e] = 0]
    /\ UNCHANGED <<up, pc, mem, file, writes, asked, issued, honoured, kept, crashes>>

\* callApi gets 401: it refreshes when it has a refresh token, and gives up otherwise.
CallRefused(e) ==
    /\ up /\ pc[e] = "idle" /\ Refreshable(e)
    /\ mem[e].access # 0 /\ mem[e].access # live[e]
    /\ mem[e].refresh # 0
    /\ pc' = [pc EXCEPT ![e] = "refreshing"]
    /\ UNCHANGED <<up, mem, file, writes, asked, service, kept, crashes>>

\* What is saved: the refresh token of the answer, or else the one in memory.
Saved_AsAnswered(e, given) == given
Saved(e, given) == IF given = 0 THEN mem[e].refresh ELSE given

\* The answer sets the access token.  Spotify leaves the refresh token in memory as
\* it was; the library of YouTube Music takes over both.
Refreshed(e) ==
    /\ up /\ pc[e] = "refreshing"
    /\ mem[e].refresh \in honoured[e] /\ issued[e] < MaxIssued[e]
    /\ pc' = [pc EXCEPT ![e] = "idle"]
    /\ \E given \in {0, New(e)} :
         LET content == [access |-> New(e), refresh |-> Saved(e, given)]
         IN  /\ Issue(e, [access |-> New(e), refresh |-> given])
             /\ mem' = [mem EXCEPT ![e].access = New(e),
                                   ![e].refresh = IF Kind[e] = "ytmusic" THEN content.refresh ELSE @]
             /\ writes' = [writes EXCEPT ![e] = @ \union {content}]
    /\ UNCHANGED <<up, file, asked, kept, crashes>>

RefreshFails(e) ==
    /\ up /\ pc[e] = "refreshing"
    /\ pc' = [pc EXCEPT ![e] = "idle"]
    /\ UNCHANGED <<up, mem, file, writes, asked, service, kept, crashes>>

\* A file being written is what it was, what it was to be, or neither.
Crash ==
    /\ up /\ crashes < MaxCrashes
    /\ up' = FALSE /\ crashes' = crashes + 1
    /\ pc' = [e \in Entities |-> "off"]
    /\ mem' = [e \in Entities |-> None]
    /\ writes' = [e \in Entities |-> {}]
    /\ asked' = {}
    /\ \/ UNCHANGED <<file, kept>>
       \/ \E e \in Entities : \E tokens \in writes[e] :
            /\ file' = [file EXCEPT ![FileOf(e)] = [by |-> Format(e), tokens |-> tokens]]
            /\ kept' = [kept EXCEPT ![e] = Honours(e)]
       \/ \E e \in Entities : /\ writes[e] # {}
                              /\ file' = [file EXCEPT ![FileOf(e)] = Broken]
                              /\ kept' = [kept EXCEPT ![e] = FALSE]
    /\ UNCHANGED service

Start ==
    /\ ~up
    /\ up' = TRUE
    /\ pc' = [e \in Entities |-> "build"]
    /\ UNCHANGED <<mem, file, writes, asked, service, kept, crashes>>

Next ==
    \/ \E e \in Entities : \/ Build(e) \/ Ask(e) \/ Callback(e) \/ Written(e)
                           \/ Expire(e) \/ CallRefused(e) \/ Refreshed(e) \/ RefreshFails(e)
    \/ Crash \/ Start

Spec == Init /\ [][Next]_vars

-----------------------------------------------------------------------------
(* Properties. *)

\* Once a session is saved, the file holds one the service honours, whatever is
\* refreshed, authorized again or written meanwhile, by this entity and by others,
\* and at whatever moment the process ends between two writes: after a restart no
\* user has to authorize it again.
KeepsASession ==
    \A e \in Entities : kept[e] =>
        /\ file[FileOf(e)].by = Format(e)
        /\ Refreshable(e) => file[FileOf(e)].tokens.refresh \in honoured[e]

\* The callback of a user's consent reaches the entity it was asked for, although
\* it says no more than a name.
Serves == \A e \in asked \ asked' : up' => writes'[e] # {}
ConsentIsServed == [][Serves]_vars
=============================================================================
