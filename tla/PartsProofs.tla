------------------------------ MODULE PartsProofs ------------------------------
(***************************************************************************)
(* Parts of the program that share no state, each for any value of its      *)
(* constants: what concrete clients make of the answers of their services,  *)
(* that the tokens of an authorized client or source are kept and given to  *)
(* the one that asked, which sessions of a media server are tracked, and    *)
(* what the ingress routes and their sources announce of the listens that   *)
(* Plex, Tautulli, Jellyfin and WebScrobbler tell them of: nothing dated in *)
(* the future, and no listen twice. Then, which of the entries that an      *)
(* administrator wrote become clients and sources, and under which names.   *)
(***************************************************************************)
EXTENDS MCParts, Stepwise, Integers, FiniteSetTheorems, SequenceTheorems, TLAPS

CONSTANTS SomeChanges     \* Upstream: number of outages

Service == INSTANCE Upstream WITH
    kind <- client, changes <- outages, stage <- request, MaxChanges <- SomeChanges

-----------------------------------------------------------------------------
(* The clients of Maloja, Last.fm and ListenBrainz.                           *)

\* Inductive as they stand: each is about the step of the request that was last and about
\* the answers that it met, and `met` is emptied when a request goes on.
UpstreamInv ==
    /\ client \in Service!Kinds
    /\ Service!ScrobbledIsStored /\ Service!RefusedStepsAside /\ Service!OutageIsNoRefusal

\* What a service answers to each request, and to whom it says no.
LEMMA AnswersOfRequests ==
  ASSUME client \in Service!Kinds, NEW what, NEW answer \in Service!Answers(what)
  PROVE  /\ answer \in {"network", "http500", "http403", "http400", "unhealthy", "ignored",
                        "limit", "ok"}
         /\ answer \in Service!Refusals[client] \/ answer \notin {"ignored", "http400"}
         /\ answer \in {"ignored", "http400"} => what = "scrobble"
         /\ answer = "unhealthy" => what = "health"
         /\ answer = "ok" => /\ Service!Answers(what) = {"ok"}
                             /\ what = "scrobble" => play # "refused"
  BY DEF Service!Answers, Service!Kinds, Service!Refusals

\* What a request throws, by client and answer.
LEMMA ThrownByEach ==
  ASSUME client \in Service!Kinds, NEW answer
  PROVE  Service!Thrown(answer) =
           IF answer \notin Service!HttpError \cup {"network"} THEN "none"
           ELSE IF client = "lastfm" THEN "upstream"
           ELSE IF client = "maloja" THEN (IF answer = "network" THEN "stopper" ELSE "upstream")
           ELSE IF answer = "network" THEN "error"
           ELSE IF answer = "http400" THEN "upstream" ELSE "stopper"
  BY DEF Service!Thrown, Service!Kinds, Service!ThrownByLastfm, Service!ThrownByMaloja,
     Service!ThrownByListenbrainz

\* What becomes of a scrobble: only one that the service took is scrobbled, one that it
\* refuses is not retried for ever, and one that did not arrive is no refusal.
LEMMA SubmittedEnds ==
  ASSUME client \in Service!Kinds, NEW answer \in Service!Answers("scrobble") \cup {"network"}
  PROVE  /\ Service!Submitted(answer) \in {"scrobbled", "dead", "stopped"}
         /\ Service!Submitted(answer) = "scrobbled" => Service!Answers("scrobble") = {"ok"}
         /\ play = "refused" /\ Service!Submitted(answer) = "stopped" =>
              answer \in {"network", "http500", "http403", "limit"}
         /\ client # "lastfm" /\ Service!Submitted(answer) = "dead" => answer # "network"
<1>1. answer = "network" \/ answer \in Service!Answers("scrobble")
  OBVIOUS
<1>2. /\ answer \in {"network", "http500", "http403", "http400", "ignored", "limit", "ok"}
      /\ answer \in Service!Refusals[client] \/ answer \notin {"ignored", "http400"}
      /\ answer = "ok" => Service!Answers("scrobble") = {"ok"} /\ play # "refused"
  BY <1>1, AnswersOfRequests
<1>3. Service!Thrown(answer) =
           IF answer \in {"ignored", "limit", "ok"} THEN "none"
           ELSE IF client = "lastfm" THEN "upstream"
           ELSE IF client = "maloja" THEN (IF answer = "network" THEN "stopper" ELSE "upstream")
           ELSE IF answer = "network" THEN "error"
           ELSE IF answer = "http400" THEN "upstream" ELSE "stopper"
  BY <1>2, ThrownByEach DEF Service!HttpError
<1>4. Service!Scrobbled(answer) <=> answer = "ok"
  BY <1>2, <1>3 DEF Service!Scrobbled
<1>5. Service!DeadLetter(answer) <=>
        \/ client = "maloja" /\ answer \in {"ignored", "http400", "http403", "http500"}
        \/ client = "lastfm" /\ answer \in {"ignored", "http400", "http403", "http500", "network"}
        \/ client = "listenbrainz" /\ answer \in {"http400", "http403", "http500"}
  <2>. USE <1>2, <1>3
  <2>1. CASE client = "maloja"
    BY <2>1 DEF Service!DeadLetter, Service!MalojaRefused
  <2>2. CASE client = "lastfm"
    BY <2>2 DEF Service!DeadLetter, Service!LastfmRefused
  <2>3. CASE client = "listenbrainz"
    BY <2>3 DEF Service!DeadLetter, Service!ListenbrainzRefused
  <2>. QED BY <2>1, <2>2, <2>3 DEF Service!Kinds
<1>6. Service!Submitted(answer) =
        IF answer = "ok" THEN "scrobbled"
        ELSE IF Service!DeadLetter(answer) THEN "dead" ELSE "stopped"
  BY <1>2, <1>4, <1>5 DEF Service!Submitted
<1>. QED
  BY <1>2, <1>5, <1>6 DEF Service!Kinds, Service!Refusals

\* A request is made, is answered or is not, and leads to the next.
LEMMA RequestKept ==
  ASSUME UpstreamInv, NEW what \in Service!Requests, Service!Request(what)
  PROVE  UpstreamInv'
<1>. USE DEF UpstreamInv, Service!ScrobbledIsStored, Service!RefusedStepsAside,
         Service!OutageIsNoRefusal
<1>1. /\ client' = client /\ play' = play /\ client \in Service!Kinds /\ request = what
      /\ what = "scrobble" /\ Service!Answers(what) = {"ok"} => stored'
  BY DEF Service!Request
<1>2. \/ request' = request
      \/ request' \in {"health", "auth", "refresh", "scrobble", "failed"}
      \/ /\ what = "refresh" /\ request' = "stopped"
         /\ \E answer \in met' : /\ Service!RefreshFailed(answer)
                                 /\ answer \in Service!Answers(what) \cup {"network"}
      \/ /\ what = "scrobble"
         /\ \E answer \in met' : /\ answer \in Service!Answers("scrobble") \cup {"network"}
                                 /\ request' = Service!Submitted(answer)
  <2>. PICK answer \in Service!Answers(what) \cup {"network"} :
        \/ request' = request
        \/ LET next == CASE what = "connection" -> Service!Tested(Service!AfterConnection, answer)
                         [] what = "health" -> Service!Tested("auth", answer)
                         [] what = "auth" -> Service!Tested("refresh", answer)
                         [] what = "refresh" ->
                              IF Service!RefreshFailed(answer) THEN "stopped" ELSE "scrobble"
                         [] what = "scrobble" -> Service!Submitted(answer)
           IN  /\ request' = next
               /\ met' = IF next \in Service!Ends THEN met \cup {answer} ELSE {}
    BY DEF Service!Request
  <2>1. CASE request' = request
    BY <2>1
  <2>2. CASE request' # request /\ what \in {"connection", "health", "auth"}
    BY <2>2 DEF Service!Tested, Service!AfterConnection
  <2>3. CASE request' # request /\ what = "refresh"
    BY <2>3 DEF Service!Ends
  <2>4. CASE request' # request /\ what = "scrobble"
    <3>1. /\ request' = Service!Submitted(answer)
          /\ met' = IF Service!Submitted(answer) \in Service!Ends THEN met \cup {answer} ELSE {}
      BY <2>4
    <3>2. Service!Submitted(answer) \in {"scrobbled", "dead", "stopped"}
      BY <1>1, <2>4, SubmittedEnds
    <3>. QED BY <3>1, <3>2, <2>4 DEF Service!Ends
  <2>. QED BY <2>1, <2>2, <2>3, <2>4 DEF Service!Requests
<1>3. CASE request' = request \/ request' \in {"health", "auth", "refresh", "scrobble", "failed"}
  BY <1>1, <1>3 DEF Service!Requests
<1>4. ASSUME what = "refresh", request' = "stopped",
             NEW answer \in met', Service!RefreshFailed(answer),
             answer \in Service!Answers(what) \cup {"network"}
      PROVE  UpstreamInv'
  <2>1. answer \in {"network", "http500", "http403"}
    BY <1>1, <1>4, AnswersOfRequests, ThrownByEach DEF Service!RefreshFailed, Service!HttpError
  <2>. QED BY <1>1, <1>4, <2>1
<1>5. ASSUME what = "scrobble", NEW answer \in met',
             answer \in Service!Answers("scrobble") \cup {"network"},
             request' = Service!Submitted(answer)
      PROVE  UpstreamInv'
  BY <1>1, <1>5, SubmittedEnds
<1>. QED BY <1>2, <1>3, <1>4, <1>5

\* Of every behaviour, for any number of outages.
LEMMA UpstreamInvAlways == Service!Spec => []UpstreamInv
<1>1. Service!Init => UpstreamInv
  BY DEF Service!Init, UpstreamInv, Service!ScrobbledIsStored, Service!RefusedStepsAside,
     Service!OutageIsNoRefusal, Service!FirstStage
<1>2. UpstreamInv /\ [Service!Next]_(Service!vars) => UpstreamInv'
  <2>1. UpstreamInv /\ UNCHANGED <<client, play, request, met, stored>> => UpstreamInv'
    BY DEF UpstreamInv, Service!ScrobbledIsStored, Service!RefusedStepsAside,
       Service!OutageIsNoRefusal, Service!Kinds
  <2>. QED
    BY <2>1, RequestKept DEF Service!Next, Service!ServiceChanges, Service!vars
<1>. QED BY <1>1, <1>2, PTL DEF Service!Spec

\* What a client says is scrobbled, its service stored (MalojaScrobbler.ts:405).
THEOREM ScrobbledIsStoredAlways == Service!Spec => []ScrobbledIsStored
<1>1. UpstreamInv => ScrobbledIsStored
  BY DEF UpstreamInv, ScrobbledIsStored, Service!ScrobbledIsStored, U!ScrobbledIsStored
<1>. QED BY <1>1, UpstreamInvAlways, PTL

\* A play that the service refuses goes to the dead letters and not back into the queue,
\* where it would be in front of the others for ever (AbstractScrobbleClient.ts:630).
THEOREM RefusedStepsAsideAlways == Service!Spec => []RefusedStepsAside
<1>1. UpstreamInv => RefusedStepsAside
  BY DEF UpstreamInv, RefusedStepsAside, Service!RefusedStepsAside, U!RefusedStepsAside
<1>. QED BY <1>1, UpstreamInvAlways, PTL

\* A service that cannot be reached refuses nothing: the play is not taken for dead.
\* But for Last.fm, of which the model says that it does (LastfmApiClient.ts:130).
THEOREM OutageIsNoRefusalAlways == Service!Spec => []OutageIsNoRefusal
<1>1. UpstreamInv => OutageIsNoRefusal
  BY DEF UpstreamInv, OutageIsNoRefusal, Service!OutageIsNoRefusal, U!OutageIsNoRefusal
<1>. QED BY <1>1, UpstreamInvAlways, PTL

-----------------------------------------------------------------------------
(* Tokens and callbacks.                                                      *)

\* No two entities have one file: Spotify and Deezer of one name do, and so does a Spotify
\* named "lastfm-a" with a Last.fm named "a" (DeezerSource.ts:48, LastfmApiClient.ts:46).
Authorized ==
    /\ KindOf \in [SomeEntities ->
                     {"spotify", "deezer", "lastfm-client", "lastfm-source", "ytmusic"}]
    /\ \A e, f \in SomeEntities : Tokens!FileOf(e) = Tokens!FileOf(f) => e = f

\* What a callback finds by its name is of a name of its own: clients are looked up
\* before sources (auth.ts:80).
ToldApart ==
    \A e, f \in SomeEntities : e # f /\ NameGiven[e] = NameGiven[f] =>
        /\ ~(Tokens!Format(e) = "lastfm" /\ f \in Tokens!Clients)
        /\ ~(KindOf[e] \in {"lastfm-source", "ytmusic"} /\ f \in Tokens!Sources)

\* The variables are functions of entities and files.
TokensTyped ==
    /\ file = [f \in Tokens!FileNames |-> file[f]]
    /\ writes = [e \in SomeEntities |-> writes[e]]
    /\ honoured = [e \in SomeEntities |-> honoured[e]]
    /\ kept = [e \in SomeEntities |-> kept[e]]
    /\ issued \in [SomeEntities -> Nat]

\* KeepsASession is about files.  What will be in a file is in `writes` before, and
\* what is in memory got there with it: so that too has a refresh token that is honoured.
TokensInv ==
    /\ TokensTyped
    /\ \A e \in SomeEntities : Tokens!Refreshable(e) =>
         \A tokens \in writes[e] : tokens.refresh \in honoured[e]
    /\ Tokens!KeepsASession

\* Every kind has its place in the order in which sources are built.
LEMMA RankIsNumber ==
  ASSUME Authorized, NEW e \in SomeEntities
  PROVE  Tokens!Rank(e) \in 1..5
<1>1. \E i \in 1..5 : Tokens!Types[i] = KindOf[e]
  <2>. DEFINE order == Tokens!Types
  <2>1. /\ order[1] = "spotify" /\ order[2] = "lastfm-source" /\ order[3] = "deezer"
        /\ order[4] = "ytmusic"
        /\ order[5] = "lastfm-client"
    BY DEF Tokens!Types
  <2>2. KindOf[e] \in {"spotify", "deezer", "lastfm-client", "lastfm-source", "ytmusic"}
    BY DEF Authorized
  <2>. QED BY <2>1, <2>2
<1>2. DOMAIN Tokens!Types = 1..5
  BY DEF Tokens!Types
<1>. QED BY <1>1, <1>2 DEF Tokens!Rank

\* So the first of some entities is one of them.
LEMMA FirstIsOne ==
  ASSUME Authorized, NEW S \in SUBSET SomeEntities, S # {}
  PROVE  Tokens!First(S) \in S
<1>1. \A x \in S : Tokens!Rank(x) \in 1..5
  BY RankIsNumber
<1>2. \E x \in S : \A y \in S : Tokens!Rank(x) <= Tokens!Rank(y)
  <2>. DEFINE R(x) == Tokens!Rank(x)
  <2>. HIDE DEF R
  <2>1. \A x \in S : R(x) \in 1..5
    BY <1>1 DEF R
  <2>2. \E x \in S : \A y \in S : R(x) <= R(y)
    <3>1. CASE \E x \in S : R(x) = 1
      BY <3>1, <2>1
    <3>2. CASE (\A x \in S : R(x) > 1) /\ \E x \in S : R(x) = 2
      BY <3>2, <2>1
    <3>3. CASE (\A x \in S : R(x) > 2) /\ \E x \in S : R(x) = 3
      BY <3>3, <2>1
    <3>4. CASE (\A x \in S : R(x) > 3) /\ \E x \in S : R(x) = 4
      BY <3>4, <2>1
    <3>5. CASE \A x \in S : R(x) = 5
      BY <3>5, <2>1
    <3>. QED BY <3>1, <3>2, <3>3, <3>4, <3>5, <2>1
  <2>. QED BY <2>2 DEF R
<1>. QED BY <1>2 DEF Tokens!First

\* A callback that finds an entity of another name or kind gives it no tokens to refresh.
LEMMA AnswersForItsKind ==
  ASSUME Authorized, NEW e \in SomeEntities, NEW x, x = Tokens!Found(e),
         Tokens!Format(x) = Tokens!Format(e), Tokens!Refreshable(e)
  PROVE  x = e
<1>1. CASE KindOf[e] = "spotify"
  BY <1>1 DEF Tokens!Found, Tokens!Format
<1>2. CASE KindOf[e] = "ytmusic"
  <2>1. x = Tokens!First(Tokens!Named(Tokens!Sources, e))
    BY <1>2 DEF Tokens!Found, Tokens!Format
  <2>2. e \in Tokens!Named(Tokens!Sources, e)
    BY <1>2 DEF Tokens!Named, Tokens!Sources, Tokens!Clients
  <2>3. x \in SomeEntities /\ NameGiven[x] = NameGiven[e]
    BY <2>1, <2>2, FirstIsOne DEF Tokens!Named, Tokens!Sources
  <2>4. KindOf[x] = "ytmusic"
    BY <1>2, <2>3 DEF Tokens!Format, Authorized
  <2>5. Tokens!FileOf(x) = Tokens!FileOf(e)
    BY <1>2, <2>3, <2>4 DEF Tokens!FileOf, Tokens!Format
  <2>. QED BY <2>3, <2>5 DEF Authorized
<1>. QED BY <1>1, <1>2 DEF Tokens!Refreshable

\* Whether tokens are refreshed is a matter of the format of the file.
LEMMA RefreshableByFormat ==
  ASSUME Authorized, NEW e \in SomeEntities, NEW x \in SomeEntities,
         Tokens!Format(x) = Tokens!Format(e)
  PROVE  Tokens!Refreshable(x) <=> Tokens!Refreshable(e)
  BY DEF Authorized, Tokens!Format, Tokens!Refreshable

\* Nobody is authorized at first.
LEMMA InitTokens == Tokens!Init => TokensInv
  BY DEF Tokens!Init, TokensInv, TokensTyped, Tokens!KeepsASession, Tokens!FileNames

\* Steps that neither issue nor save tokens.
LEMMA KeptWhenUntouched ==
  ASSUME TokensInv, UNCHANGED <<file, writes, honoured, kept, issued>>
  PROVE  TokensInv'
  BY DEF TokensInv, TokensTyped, Tokens!KeepsASession

\* A user is sent to the consent page, of YouTube Music after a sign out.
LEMMA KeptByAsk ==
  ASSUME TokensInv, NEW e \in SomeEntities, Tokens!Ask(e)
  PROVE  TokensInv'
<1>1. CASE UNCHANGED <<file, writes, honoured, kept, issued>>
  BY <1>1, KeptWhenUntouched
<1>2. CASE Tokens!SignOut(e) /\ UNCHANGED <<file, issued>>
  BY <1>2 DEF TokensInv, TokensTyped, Tokens!SignOut, Tokens!KeepsASession
<1>. QED BY <1>1, <1>2 DEF Tokens!Ask

\* The callback: tokens are issued for one entity and may be taken by another.
LEMMA KeptByCallback ==
  ASSUME Authorized, TokensInv, NEW e \in SomeEntities, Tokens!Callback(e)
  PROVE  TokensInv'
<1>. DEFINE tokens == [access |-> Tokens!New(e),
                       refresh |-> IF Tokens!Refreshable(e) THEN Tokens!New(e) ELSE 0]
            x == Tokens!Found(e)
<1>1. UNCHANGED <<file, kept>>
  BY DEF Tokens!Callback
<1>2. CASE UNCHANGED <<writes, honoured, issued>>
  BY <1>1, <1>2, KeptWhenUntouched
<1>3. CASE Tokens!Format(x) = Tokens!Format(e) /\ Tokens!Issue(e, tokens) /\ Tokens!Taken(x, tokens)
  <2>1. /\ issued' = [issued EXCEPT ![e] = @ + 1]
        /\ honoured' = [honoured EXCEPT ![e] = @ \cup ({tokens.refresh} \ {0})]
        /\ writes' = [writes EXCEPT ![x] = @ \cup {tokens}]
    BY <1>3 DEF Tokens!Issue, Tokens!Taken
  <2>2. Tokens!Refreshable(e) => tokens.refresh # 0 /\ tokens.refresh \in honoured'[e]
    BY <2>1 DEF TokensInv, TokensTyped, Tokens!New
  <2>3. \A f \in SomeEntities : Tokens!Refreshable(f) =>
          \A t \in writes'[f] : t \in writes[f] \/ (f = e /\ t.refresh \in honoured'[f])
    <3>. SUFFICES ASSUME NEW f \in SomeEntities, Tokens!Refreshable(f),
                         NEW t \in writes'[f], t \notin writes[f]
                  PROVE  f = e /\ t.refresh \in honoured'[f]
      OBVIOUS
    <3>1. f = x /\ t = tokens
      BY <2>1 DEF TokensInv, TokensTyped
    <3>2. Tokens!Refreshable(e)
      BY <3>1, <1>3, RefreshableByFormat
    <3>3. f = e
      BY <3>1, <3>2, <1>3, AnswersForItsKind
    <3>. QED BY <3>1, <3>2, <3>3, <2>2
  <2>4. \A f \in SomeEntities : honoured[f] \subseteq honoured'[f]
    BY <2>1 DEF TokensInv, TokensTyped
  <2>. HIDE DEF x, tokens
  <2>5. \A f \in SomeEntities : Tokens!Refreshable(f) =>
          \A t \in writes'[f] : t.refresh \in honoured'[f]
    BY <2>3, <2>4 DEF TokensInv, TokensTyped
  <2>6. Tokens!KeepsASession'
    BY <1>1, <2>4 DEF TokensInv, TokensTyped, Tokens!KeepsASession
  <2>7. TokensTyped'
    <3>1. TokensTyped
      BY DEF TokensInv
    <3>2. file' = [f \in Tokens!FileNames |-> file'[f]] /\ kept' = [f \in SomeEntities |-> kept'[f]]
      BY <1>1, <3>1 DEF TokensTyped
    <3>3. /\ writes' = [f \in SomeEntities |-> writes'[f]]
          /\ honoured' = [f \in SomeEntities |-> honoured'[f]]
      BY <2>1, <3>1 DEF TokensTyped
    <3>4. issued' \in [SomeEntities -> Nat]
      BY <2>1, <3>1 DEF TokensTyped
    <3>. QED BY <3>2, <3>3, <3>4 DEF TokensTyped
  <2>. QED BY <2>5, <2>6, <2>7 DEF TokensInv, TokensTyped
<1>. QED BY <1>2, <1>3 DEF Tokens!Callback, Tokens!service

\* callApi refreshes: what the answer leaves out is taken from memory.
LEMMA KeptByRefreshed ==
  ASSUME TokensInv, NEW e \in SomeEntities, Tokens!Refreshed(e)
  PROVE  TokensInv'
<1>. PICK given \in {0, Tokens!New(e)} :
       /\ Tokens!Issue(e, [access |-> Tokens!New(e), refresh |-> given])
       /\ writes' = [writes EXCEPT ![e] =
               @ \cup {[access |-> Tokens!New(e), refresh |-> Tokens!Saved(e, given)]}]
  BY DEF Tokens!Refreshed
<1>1. /\ issued' = [issued EXCEPT ![e] = @ + 1]
      /\ honoured' = [honoured EXCEPT ![e] = @ \cup ({given} \ {0})]
      /\ mem[e].refresh \in honoured[e] /\ UNCHANGED <<file, kept>>
  BY DEF Tokens!Issue, Tokens!Refreshed
<1>2. Tokens!Saved(e, given) \in honoured'[e]
  BY <1>1 DEF Tokens!Saved, Tokens!New, TokensInv, TokensTyped
<1>3. \A f \in SomeEntities : honoured[f] \subseteq honoured'[f]
  BY <1>1 DEF TokensInv, TokensTyped
<1>4. \A f \in SomeEntities : Tokens!Refreshable(f) =>
        \A t \in writes'[f] : t.refresh \in honoured'[f]
  BY <1>2, <1>3 DEF TokensInv, TokensTyped
<1>5. Tokens!KeepsASession'
  BY <1>1, <1>3 DEF TokensInv, TokensTyped, Tokens!KeepsASession
<1>6. TokensTyped'
  <2>1. TokensTyped
    BY DEF TokensInv
  <2>2. file' = [f \in Tokens!FileNames |-> file'[f]] /\ kept' = [f \in SomeEntities |-> kept'[f]]
    BY <1>1, <2>1 DEF TokensTyped
  <2>3. /\ writes' = [f \in SomeEntities |-> writes'[f]]
        /\ honoured' = [f \in SomeEntities |-> honoured'[f]]
    BY <1>1, <2>1 DEF TokensTyped
  <2>4. issued' \in [SomeEntities -> Nat]
    BY <1>1, <2>1 DEF TokensTyped
  <2>. QED BY <2>2, <2>3, <2>4 DEF TokensTyped
<1>. QED BY <1>4, <1>5, <1>6 DEF TokensInv, TokensTyped

\* A session is written to the file of e, and to no other's.
LEMMA KeptBySaving ==
  ASSUME Authorized, TokensInv, NEW e \in SomeEntities, NEW tokens \in writes[e],
         file' = [file EXCEPT ![Tokens!FileOf(e)] = [by |-> Tokens!Format(e), tokens |-> tokens]],
         kept' = [kept EXCEPT ![e] = Tokens!Honours(e)],
         UNCHANGED <<honoured, issued>>,
         writes' = [f \in SomeEntities |-> writes'[f]],
         \A f \in SomeEntities : writes'[f] \subseteq writes[f]
  PROVE  TokensInv'
<1>1. \A f \in SomeEntities : f # e =>
         file'[Tokens!FileOf(f)] = file[Tokens!FileOf(f)] /\ kept'[f] = kept[f]
  BY DEF Authorized, TokensInv, TokensTyped
<1>2. file'[Tokens!FileOf(e)] = [by |-> Tokens!Format(e), tokens |-> tokens]
  BY DEF TokensInv, TokensTyped, Tokens!FileNames
<1>3. Tokens!KeepsASession'
  <2>1. Tokens!Refreshable(e) => tokens.refresh \in honoured[e]
    BY DEF TokensInv
  <2>. QED BY <1>1, <1>2, <2>1 DEF TokensInv, Tokens!KeepsASession
<1>. QED BY <1>3 DEF TokensInv, TokensTyped

\* A crash loses what is in memory and may leave half of a file.
LEMMA KeptByCrash ==
  ASSUME Authorized, TokensInv, Tokens!Crash
  PROVE  TokensInv'
<1>1. writes' = [e \in SomeEntities |-> {}] /\ UNCHANGED <<honoured, issued>>
  BY DEF Tokens!Crash, Tokens!service
<1>2. CASE UNCHANGED <<file, kept>>
  BY <1>1, <1>2 DEF TokensInv, TokensTyped, Tokens!KeepsASession
<1>3. ASSUME NEW e \in SomeEntities, NEW tokens \in writes[e],
             file' = [file EXCEPT ![Tokens!FileOf(e)] =
                         [by |-> Tokens!Format(e), tokens |-> tokens]],
             kept' = [kept EXCEPT ![e] = Tokens!Honours(e)]
      PROVE  TokensInv'
  BY <1>1, <1>3, KeptBySaving
<1>4. ASSUME NEW e \in SomeEntities,
             file' = [file EXCEPT ![Tokens!FileOf(e)] = Tokens!Broken],
             kept' = [kept EXCEPT ![e] = FALSE]
      PROVE  TokensInv'
  <2>1. \A f \in SomeEntities : f # e =>
           file'[Tokens!FileOf(f)] = file[Tokens!FileOf(f)] /\ kept'[f] = kept[f]
    BY <1>4 DEF Authorized, TokensInv, TokensTyped
  <2>2. Tokens!KeepsASession'
    BY <1>1, <1>4, <2>1 DEF TokensInv, TokensTyped, Tokens!KeepsASession
  <2>. QED BY <1>1, <1>4, <2>2 DEF TokensInv, TokensTyped
<1>. QED BY <1>2, <1>3, <1>4 DEF Tokens!Crash

\* A session that was saved can be taken up after any restart, unless a write of its file
\* was cut off (SpotifySource.ts:460): for any entities with files of their own, tokens and
\* crashes.  (Machine "ytmusic" of MCParts is this module with other values of the constants.)
THEOREM KeepsASessionAlways ==
  ASSUME Authorized
  PROVE  Tokens!Spec => [](machine # "ytmusic" => KeepsASession)
<1>1. TokensInv /\ [Tokens!Next]_(Tokens!vars) => TokensInv'
  <2>. SUFFICES ASSUME TokensInv, [Tokens!Next]_(Tokens!vars) PROVE TokensInv'
    OBVIOUS
  <2>1. CASE UNCHANGED <<file, writes, honoured, kept, issued>>
    BY <2>1, KeptWhenUntouched
  <2>2. ASSUME NEW e \in SomeEntities, Tokens!Written(e) PROVE TokensInv'
    <3>. PICK tokens \in writes[e] :
           /\ file' = [file EXCEPT ![Tokens!FileOf(e)] =
                          [by |-> Tokens!Format(e), tokens |-> tokens]]
           /\ writes' = [writes EXCEPT ![e] = @ \ {tokens}]
           /\ kept' = [kept EXCEPT ![e] = Tokens!Honours(e)]
           /\ UNCHANGED <<honoured, issued>>
      BY <2>2 DEF Tokens!Written, Tokens!service
    <3>1. /\ writes' = [f \in SomeEntities |-> writes'[f]]
          /\ \A f \in SomeEntities : writes'[f] \subseteq writes[f]
      BY DEF TokensInv, TokensTyped
    <3>. QED BY <3>1, KeptBySaving
  <2>3. ASSUME NEW e \in SomeEntities,
               \/ Tokens!Build(e) \/ Tokens!Expire(e)
               \/ Tokens!CallRefused(e) \/ Tokens!RefreshFails(e)
        PROVE  UNCHANGED <<file, writes, honoured, kept, issued>>
    BY <2>3 DEF Tokens!Build, Tokens!Expire, Tokens!CallRefused, Tokens!RefreshFails, Tokens!service
  <2>4. CASE Tokens!Start \/ UNCHANGED Tokens!vars
    BY <2>1, <2>4 DEF Tokens!Start, Tokens!vars, Tokens!service
  <2>. QED
    BY <2>1, <2>2, <2>3, <2>4, KeptByAsk, KeptByCallback, KeptByRefreshed, KeptByCrash
       DEF Tokens!Next
<1>2. TokensInv => (machine # "ytmusic" => KeepsASession)
  BY DEF TokensInv, KeepsASession
<1>. QED BY <1>1, <1>2, InitTokens, PTL DEF Tokens!Spec

\* What the serving of callbacks needs of the types.
HasWrites == writes = [e \in SomeEntities |-> writes[e]]

\* A callback finds the entity that it is for.
LEMMA FoundIsItself ==
  ASSUME Authorized, ToldApart, NEW e \in SomeEntities
  PROVE  Tokens!Found(e) = e
<1>. USE DEF Tokens!Found
<1>1. CASE KindOf[e] = "lastfm-client"
  <2>1. Tokens!Named(Tokens!Clients, e) = {e}
    BY <1>1 DEF Tokens!Named, Tokens!Clients, ToldApart, Tokens!Format
  <2>. QED BY <1>1, <2>1, FirstIsOne DEF Tokens!Format
<1>2. CASE KindOf[e] = "lastfm-source"
  <2>1. Tokens!Named(Tokens!Clients, e) = {} /\ Tokens!Named(Tokens!Sources, e) = {e}
    BY <1>2 DEF Tokens!Named, Tokens!Clients, Tokens!Sources, ToldApart, Tokens!Format
  <2>. QED BY <1>2, <2>1, FirstIsOne DEF Tokens!Format
<1>3. CASE KindOf[e] = "ytmusic"
  <2>1. Tokens!Named(Tokens!Sources, e) = {e}
    BY <1>3 DEF Tokens!Named, Tokens!Clients, Tokens!Sources, ToldApart, Tokens!Format
  <2>. QED BY <1>3, <2>1, FirstIsOne DEF Tokens!Format
<1>4. CASE KindOf[e] \in {"spotify", "deezer"}
  BY <1>4 DEF Tokens!Format
<1>. QED BY <1>1, <1>2, <1>3, <1>4 DEF Authorized

\* Who gave consent is served: the callback saves tokens for the entity that asked for it
\* (auth.ts:80), for any entities that names tell apart.
THEOREM ConsentIsServedAlways ==
  ASSUME Authorized, ToldApart
  PROVE  Tokens!Spec => ConsentIsServed
<1>1. HasWrites /\ [Tokens!Next]_(Tokens!vars) => Tokens!Serves
  <2>. SUFFICES ASSUME HasWrites, [Tokens!Next]_(Tokens!vars), NEW e \in asked \ asked', up'
                PROVE  writes'[e] # {}
    BY DEF Tokens!Serves
  <2>1. asked' # asked
    OBVIOUS
  <2>2. PICK f \in SomeEntities : Tokens!Callback(f)
    <3>1. \A f \in SomeEntities : Tokens!Ask(f) => e \in asked'
      BY DEF Tokens!Ask
    <3>2. ~Tokens!Crash
      BY DEF Tokens!Crash
    <3>. QED
      BY <2>1, <3>1, <3>2 DEF Tokens!Next, Tokens!Build, Tokens!Written, Tokens!Expire,
         Tokens!CallRefused, Tokens!Refreshed, Tokens!RefreshFails, Tokens!Start, Tokens!vars
  <2>3. f = e
    BY <2>2 DEF Tokens!Callback
  <2>4. Tokens!Found(e) = e
    BY <2>2, <2>3, FoundIsItself
  <2>5. PICK tokens : writes' = [writes EXCEPT ![e] = @ \cup {tokens}]
    BY <2>2, <2>3, <2>4 DEF Tokens!Callback, Tokens!Taken
  <2>. QED BY <2>2, <2>3, <2>5 DEF HasWrites
<1>2. HasWrites /\ [Tokens!Next]_(Tokens!vars) => HasWrites'
  <2>. SUFFICES ASSUME HasWrites, [Tokens!Next]_(Tokens!vars) PROVE HasWrites'
    OBVIOUS
  <2>. USE DEF HasWrites
  <2>1. CASE UNCHANGED writes
    BY <2>1
  <2>. QED
    BY <2>1 DEF Tokens!Next, Tokens!Build, Tokens!Ask, Tokens!SignOut, Tokens!Callback,
      Tokens!Taken, Tokens!Written, Tokens!Expire, Tokens!CallRefused, Tokens!Refreshed,
      Tokens!RefreshFails, Tokens!Crash, Tokens!Start, Tokens!vars
<1>3. Tokens!Init => HasWrites
  BY DEF Tokens!Init, HasWrites
<1>4. Tokens!Serves => Y!Serves
  BY DEF Tokens!Serves, Y!Serves
<1>. QED BY <1>1, <1>2, <1>3, <1>4, PTL DEF Tokens!Spec, ConsentIsServed

-----------------------------------------------------------------------------
(* The sessions of a media server.                                            *)

\* A list of allowed users names one, for everybody is what `true` is for.  The device of
\* the source itself plays nothing.
MediaSetting ==
    /\ \A k \in {"jellyfin", "plex"} : \A c \in ConfigsOf[k] : c.usersAllow # {}
    /\ \A p \in PlayersOf : p = <<p[1], p[2]>> /\ p[2] # Media!Own

\* What a source has of the option usersAllow, from one stage to the next.
UsersRead ==
    /\ kind = "jellyfin" /\ stage # "new" =>
         usersAllow = IF config.usersAllow = Media!Default THEN {Media!Owner}
                      ELSE IF config.usersAllow = Media!Everybody THEN {} ELSE config.usersAllow
    /\ kind = "plex" /\ stage \in {"built", "connected"} =>
         usersAllow = IF config.usersAllow \in {Media!Default, Media!Everybody} THEN {}
                      ELSE config.usersAllow
    /\ kind = "plex" /\ stage \in {"ready", "polling"} => usersAllow = Media!AllowedUsers

\* A session is of a player or, in Jellyfin, of the source; only Jellyfin has some without
\* an item.
SessionsTyped ==
    \A s \in sessions :
        /\ Media!Player(s) \in PlayersOf \/ (kind = "jellyfin" /\ s.device = Media!Own)
        /\ s.item \in Media!Item \/ (kind = "jellyfin" /\ s.item = Media!NoItem)

\* What a poll filters with is right when it is made, for any number of changes before.
MediaInv ==
    /\ kind \in {"jellyfin", "plex"} /\ config \in ConfigsOf[kind]
    /\ stage \in {"new", "built", "connected", "ready", "polling"}
    /\ tracked = [p \in PlayersOf |-> tracked[p]]
    /\ UsersRead /\ SessionsTyped

\* Before the source is built.
LEMMA InitMedia == Media!Init => MediaInv
  BY DEF Media!Init, MediaInv, UsersRead, SessionsTyped

\* The server has other sessions.
LEMMA SessionsStayTyped ==
  ASSUME MediaSetting, kind \in {"jellyfin", "plex"}, SessionsTyped, Media!SessionsChange
  PROVE  SessionsTyped'
<1>1. kind' = kind
  BY DEF Media!SessionsChange
<1>2. \A s \in sessions' : s \in sessions \/ \E k \in {1, 2} : s \in Media!Sessions({k})
  BY DEF Media!SessionsChange
<1>3. ASSUME NEW k \in {1, 2}, NEW s \in Media!Sessions({k})
      PROVE  /\ Media!Player(s) \in PlayersOf \/ (kind = "jellyfin" /\ s.device = Media!Own)
             /\ s.item \in Media!Item \/ (kind = "jellyfin" /\ s.item = Media!NoItem)
  <2>1. PICK p \in (IF kind = "plex" THEN PlayersOf
                    ELSE {q \in PlayersOf : q[1] # Media!Local} \cup {<<Media!Owner, Media!Own>>}),
             i \in Media!Item \cup (IF kind = "jellyfin" THEN {Media!NoItem} ELSE {}),
             b \in BOOLEAN :
          s = [key |-> k, user |-> p[1], device |-> p[2], item |-> i, playing |-> b]
    BY DEF Media!Sessions
  <2>2. s.user = p[1] /\ s.device = p[2] /\ s.item = i
    BY <2>1
  <2>3. CASE p \in PlayersOf
    BY <2>2, <2>3 DEF MediaSetting, Media!Player
  <2>4. CASE p \notin PlayersOf
    <3>1. kind = "jellyfin" /\ p = <<Media!Owner, Media!Own>>
      BY <2>4
    <3>. QED BY <2>2, <3>1
  <2>. QED BY <2>3, <2>4
<1>. QED BY <1>1, <1>2, <1>3 DEF SessionsTyped, Media!Player

\* Every step of the server and of the source.
LEMMA MediaInvKept ==
  ASSUME MediaSetting, MediaInv, [Media!Next]_(Media!vars)
  PROVE  MediaInv'
<1>1. kind' = kind /\ config' = config
  BY DEF Media!Next, Media!vars, Media!Change, Media!SessionsChange, Media!BuildInitData,
     Media!JellyfinConnects, Media!PlexConnects, Media!JellyfinAuth, Media!PlexAuthenticates,
     Media!JellyfinStarts, Media!PlexStarts, Media!Polled, Media!PollFails, Media!Cleaned
<1>2. SessionsTyped'
  <2>1. CASE sessions' = sessions
    BY <1>1, <2>1 DEF MediaInv, SessionsTyped, Media!Player
  <2>2. CASE Media!SessionsChange
    BY <2>2, SessionsStayTyped DEF MediaInv
  <2>. QED
    BY <2>1, <2>2 DEF Media!Next, Media!vars, Media!Change, Media!BuildInitData, Media!server,
     Media!JellyfinConnects, Media!PlexConnects, Media!JellyfinAuth, Media!PlexAuthenticates,
     Media!JellyfinStarts, Media!PlexStarts, Media!Polled, Media!PollFails, Media!Cleaned
<1>3. tracked' = [p \in PlayersOf |-> tracked'[p]]
  <2>1. tracked = [p \in PlayersOf |-> tracked[p]]
    BY DEF MediaInv
  <2>2. CASE tracked' = tracked
    BY <2>1, <2>2
  <2>3. CASE Media!Polled
    <3>1. \E f : tracked' = [p \in DOMAIN tracked |-> f[p]]
      <4>1. PICK pick : tracked' = [p \in DOMAIN tracked |->
               IF p \in DOMAIN pick THEN Media!Updated(p, pick[p]) ELSE tracked[p]]
        BY <2>3 DEF Media!Polled, Media!Processed
      <4>. DEFINE f == [p \in DOMAIN tracked |->
               IF p \in DOMAIN pick THEN Media!Updated(p, pick[p]) ELSE tracked[p]]
      <4>2. tracked' = [p \in DOMAIN tracked |-> f[p]]
        BY <4>1
      <4>. QED BY <4>2
    <3>. QED BY <2>1, <3>1
  <2>4. ASSUME NEW p \in PlayersOf, Media!Cleaned(p)
        PROVE  tracked' = [q \in PlayersOf |-> tracked'[q]]
    BY <2>1, <2>4 DEF Media!Cleaned
  <2>. QED
    BY <2>2, <2>3, <2>4 DEF Media!Next, Media!vars, Media!Change, Media!SessionsChange,
     Media!BuildInitData, Media!JellyfinConnects, Media!PlexConnects, Media!JellyfinAuth,
     Media!PlexAuthenticates, Media!JellyfinStarts, Media!PlexStarts, Media!PollFails
<1>4. UsersRead' /\ stage' \in {"new", "built", "connected", "ready", "polling"}
  <2>. USE DEF MediaInv
  <2>1. CASE UNCHANGED <<stage, usersAllow>>
    BY <1>1, <2>1 DEF UsersRead, Media!AllowedUsers
  <2>2. CASE Media!BuildInitData
    <3>1. Media!Default # Media!Everybody
      BY DEF Media!Default, Media!Everybody
    <3>2. Media!JellyfinSettings =>
            usersAllow' = IF config.usersAllow = Media!Default THEN {Media!Owner}
                          ELSE IF config.usersAllow = Media!Everybody THEN {}
                          ELSE config.usersAllow
      BY <3>1 DEF Media!JellyfinSettings
    <3>. QED
      BY <1>1, <2>2, <3>2 DEF UsersRead, Media!BuildInitData, Media!PlexSettings
  <2>3. CASE Media!JellyfinConnects \/ Media!PlexConnects
    BY <1>1, <2>3 DEF UsersRead, Media!JellyfinConnects, Media!PlexConnects
  <2>4. CASE Media!JellyfinAuth \/ Media!JellyfinStarts
    BY <1>1, <2>4 DEF UsersRead, Media!JellyfinAuth, Media!JellyfinStarts
  <2>5. CASE Media!PlexAuthenticates
    <3>1. config.usersAllow # {}
      BY DEF MediaSetting
    <3>2. kind' = "plex" /\ stage' = "ready" /\ usersAllow' = Media!AllowedUsers
      BY <1>1, <2>5, <3>1 DEF Media!PlexAuthenticates, Media!PlexAuth, UsersRead, Media!AllowedUsers
    <3>. QED BY <1>1, <3>2 DEF UsersRead, Media!AllowedUsers
  <2>6. CASE Media!PlexStarts \/ Media!PollFails
    BY <1>1, <2>6 DEF UsersRead, Media!PlexStarts, Media!PollFails, Media!AllowedUsers
  <2>. QED
    BY <2>1, <2>2, <2>3, <2>4, <2>5, <2>6
    DEF Media!Next, Media!vars, Media!Change, Media!SessionsChange, Media!Polled, Media!Cleaned
<1>. QED BY <1>1, <1>2, <1>3, <1>4 DEF MediaInv

\* The filter of users lets pass whom the documentation says.
LEMMA UserAdmitted ==
  ASSUME MediaSetting, MediaInv, stage = "polling", NEW p \in PlayersOf
  PROVE  Media!PassesUser(p[1]) <=> p[1] \in Media!AllowedUsers \ config.usersBlock
<1>. USE DEF MediaInv
<1>1. config.usersAllow # {}
  BY DEF MediaSetting
<1>2. Media!Default # Media!Everybody
  BY DEF Media!Default, Media!Everybody
<1>3. CASE kind = "jellyfin"
  <2>1. usersAllow = IF config.usersAllow = Media!Default THEN {Media!Owner}
                     ELSE IF config.usersAllow = Media!Everybody THEN {} ELSE config.usersAllow
    BY <1>3 DEF UsersRead
  <2>. QED BY <1>1, <1>2, <1>3, <2>1 DEF Media!PassesUser, Media!AllowedUsers
<1>4. CASE kind = "plex"
  <2>1. usersAllow = Media!AllowedUsers
    BY <1>4 DEF UsersRead
  <2>. QED BY <1>1, <1>4, <2>1 DEF Media!PassesUser, Media!AllowedUsers
<1>. QED BY <1>3, <1>4

\* So does that of libraries, as long as none is inside another.
LEMMA LibraryListed ==
  ASSUME MediaInv, Media!Current, NEW l \in SomeLibraries,
         \A m \in SomeLibraries : <<l, m>> \notin InsideOf[kind]
  PROVE  (IF kind = "jellyfin" THEN Media!JellyfinLibrary(l) ELSE Media!PlexLibrary(l))
           <=> Media!Listed(l)
<1>1. DOMAIN libraries = Media!Shelved /\ \A m \in Media!Shelved : libraries[m] = shelf[m]
  BY DEF Media!Current
<1>2. Media!Shelved \subseteq SomeLibraries
  BY DEF Media!Shelved
<1>3. \A some : some \subseteq SomeLibraries => (Media!CountsAsIn(l, some) <=> l \in some)
  BY DEF Media!CountsAsIn
<1>4. /\ Media!AllowedLibraries = config.librariesAllow \intersect Media!Shelved
      /\ Media!BlockedLibraries = config.librariesBlock \intersect Media!Shelved
      /\ Media!JellyfinValid = {m \in Media!Shelved :
                                  shelf[m] \in {"music"} \cup config.additional}
      /\ Media!PlexValid = {m \in Media!Shelved : shelf[m] = "music"}
  BY <1>1 DEF Media!AllowedLibraries, Media!BlockedLibraries, Media!JellyfinValid,
     Media!PlexValid
<1>5. CASE kind = "jellyfin"
  BY <1>2, <1>3, <1>4, <1>5 DEF Media!JellyfinLibrary, Media!Listed
<1>6. CASE kind = "plex"
  BY <1>2, <1>3, <1>4, <1>6 DEF Media!PlexLibrary, Media!Listed
<1>. QED BY <1>5, <1>6 DEF MediaInv

\* A session with an item is looked at, and it passes every filter just when it is admitted.
LEMMA ValidIsAdmitted ==
  ASSUME MediaSetting, MediaInv, stage = "polling", Media!Current, ~Media!Ambiguous,
         NEW s \in sessions, Media!Player(s) \in PlayersOf, s.item # Media!NoItem
  PROVE  /\ s \in Media!Considered
         /\ Media!Valid(s) <=> Media!Admitted(s)
<1>1. s.item \in Media!Item /\ s.device # Media!Own
  BY DEF MediaInv, SessionsTyped, MediaSetting, Media!Player
<1>2. s \in Media!Considered
  BY <1>1 DEF Media!Considered, Media!JellyfinConsidered, Media!PlexConsidered
<1>3. Media!PassesUser(s.user) <=> s.user \in Media!AllowedUsers \ config.usersBlock
  BY UserAdmitted DEF Media!Player
<1>4. Media!PassesDevice(s.device) <=>
         /\ s.device \notin config.devicesBlock \union {Media!Own}
         /\ config.devicesAllow # {} => s.device \in config.devicesAllow
  BY <1>1 DEF Media!PassesDevice
<1>5. Media!PassesLibrary(s.item) <=> Media!Listed(s.item.library)
  <2>1. s.item.library \in SomeLibraries
    BY <1>1 DEF Media!Item
  <2>2. \A m \in SomeLibraries : <<s.item.library, m>> \notin InsideOf[kind]
    BY DEF Media!Ambiguous
  <2>. QED BY <2>1, <2>2, LibraryListed DEF Media!PassesLibrary
<1>6. Media!PassesMedia(s.item) <=> s.item.media = "track"
  BY DEF Media!PassesMedia, Media!JellyfinMedia, Media!PlexMedia
<1>. QED BY <1>2, <1>3, <1>4, <1>5, <1>6 DEF Media!Valid, Media!Admitted

\* The sessions of a player that pass are those admitted, or idle ones; of them one is
\* picked, for Plex the latest.
LEMMA PollTracksAdmitted == ASSUME MediaSetting, MediaInv PROVE Media!TracksAdmitted
<1>. SUFFICES ASSUME Media!Polled, Media!Current, ~Media!Ambiguous, NEW p \in PlayersOf
              PROVE  LET of == {s \in sessions : Media!Player(s) = p /\ Media!Admitted(s)} IN
                     IF of = {} THEN tracked[p] = Media!NoPlayer => tracked'[p] = Media!NoPlayer
                     ELSE Media!Idle(p) \/
                          /\ tracked'[p] # Media!NoPlayer
                          /\ \E s \in of :
                                 /\ tracked'[p].item = s.item
                                 /\ kind = "plex" => \A t \in of : t.key <= s.key
  BY DEF Media!TracksAdmitted
<1>. DEFINE of   == {s \in sessions : Media!Player(s) = p /\ Media!Admitted(s)}
            some == {s \in Media!Considered : Media!Valid(s)}
            here == {s \in some : Media!Player(s) = p}
<1>1. stage = "polling" /\ Media!Processed(some)
  BY DEF Media!Polled
<1>2. some \subseteq sessions
  BY DEF Media!Considered, Media!JellyfinConsidered, Media!PlexConsidered
<1>3. \A s \in sessions : Media!Player(s) = p /\ s.item # Media!NoItem => (s \in here <=> s \in of)
  BY <1>1, ValidIsAdmitted
<1>4. \A s \in of : s.item # Media!NoItem
  BY DEF Media!Admitted
<1>5. \A s \in here : s.item = Media!NoItem => kind = "jellyfin" /\ tracked[p] # Media!NoPlayer
  BY <1>2 DEF MediaInv, SessionsTyped, Media!Considered, Media!JellyfinConsidered, Media!Item,
     Media!NoItem, Media!None
<1>6. PICK pick \in [{Media!Player(s) : s \in some} -> some] :
        /\ \A q \in DOMAIN pick :
             LET qs == {s \in some : Media!Player(s) = q} IN
             pick[q] \in IF kind = "jellyfin" THEN Media!JellyfinPicks(qs)
                         ELSE Media!PlexPicks(qs)
        /\ tracked' = [q \in DOMAIN tracked |->
                         IF q \in DOMAIN pick THEN Media!Updated(q, pick[q]) ELSE tracked[q]]
  BY <1>1 DEF Media!Processed
<1>. HIDE DEF some
<1>7. tracked'[p] = IF p \in DOMAIN pick THEN Media!Updated(p, pick[p]) ELSE tracked[p]
  BY <1>6 DEF MediaInv
<1>8. p \in DOMAIN pick <=> here # {}
  BY <1>6
<1>9. CASE of = {} /\ tracked[p] = Media!NoPlayer
  <2>1. here = {}
    BY <1>2, <1>3, <1>5, <1>9
  <2>. QED BY <1>7, <1>8, <1>9, <2>1
<1>10. CASE of # {} /\ ~Media!Idle(p)
  <2>1. here = of
    BY <1>2, <1>3, <1>4, <1>10 DEF Media!Idle
  <2>2. /\ p \in DOMAIN pick
        /\ pick[p] \in IF kind = "jellyfin" THEN Media!JellyfinPicks(of)
                       ELSE Media!PlexPicks(of)
    BY <1>6, <1>8, <1>10, <2>1
  <2>3. /\ pick[p] \in of /\ pick[p].item # Media!NoItem
        /\ kind = "plex" => \A t \in of : t.key <= pick[p].key
    BY <1>4, <2>2 DEF Media!JellyfinPicks, Media!PlexPicks, MediaInv
  <2>4. tracked'[p].item = pick[p].item
    BY <1>7, <2>2, <2>3 DEF Media!Updated
  <2>5. tracked'[p] # Media!NoPlayer
    BY <2>3, <2>4 DEF Media!NoPlayer
  <2>. QED BY <1>10, <2>3, <2>4, <2>5
<1>. QED BY <1>9, <1>10

\* A poll gives a player the item of a session that the configuration admits, and gives
\* nothing else to any (JellyfinApiSource.ts:294, PlexApiSource.ts:217): for any libraries,
\* players, configurations, sessions and changes of them.
THEOREM TracksWhatIsAdmittedAlways ==
  ASSUME MediaSetting
  PROVE  Media!Spec => TracksWhatIsAdmitted
<1>1. Media!Spec => []MediaInv
  BY InitMedia, MediaInvKept, PTL DEF Media!Spec
<1>2. MediaInv => Media!TracksAdmitted
  BY PollTracksAdmitted
<1>. QED BY <1>1, <1>2, PTL DEF TracksWhatIsAdmitted

-----------------------------------------------------------------------------
(* Ingress routes and their sources.                                          *)

CONSTANTS
    SongsKnown, UsersKnown,     \* what may be listened to, and by whom
    RoutesSet,                  \* of each route, the configurations of its sources
    PlayTime,                   \* how long a play takes
    LastTime, ListensHad, DeliveriesHad     \* bounds of the model, of any value

Webhooks == INSTANCE Ingress WITH
    listens <- heard, sources <- ingresses, tracked <- followed,
    Tracks <- SongsKnown, Users <- UsersKnown, SourceSets <- RoutesSet, Duration <- PlayTime,
    MaxTime <- LastTime, MaxListens <- ListensHad, MaxDeliveries <- DeliveriesHad

\* The sources that a route looks at.
Ways == DOMAIN ingresses

----------------------------------------------------------------------------
(* The invariant: types, and that nothing is dated in the future.             *)

Listening ==
    [track : SongsKnown, user : UsersKnown, start : Nat, end : Int, offline : BOOLEAN]
Entries == [listen : DOMAIN heard, date : Int]

WebhooksTyped ==
    /\ route \in Webhooks!Routes /\ zone \in Int /\ now \in Nat
    /\ heard \in Seq(Listening)
    /\ \A n \in mail : n.listen \in DOMAIN heard /\ n.date \in Int
    /\ followed \in [Ways -> DOMAIN heard \cup {0}]
    /\ discovered \in [Ways -> Seq(Entries)]

\* Who listens begins in the past, and WebScrobbler says when that was; what the
\* sources announced is dated from one or from the clock, that does not go back.
NothingAhead ==
    /\ \A l \in DOMAIN heard : heard[l].start <= now
    /\ route = "webscrobbler" => \A n \in mail : n.date = heard[n.listen].start
    /\ Webhooks!NeverAhead

IngressInv == WebhooksTyped /\ NothingAhead

----------------------------------------------------------------------------
(* Where dates come from.  That Known tells a listen announced twice needs    *)
(* more than that dates are past: both announcements must date it alike.      *)

\* The dates of a listen are what the client says, corrected: WebScrobbler's always,
\* Jellyfin's if the offset is none or is positive and shows as time to come, for as
\* long as no play ended so long ago that adding the offset to it stays in the past.
Exact ==
    \/ route = "webscrobbler"
    \/ route = "jellyfin" /\ (zone = 0 \/ (zone > 0 /\ now < Webhooks!Hour))

\* An announced date: the start of a listen heard online, or what the one notification
\* of an offline listen says.
Fits(l, date) ==
    IF route = "webscrobbler" \/ ~heard[l].offline THEN date = heard[l].start
    ELSE heard[l].end # -1 /\ \A n \in mail : n.listen = l => n.date = date

\* Where the date of an announcement of l comes from.
Told(l, date) ==
    IF route = "webscrobbler" \/ ~heard[l].offline THEN date = heard[l].start
    ELSE \E n \in mail : n.listen = l /\ n.date = date

\* No source has two announcements of a listen: as ListenOnce, and also for Jellyfin's
\* positive offsets when the dates are not exact.
Once ==
    \A i \in Ways : \A j, k \in DOMAIN discovered[i] :
        discovered[i][j].listen = discovered[i][k].listen =>
            \/ j = k
            \/ /\ route \in {"plex", "tautulli"}
               /\ ~Webhooks!Close(discovered[i][j].date, discovered[i][k].date)
            \/ route = "jellyfin" /\ ~Exact

\* With it: a listen has one notification, sent when it ended, and players follow what is
\* heard online.
OnceInv ==
    /\ LastTime \in Nat => now <= LastTime
    /\ \A l \in DOMAIN heard : heard[l].end <= now
    /\ zone \in {-5 * Webhooks!Hour, 0, Webhooks!Hour, 2 * Webhooks!Hour}
    /\ \A n \in mail : /\ n.date \in {heard[n.listen].start, heard[n.listen].end}
                       /\ n.date >= 0 /\ heard[n.listen].end # -1
                       /\ \A m \in mail : m.listen = n.listen => m = n
    /\ \A i \in Ways : followed[i] # 0 => ~heard[followed[i]].offline
    /\ Exact => \A i \in Ways : \A k \in DOMAIN discovered[i] :
                  Fits(discovered[i][k].listen, discovered[i][k].date)
    /\ Once

----------------------------------------------------------------------------
(* Steps that announce, and steps of the world outside of the program.        *)

\* A source announces one play more, that it did not know.
OneMore(i, l, date) ==
    /\ ~Webhooks!Known(i, l, date)
    /\ discovered'[i] = Append(discovered[i], [listen |-> l, date |-> date])

\* Nothing but the delivery of notifications.
WorldStays == UNCHANGED <<route, ingresses, zone, now, heard>> /\ mail' \subseteq mail

\* What discover does to each source: nothing, or one play more.
LEMMA AnnouncedIsOneMore ==
  ASSUME WebhooksTyped, NEW at, NEW l, NEW date,
         discovered' = Webhooks!Announced(at, l, date)
  PROVE  /\ discovered' = [i \in Ways |-> discovered'[i]]
         /\ \A i \in Ways : discovered'[i] = discovered[i] \/ (i \in at /\ OneMore(i, l, date))
<1>1. DOMAIN discovered = Ways
  BY DEF WebhooksTyped
<1>2. discovered' = [i \in Ways |->
          IF i \in at /\ ~Webhooks!Known(i, l, date)
          THEN Append(discovered[i], [listen |-> l, date |-> date])
          ELSE discovered[i]]
  BY <1>1 DEF Webhooks!Announced
<1>. QED BY <1>2 DEF OneMore

\* A sequence and the same with an element more.
LEMMA LongerByOne ==
  ASSUME NEW E, NEW s \in Seq(E), NEW e \in E, NEW t, t = Append(s, e)
  PROVE  /\ t \in Seq(E) /\ DOMAIN t = DOMAIN s \cup {Len(s) + 1}
         /\ \A k \in DOMAIN s : t[k] = s[k]
         /\ t[Len(s) + 1] = e
         /\ Len(s) + 1 \notin DOMAIN s
  OBVIOUS

\* Announcements of listens not dated ahead leave nothing ahead.
LEMMA AnnouncementKeepsIngress ==
  ASSUME IngressInv, WorldStays, followed' \in [Ways -> DOMAIN heard \cup {0}],
         discovered' = [i \in Ways |-> discovered'[i]],
         \A i \in Ways : \/ discovered'[i] = discovered[i]
                         \/ \E l \in DOMAIN heard, date \in Int : date <= now /\ OneMore(i, l, date)
  PROVE  IngressInv'
<1>1. Ways' = Ways /\ heard' = heard /\ now' = now /\ route' = route /\ zone' = zone
  BY DEF WorldStays, Ways
<1>2. \A i \in Ways : /\ discovered'[i] \in Seq(Entries)
                      /\ \A k \in DOMAIN discovered'[i] : discovered'[i][k].date <= now
  <2>. SUFFICES ASSUME NEW i \in Ways
                PROVE  /\ discovered'[i] \in Seq(Entries)
                       /\ \A k \in DOMAIN discovered'[i] : discovered'[i][k].date <= now
    OBVIOUS
  <2>1. /\ discovered[i] \in Seq(Entries)
        /\ \A k \in DOMAIN discovered[i] : discovered[i][k].date <= now
    BY DEF IngressInv, WebhooksTyped, NothingAhead, Webhooks!NeverAhead, Ways
  <2>2. CASE discovered'[i] = discovered[i]
    BY <2>1, <2>2
  <2>3. ASSUME NEW l \in DOMAIN heard, NEW date \in Int, date <= now, OneMore(i, l, date)
        PROVE  /\ discovered'[i] \in Seq(Entries)
               /\ \A k \in DOMAIN discovered'[i] : discovered'[i][k].date <= now
    <3>1. [listen |-> l, date |-> date] \in Entries
      BY DEF Entries
    <3>. QED BY <2>1, <2>3, <3>1, LongerByOne DEF OneMore
  <2>. QED BY <2>2, <2>3
<1>3. WebhooksTyped'
  BY <1>1, <1>2 DEF IngressInv, WebhooksTyped, WorldStays, Entries
<1>4. NothingAhead'
  BY <1>1, <1>2 DEF IngressInv, NothingAhead, WorldStays, Webhooks!NeverAhead, Ways
<1>. QED BY <1>3, <1>4 DEF IngressInv

\* Announcements dated as the others are leave none twice: the second is Known.
LEMMA AnnouncementKeepsOnce ==
  ASSUME IngressInv, OnceInv, WorldStays,
         followed' \in [Ways -> DOMAIN heard \cup {0}],
         \A i \in Ways : followed'[i] # 0 => ~heard[followed'[i]].offline,
         discovered' = [i \in Ways |-> discovered'[i]],
         \A i \in Ways : \/ discovered'[i] = discovered[i]
                         \/ \E l \in DOMAIN heard, date \in Int :
                              (Exact => Told(l, date)) /\ OneMore(i, l, date)
  PROVE  OnceInv'
<1>1. /\ Ways' = Ways /\ heard' = heard /\ now' = now /\ route' = route /\ zone' = zone
      /\ ingresses' = ingresses /\ mail' \subseteq mail
  BY DEF WorldStays, Ways
<1>. DEFINE Single(s) ==
              \A j, k \in DOMAIN s : s[j].listen = s[k].listen =>
                  \/ j = k
                  \/ route \in {"plex", "tautulli"} /\ ~Webhooks!Close(s[j].date, s[k].date)
                  \/ route = "jellyfin" /\ ~Exact
            Suit(s) == Exact => \A k \in DOMAIN s : Fits(s[k].listen, s[k].date)
<1>3. \A i \in Ways : Single(discovered'[i]) /\ Suit(discovered'[i])
  <2>. SUFFICES ASSUME NEW i \in Ways PROVE Single(discovered'[i]) /\ Suit(discovered'[i])
    OBVIOUS
  <2>1. /\ discovered[i] \in Seq(Entries) /\ Suit(discovered[i])
        /\ \A k \in DOMAIN discovered[i] :
               discovered[i][k].listen \in DOMAIN heard /\ discovered[i][k].date \in Int
    <3>1. discovered[i] \in Seq(Entries)
      BY DEF IngressInv, WebhooksTyped
    <3>2. Suit(discovered[i])
      BY DEF OnceInv
    <3>3. \A k \in DOMAIN discovered[i] : discovered[i][k] \in Entries
      BY <3>1
    <3>4. \A e \in Entries : e.listen \in DOMAIN heard /\ e.date \in Int
      BY DEF Entries
    <3>. HIDE DEF Suit
    <3>. QED BY <3>1, <3>2, <3>3, <3>4
  <2>2. Single(discovered[i])
    BY DEF OnceInv, Once
  <2>3. CASE discovered'[i] = discovered[i]
    BY <2>1, <2>2, <2>3
  <2>4. ASSUME NEW l \in DOMAIN heard, NEW date \in Int, Exact => Told(l, date), OneMore(i, l, date)
        PROVE  Single(discovered'[i]) /\ Suit(discovered'[i])
    <3>. DEFINE s == discovered[i]
                t == discovered'[i]
                e == [listen |-> l, date |-> date]
    <3>1. e \in Entries
      BY DEF Entries
    <3>2. /\ DOMAIN t = DOMAIN s \cup {Len(s) + 1}
          /\ \A k \in DOMAIN s : t[k] = s[k]
          /\ t[Len(s) + 1] = e
      BY <2>1, <2>4, <3>1, LongerByOne DEF OneMore
    <3>3. e.listen = l /\ e.date = date
      OBVIOUS
    <3>4. \A k \in DOMAIN s : s[k].listen = l =>
             ~Webhooks!Close(s[k].date, date) /\ ~Webhooks!Close(date, s[k].date)
      <4>. SUFFICES ASSUME NEW k \in DOMAIN s, s[k].listen = l
                    PROVE  ~Webhooks!Close(s[k].date, date) /\ ~Webhooks!Close(date, s[k].date)
        OBVIOUS
      <4>1. ~Webhooks!Close(s[k].date, date)
        BY <2>4 DEF OneMore, Webhooks!Known, Webhooks!SameListener
      <4>2. s[k].date \in Int
        BY <2>1
      <4>3. Webhooks!Distance(s[k].date, date) = Webhooks!Distance(date, s[k].date)
        BY <2>4, <4>2 DEF Webhooks!Distance
      <4>. QED BY <4>1, <4>3 DEF Webhooks!Close
    <3>5. Exact => \A k \in DOMAIN s : s[k].listen # l
      <4>. SUFFICES ASSUME Exact, NEW k \in DOMAIN s, s[k].listen = l PROVE FALSE
        OBVIOUS
      <4>1. Told(l, date) /\ Fits(l, s[k].date)
        BY <2>1, <2>4
      <4>2. s[k].date # date
        BY <3>4 DEF Webhooks!Close, Webhooks!Distance, Webhooks!Tolerance
      <4>. QED BY <4>1, <4>2 DEF Fits, Told
    <3>6. Exact => Fits(l, date)
      BY <2>4 DEF OnceInv, Told, Fits
    <3>7. Suit(t)
      BY <2>1, <3>2, <3>3, <3>6
    <3>8. Exact \/ route \in {"plex", "tautulli"} \/ (route = "jellyfin" /\ ~Exact)
      BY DEF IngressInv, WebhooksTyped, Webhooks!Routes, Exact
    <3>9. ASSUME NEW j \in DOMAIN t, NEW k \in DOMAIN t, t[j].listen = t[k].listen, j # k
          PROVE  \/ route \in {"plex", "tautulli"} /\ ~Webhooks!Close(t[j].date, t[k].date)
                 \/ route = "jellyfin" /\ ~Exact
      <4>1. CASE j \in DOMAIN s /\ k \in DOMAIN s
        BY <2>2, <3>2, <3>9, <4>1
      <4>2. CASE j \in DOMAIN s /\ k = Len(s) + 1
        BY <3>2, <3>3, <3>4, <3>5, <3>8, <3>9, <4>2
      <4>3. CASE j = Len(s) + 1 /\ k \in DOMAIN s
        BY <3>2, <3>3, <3>4, <3>5, <3>8, <3>9, <4>3
      <4>. QED BY <3>2, <3>9, <4>1, <4>2, <4>3
    <3>. QED BY <3>7, <3>9
  <2>. QED BY <2>3, <2>4
<1>4. Exact' = Exact
  BY <1>1 DEF Exact
<1>5. Once'
  BY <1>1, <1>3, <1>4 DEF Once
<1>6. (Exact => \A i \in Ways : \A k \in DOMAIN discovered[i] :
                 Fits(discovered[i][k].listen, discovered[i][k].date))'
  <2>. SUFFICES ASSUME Exact, NEW i \in Ways, NEW k \in DOMAIN discovered'[i]
                PROVE  Fits(discovered[i][k].listen, discovered[i][k].date)'
    BY <1>1, <1>4
  <2>1. Fits(discovered'[i][k].listen, discovered'[i][k].date)
    BY <1>3
  <2>. QED BY <1>1, <2>1 DEF Fits
<1>7. /\ (LastTime \in Nat => now <= LastTime)'
      /\ (\A l \in DOMAIN heard : heard[l].end <= now)'
      /\ (zone \in {-5 * Webhooks!Hour, 0, Webhooks!Hour, 2 * Webhooks!Hour})'
      /\ (\A n \in mail : /\ n.date \in {heard[n.listen].start, heard[n.listen].end}
                          /\ n.date >= 0 /\ heard[n.listen].end # -1
                          /\ \A m \in mail : m.listen = n.listen => m = n)'
      /\ (\A i \in Ways : followed[i] # 0 => ~heard[followed[i]].offline)'
  BY <1>1 DEF OnceInv
<1>. QED BY <1>5, <1>6, <1>7 DEF OnceInv

\* Listens begin and end, notifications are sent and delivered, time passes.
WorldGoesOn ==
    /\ UNCHANGED <<route, ingresses, zone, followed, discovered>>
    /\ now' \in Nat /\ now <= now'
    /\ heard' \in Seq(Listening) /\ DOMAIN heard \subseteq DOMAIN heard'
    /\ \A l \in DOMAIN heard' : heard'[l].start <= now'
    /\ \A l \in DOMAIN heard : heard'[l].start = heard[l].start
    /\ \A n \in mail' : n.listen \in DOMAIN heard' /\ n.date \in Int
    /\ route = "webscrobbler" => \A n \in mail' : n.date = heard'[n.listen].start

\* None of it puts an announcement ahead.
LEMMA WorldKeepsIngress ==
  ASSUME IngressInv, WorldGoesOn
  PROVE  IngressInv'
<1>1. /\ UNCHANGED <<route, ingresses, zone, followed, discovered>> /\ Ways' = Ways
      /\ route \in Webhooks!Routes /\ zone \in Int
  BY DEF WorldGoesOn, Ways, IngressInv, WebhooksTyped
<1>2. Entries \subseteq Entries'
  BY DEF Entries, WorldGoesOn
<1>3. discovered' \in [Ways' -> Seq(Entries')]
  BY <1>1, <1>2 DEF IngressInv, WebhooksTyped
<1>4. followed' \in [Ways' -> DOMAIN heard' \cup {0}]
  BY <1>1 DEF IngressInv, WebhooksTyped, WorldGoesOn
<1>5. WebhooksTyped'
  <2>1. /\ now' \in Nat /\ heard' \in Seq(Listening)
        /\ \A n \in mail' : n.listen \in DOMAIN heard' /\ n.date \in Int
    BY DEF WorldGoesOn
  <2>. HIDE DEF Listening
  <2>. QED BY <1>1, <1>3, <1>4, <2>1 DEF WebhooksTyped
<1>6. Webhooks!NeverAhead'
  <2>. SUFFICES ASSUME NEW i \in Ways, NEW k \in DOMAIN discovered[i]
                PROVE  discovered[i][k].date <= now'
    BY <1>1 DEF Webhooks!NeverAhead, Ways
  <2>1. discovered[i][k].date <= now
    BY DEF IngressInv, NothingAhead, Webhooks!NeverAhead, Ways
  <2>2. discovered[i] \in Seq(Entries)
    BY DEF IngressInv, WebhooksTyped
  <2>3. discovered[i][k] \in Entries
    BY <2>2
  <2>4. discovered[i][k].date \in Int
    BY <2>3 DEF Entries
  <2>. QED BY <2>1, <2>4 DEF WorldGoesOn, IngressInv, WebhooksTyped
<1>7. NothingAhead'
  <2>1. /\ \A l \in DOMAIN heard' : heard'[l].start <= now'
        /\ route' = "webscrobbler" => \A n \in mail' : n.date = heard'[n.listen].start
    BY <1>1 DEF WorldGoesOn
  <2>. QED BY <1>6, <2>1 DEF NothingAhead
<1>. QED BY <1>5, <1>7 DEF IngressInv

\* A listen begins.
LEMMA BeginGoesOn ==
  ASSUME IngressInv, Webhooks!Begin
  PROVE  WorldGoesOn /\ UNCHANGED <<now, mail>>
         /\ DOMAIN heard' = DOMAIN heard \cup {Len(heard) + 1} /\ Len(heard) + 1 \notin DOMAIN heard
         /\ heard'[Len(heard) + 1].end = -1 /\ \A l \in DOMAIN heard : heard'[l] = heard[l]
<1>1. PICK t \in SongsKnown, u \in UsersKnown, off \in BOOLEAN :
        heard' = Append(heard,
                        [track |-> t, user |-> u, start |-> now, end |-> -1, offline |-> off])
  BY DEF Webhooks!Begin
<1>. DEFINE e == [track |-> t, user |-> u, start |-> now, end |-> -1, offline |-> off]
<1>2. e \in Listening /\ e.start = now /\ e.end = -1 /\ heard \in Seq(Listening)
  BY DEF Listening, IngressInv, WebhooksTyped
<1>3. heard' = Append(heard, e)
  BY <1>1
<1>. HIDE DEF e
<1>4. /\ heard' \in Seq(Listening) /\ DOMAIN heard' = DOMAIN heard \cup {Len(heard) + 1}
      /\ \A k \in DOMAIN heard : heard'[k] = heard[k]
      /\ heard'[Len(heard) + 1] = e
      /\ Len(heard) + 1 \notin DOMAIN heard
  BY <1>2, <1>3, LongerByOne
<1>5. UNCHANGED <<route, ingresses, zone, followed, discovered, now, mail>>
  BY DEF Webhooks!Begin
<1>. QED BY <1>2, <1>4, <1>5 DEF WorldGoesOn, IngressInv, WebhooksTyped, NothingAhead

\* A listen ends, and its only notification is sent.
LEMMA FinishGoesOn ==
  ASSUME IngressInv, NEW l \in DOMAIN heard, Webhooks!Finish(l)
  PROVE  /\ WorldGoesOn /\ UNCHANGED now
         /\ heard' = [heard EXCEPT ![l].end = now]
         /\ DOMAIN heard' = DOMAIN heard
         /\ heard[l].end = -1
         /\ heard'[l].end = now /\ heard'[l].offline = heard[l].offline
         /\ heard'[l].start = heard[l].start
         /\ \A k \in DOMAIN heard : k # l => heard'[k] = heard[k]
         /\ \E n : /\ mail' = mail \cup {n} /\ n.listen = l
                   /\ n.date \in {heard[l].start, now}
                   /\ route = "webscrobbler" => n.date = heard[l].start
<1>1. heard \in Seq(Listening) /\ now \in Nat
  BY DEF IngressInv, WebhooksTyped
<1>2. heard[l] \in Listening
  BY <1>1
<1>3. heard' = [heard EXCEPT ![l].end = now]
  BY DEF Webhooks!Finish
<1>4. /\ DOMAIN heard' = DOMAIN heard /\ heard'[l] = [heard[l] EXCEPT !.end = now]
      /\ \A k \in DOMAIN heard : k # l => heard'[k] = heard[k]
  BY <1>1, <1>3
<1>5. /\ heard'[l] \in Listening /\ heard'[l].end = now /\ heard'[l].offline = heard[l].offline
      /\ heard'[l].start = heard[l].start
  <2>1. PICK h \in Listening : h = heard[l]
    BY <1>2
  <2>2. /\ [h EXCEPT !.end = now] \in Listening /\ [h EXCEPT !.end = now].end = now
        /\ [h EXCEPT !.end = now].offline = h.offline
        /\ [h EXCEPT !.end = now].start = h.start
    <3>1. now \in Int
      BY <1>1
    <3>. QED BY ONLY <3>1, h \in Listening DEF Listening
  <2>. QED BY <1>4, <2>1, <2>2
<1>6. heard' \in Seq(Listening)
  <2>1. PICK m \in Nat : heard \in [1..m -> Listening]
    BY <1>1
  <2>2. heard' \in [1..m -> Listening]
    BY <1>2, <1>3, <1>4, <1>5, <2>1
  <2>. QED BY <2>2
<1>7. heard[l].end = -1
  BY DEF Webhooks!Finish, Webhooks!Live
<1>8. PICK n \in Webhooks!Notifications(l) : mail' = mail \cup {n}
  BY DEF Webhooks!Finish
<1>9. /\ n.listen = l /\ n.date \in {heard[l].start, now}
      /\ route = "webscrobbler" => n.date = heard[l].start
  BY <1>8 DEF Webhooks!Notifications
<1>10. UNCHANGED <<route, ingresses, zone, followed, discovered, now>>
  BY DEF Webhooks!Finish
<1>11. \A k \in DOMAIN heard : heard'[k].start = heard[k].start /\ heard[k].start \in Nat
  <2>1. \A k \in DOMAIN heard : heard[k] \in Listening
    BY <1>1
  <2>2. \A k \in DOMAIN heard : heard[k].start \in Nat
    BY <2>1 DEF Listening
  <2>. QED BY <1>4, <1>5, <2>2
<1>12. WorldGoesOn
  <2>1. /\ \A k \in DOMAIN heard : heard[k].start <= now
        /\ \A m \in mail : m.listen \in DOMAIN heard /\ m.date \in Int
        /\ route = "webscrobbler" => \A m \in mail : m.date = heard[m.listen].start
    BY DEF IngressInv, WebhooksTyped, NothingAhead
  <2>2. /\ \A m \in mail' : m.listen \in DOMAIN heard' /\ m.date \in Int
        /\ route = "webscrobbler" => \A m \in mail' : m.date = heard'[m.listen].start
    BY <1>1, <1>4, <1>8, <1>9, <1>11, <2>1
  <2>3. \A k \in DOMAIN heard' : heard'[k].start <= now'
    BY <1>4, <1>10, <1>11, <2>1
  <2>. QED BY <1>1, <1>4, <1>6, <1>10, <1>11, <2>2, <2>3 DEF WorldGoesOn
<1>. QED BY <1>3, <1>4, <1>5, <1>7, <1>8, <1>9, <1>10, <1>12

\* Plex and Tautulli announce with the time of arrival, WebScrobbler with the date sent.
LEMMA ReceiveAnnounces ==
  ASSUME IngressInv, NEW n \in mail, Webhooks!Receive(n)
  PROVE  /\ WorldStays /\ UNCHANGED followed
         /\ discovered' = [i \in Ways |-> discovered'[i]]
         /\ \E date \in Int :
              /\ date <= now /\ (Exact => date = heard[n.listen].start)
              /\ \A i \in Ways : discovered'[i] = discovered[i] \/ OneMore(i, n.listen, date)
<1>1. WorldStays /\ UNCHANGED followed /\ route # "jellyfin"
  BY DEF Webhooks!Receive, Webhooks!Deliver, WorldStays
<1>2. discovered' = Webhooks!Announced(Webhooks!Served(n), n.listen, Webhooks!PlayDate(n))
  BY DEF Webhooks!Receive
<1>3. /\ discovered' = [i \in Ways |-> discovered'[i]]
      /\ \A i \in Ways :
             discovered'[i] = discovered[i] \/ OneMore(i, n.listen, Webhooks!PlayDate(n))
  BY <1>2, AnnouncedIsOneMore DEF IngressInv
<1>4. n.listen \in DOMAIN heard /\ n.date \in Int /\ now \in Nat
      /\ heard[n.listen].start <= now /\ route \in Webhooks!Routes
  BY DEF IngressInv, WebhooksTyped, NothingAhead
<1>5. CASE route = "webscrobbler"
  <2>1. Webhooks!PlayDate(n) = n.date /\ n.date = heard[n.listen].start
    BY <1>5 DEF Webhooks!PlayDate, Webhooks!WebScrobblerDate, IngressInv, NothingAhead
  <2>. QED BY <1>1, <1>3, <1>4, <2>1
<1>6. CASE route \in {"plex", "tautulli"}
  <2>1. Webhooks!PlayDate(n) = now /\ ~Exact
    BY <1>6 DEF Webhooks!PlayDate, Webhooks!PlexDate, Webhooks!TautulliDate, Exact
  <2>. QED BY <1>1, <1>3, <1>4, <2>1
<1>. QED BY <1>1, <1>4, <1>5, <1>6 DEF Webhooks!Routes

\* Jellyfin's end of a play is announced when its corrected date is past: by the guard of
\* Offline with the sign, the other takes a date ahead for one that is past.
LEMMA ReceiveEndAnnounces ==
  ASSUME PlayTime \in Nat, IngressInv, NEW n \in mail, Webhooks!ReceiveEnd(n)
  PROVE  /\ WorldStays /\ UNCHANGED followed /\ route = "jellyfin"
         /\ discovered' = [i \in Ways |-> discovered'[i]]
         /\ ~heard[n.listen].offline => now - heard[n.listen].end <= 1
         /\ \E date \in Int :
              /\ date = Webhooks!Corrected(n.date)
              /\ \A i \in Ways : \/ discovered'[i] = discovered[i]
                                 \/ /\ OneMore(i, n.listen, date)
                                    /\ date < now /\ Webhooks!Distance(now, date) >= 3
<1>1. WorldStays /\ UNCHANGED followed /\ route = "jellyfin"
      /\ (~heard[n.listen].offline => now - heard[n.listen].end <= 1)
  BY DEF Webhooks!ReceiveEnd, Webhooks!Deliver, Webhooks!Tolerance, WorldStays
<1>. DEFINE date == Webhooks!Corrected(n.date)
            at == {i \in Webhooks!Served(n) : Webhooks!Offline(i, n.listen, date)}
<1>2. discovered' = Webhooks!Announced(at, n.listen, date)
  BY DEF Webhooks!ReceiveEnd, Webhooks!JellyfinDate
<1>3. date \in Int /\ now \in Nat
  BY DEF IngressInv, WebhooksTyped, Webhooks!Corrected
<1>4. \A i \in at : date < now /\ Webhooks!Distance(now, date) >= 3
  BY <1>3 DEF Webhooks!Offline
<1>. HIDE DEF date, at
<1>5. /\ discovered' = [i \in Ways |-> discovered'[i]]
      /\ \A i \in Ways : discovered'[i] = discovered[i] \/ (i \in at /\ OneMore(i, n.listen, date))
  BY <1>2, AnnouncedIsOneMore DEF IngressInv
<1>. QED BY <1>1, <1>3, <1>4, <1>5 DEF date

\* A Jellyfin source announces what its player had, in either of two ways.
LEMMA HeardAnnounces ==
  ASSUME IngressInv, NEW i \in Ways, followed[i] # 0,
         NEW d, d = Webhooks!Announced({i}, followed[i], heard[followed[i]].start)
  PROVE  /\ d = [j \in Ways |-> d[j]] /\ \A j \in Ways : j # i => d[j] = discovered[j]
         /\ followed[i] \in DOMAIN heard /\ heard[followed[i]].start \in Int
         /\ heard[followed[i]].start <= now
         /\ \/ d[i] = discovered[i]
            \/ /\ ~Webhooks!Known(i, followed[i], heard[followed[i]].start)
               /\ d[i] = Append(discovered[i],
                                [listen |-> followed[i], date |-> heard[followed[i]].start])
<1>1. DOMAIN discovered = Ways /\ followed[i] \in DOMAIN heard /\ heard \in Seq(Listening)
  BY DEF IngressInv, WebhooksTyped
<1>2. heard[followed[i]] \in Listening
  BY <1>1
<1>3. heard[followed[i]].start \in Int
  BY <1>2 DEF Listening
<1>4. heard[followed[i]].start <= now
  BY <1>1 DEF IngressInv, NothingAhead
<1>5. d = [j \in Ways |-> IF j \in {i} /\ ~Webhooks!Known(j, followed[i], heard[followed[i]].start)
             THEN Append(discovered[j], [listen |-> followed[i], date |-> heard[followed[i]].start])
             ELSE discovered[j]]
  BY <1>1 DEF Webhooks!Announced
<1>. QED BY <1>1, <1>3, <1>4, <1>5

\* When the player has another play.
LEMMA ProgressAnnounces ==
  ASSUME IngressInv, NEW l \in DOMAIN heard, Webhooks!ReceiveProgress(l)
  PROVE  /\ WorldStays /\ followed' \in [Ways -> DOMAIN heard \cup {0}]
         /\ \A i \in Ways : followed'[i] = followed[i] \/ (followed'[i] = l /\ ~heard[l].offline)
         /\ discovered' = [i \in Ways |-> discovered'[i]]
         /\ \A i \in Ways :
              \/ discovered'[i] = discovered[i]
              \/ /\ followed[i] # 0 /\ OneMore(i, followed[i], heard[followed[i]].start)
                 /\ followed[i] \in DOMAIN heard /\ heard[followed[i]].start \in Int
                 /\ heard[followed[i]].start <= now
<1>1. WorldStays /\ ~heard[l].offline
  BY DEF Webhooks!ReceiveProgress, WorldStays
<1>2. PICK at : followed' = [i \in DOMAIN followed |-> IF i \in at THEN l ELSE followed[i]]
  BY DEF Webhooks!ReceiveProgress
<1>3. followed \in [Ways -> DOMAIN heard \cup {0}] /\ discovered = [i \in Ways |-> discovered[i]]
  BY DEF IngressInv, WebhooksTyped
<1>4. PICK S : /\ \A i \in S : followed[i] # 0
               /\ discovered' = [i \in DOMAIN discovered |->
                      IF i \in S
                      THEN Webhooks!Announced({i}, followed[i], heard[followed[i]].start)[i]
                      ELSE discovered[i]]
  BY DEF Webhooks!ReceiveProgress
<1>5. discovered' = [i \in Ways |-> discovered'[i]]
  BY <1>3, <1>4
<1>6. ASSUME NEW i \in Ways, discovered'[i] # discovered[i]
      PROVE  /\ followed[i] # 0 /\ OneMore(i, followed[i], heard[followed[i]].start)
             /\ followed[i] \in DOMAIN heard /\ heard[followed[i]].start \in Int
             /\ heard[followed[i]].start <= now
  <2>1. /\ i \in S
        /\ discovered'[i] = Webhooks!Announced({i}, followed[i], heard[followed[i]].start)[i]
    BY <1>3, <1>4, <1>6
  <2>2. followed[i] # 0
    BY <1>4, <2>1
  <2>. DEFINE d == Webhooks!Announced({i}, followed[i], heard[followed[i]].start)
  <2>. HIDE DEF d
  <2>3. /\ followed[i] \in DOMAIN heard /\ heard[followed[i]].start \in Int
        /\ heard[followed[i]].start <= now
        /\ \/ d[i] = discovered[i]
           \/ /\ ~Webhooks!Known(i, followed[i], heard[followed[i]].start)
              /\ d[i] = Append(discovered[i],
                               [listen |-> followed[i], date |-> heard[followed[i]].start])
    BY <2>2, HeardAnnounces DEF d
  <2>4. discovered'[i] = d[i]
    BY <2>1 DEF d
  <2>. QED BY <1>6, <2>2, <2>3, <2>4 DEF OneMore
<1>. QED BY <1>1, <1>2, <1>3, <1>5, <1>6

\* When the player's session is over or its play was heard for long enough.
LEMMA OverAnnounces ==
  ASSUME IngressInv, NEW i \in Ways, Webhooks!Heard(i)
  PROVE  /\ WorldStays /\ followed' \in [Ways -> DOMAIN heard \cup {0}]
         /\ \A j \in Ways : followed'[j] \in {followed[j], 0}
         /\ discovered' = [j \in Ways |-> discovered'[j]]
         /\ \A j \in Ways :
              \/ discovered'[j] = discovered[j]
              \/ /\ followed[j] # 0 /\ OneMore(j, followed[j], heard[followed[j]].start)
                 /\ followed[j] \in DOMAIN heard /\ heard[followed[j]].start \in Int
                 /\ heard[followed[j]].start <= now
<1>1. WorldStays /\ followed[i] # 0
  BY DEF Webhooks!Heard, WorldStays
<1>2. followed \in [Ways -> DOMAIN heard \cup {0}]
  BY DEF IngressInv, WebhooksTyped
<1>3. followed' = followed \/ followed' = [followed EXCEPT ![i] = 0]
  BY DEF Webhooks!Heard
<1>4. discovered' = Webhooks!Announced({i}, followed[i], heard[followed[i]].start)
  BY DEF Webhooks!Heard
<1>5. /\ discovered' = [j \in Ways |-> discovered'[j]]
      /\ \A j \in Ways : j # i => discovered'[j] = discovered[j]
      /\ followed[i] \in DOMAIN heard /\ heard[followed[i]].start \in Int
      /\ heard[followed[i]].start <= now
      /\ \/ discovered'[i] = discovered[i]
         \/ OneMore(i, followed[i], heard[followed[i]].start)
  BY <1>1, <1>4, HeardAnnounces DEF OneMore
<1>. QED BY <1>1, <1>2, <1>3, <1>5

----------------------------------------------------------------------------
(* Nothing is dated ahead.                                                    *)

\* Before anything is heard.
LEMMA InitIngress == Webhooks!Init => IngressInv
<1>. SUFFICES ASSUME Webhooks!Init PROVE IngressInv
  OBVIOUS
<1>1. /\ route \in Webhooks!Routes /\ zone \in Int /\ now = 0 /\ heard = <<>> /\ mail = {}
      /\ followed = [i \in Ways |-> 0] /\ discovered = [i \in Ways |-> <<>>]
  BY DEF Webhooks!Init, Ways, Webhooks!Hour
<1>2. DOMAIN heard = {} /\ heard \in Seq(Listening)
  BY <1>1
<1>3. followed \in [Ways -> DOMAIN heard \cup {0}]
  BY <1>1
<1>4. discovered \in [Ways -> Seq(Entries)]
  BY <1>1
<1>5. Webhooks!NeverAhead
  BY <1>1 DEF Webhooks!NeverAhead, Ways
<1>. QED BY <1>1, <1>2, <1>3, <1>4, <1>5 DEF IngressInv, WebhooksTyped, NothingAhead

\* Time passes.
LEMMA TickGoesOn ==
  ASSUME IngressInv, Webhooks!Tick
  PROVE  WorldGoesOn /\ UNCHANGED <<heard, mail>> /\ now < LastTime /\ now' = now + 1
<1>1. /\ now' = now + 1 /\ now < LastTime /\ now \in Nat
      /\ UNCHANGED <<route, ingresses, zone, heard, mail, followed, discovered>>
  BY DEF Webhooks!Tick, IngressInv, WebhooksTyped
<1>2. \A l \in DOMAIN heard : heard[l].start \in Nat
  <2>1. \A l \in DOMAIN heard : heard[l] \in Listening
    BY DEF IngressInv, WebhooksTyped
  <2>. QED BY <2>1 DEF Listening
<1>. QED BY <1>1, <1>2 DEF WorldGoesOn, IngressInv, WebhooksTyped, NothingAhead

\* A step that announces nothing.
LEMMA StaysGoesOn ==
  ASSUME IngressInv, WorldStays, UNCHANGED <<followed, discovered>>
  PROVE  WorldGoesOn
  BY DEF WorldStays, WorldGoesOn, IngressInv, WebhooksTyped, NothingAhead

\* Every step of the sources and of the world.
LEMMA IngressInvKept ==
  ASSUME PlayTime \in Nat, IngressInv, [Webhooks!Next]_(Webhooks!vars)
  PROVE  IngressInv'
<1>1. CASE Webhooks!Begin
  BY <1>1, BeginGoesOn, WorldKeepsIngress
<1>2. CASE Webhooks!Tick
  BY <1>2, TickGoesOn, WorldKeepsIngress
<1>3. ASSUME NEW l \in DOMAIN heard, Webhooks!Finish(l) PROVE IngressInv'
  BY <1>3, FinishGoesOn, WorldKeepsIngress
<1>4. ASSUME NEW n \in mail, Webhooks!Unreadable(n) PROVE IngressInv'
  <2>1. WorldStays /\ UNCHANGED <<followed, discovered>>
    BY <1>4 DEF Webhooks!Unreadable, Webhooks!Deliver, WorldStays
  <2>. QED BY <2>1, StaysGoesOn, WorldKeepsIngress
<1>5. ASSUME NEW n \in mail, Webhooks!Receive(n) PROVE IngressInv'
  <2>1. n.listen \in DOMAIN heard /\ followed \in [Ways -> DOMAIN heard \cup {0}]
    BY DEF IngressInv, WebhooksTyped
  <2>2. /\ WorldStays /\ UNCHANGED followed /\ discovered' = [i \in Ways |-> discovered'[i]]
    BY <1>5, ReceiveAnnounces
  <2>4. PICK date \in Int :
             /\ date <= now /\ (Exact => date = heard[n.listen].start)
             /\ \A i \in Ways : discovered'[i] = discovered[i] \/ OneMore(i, n.listen, date)
    BY <1>5, ReceiveAnnounces
  <2>3. \A i \in Ways : \/ discovered'[i] = discovered[i]
                        \/ \E l \in DOMAIN heard, d \in Int : d <= now /\ OneMore(i, l, d)
    BY <2>1, <2>4
  <2>. QED BY <2>1, <2>2, <2>3, AnnouncementKeepsIngress
<1>6. ASSUME NEW n \in mail, Webhooks!ReceiveEnd(n) PROVE IngressInv'
  <2>1. n.listen \in DOMAIN heard /\ followed \in [Ways -> DOMAIN heard \cup {0}] /\ now \in Nat
    BY DEF IngressInv, WebhooksTyped
  <2>2. /\ WorldStays /\ UNCHANGED followed /\ discovered' = [i \in Ways |-> discovered'[i]]
        /\ \E date \in Int :
              /\ date = Webhooks!Corrected(n.date)
              /\ \A i \in Ways : \/ discovered'[i] = discovered[i]
                                 \/ /\ OneMore(i, n.listen, date)
                                    /\ date < now /\ Webhooks!Distance(now, date) >= 3
    BY <1>6, ReceiveEndAnnounces
  <2>3. \A i \in Ways : \/ discovered'[i] = discovered[i]
                        \/ \E l \in DOMAIN heard, d \in Int : d <= now /\ OneMore(i, l, d)
    BY <2>1, <2>2
  <2>. QED BY <2>1, <2>2, <2>3, AnnouncementKeepsIngress
<1>7. ASSUME NEW l \in DOMAIN heard, Webhooks!ReceiveProgress(l) PROVE IngressInv'
  BY <1>7, ProgressAnnounces, AnnouncementKeepsIngress
<1>8. ASSUME NEW i \in Ways, Webhooks!Heard(i) PROVE IngressInv'
  BY <1>8, OverAnnounces, AnnouncementKeepsIngress
<1>9. CASE UNCHANGED Webhooks!vars
  <2>1. WorldStays /\ UNCHANGED <<followed, discovered>>
    BY <1>9 DEF Webhooks!vars, WorldStays
  <2>. QED BY <2>1, StaysGoesOn, WorldKeepsIngress
<1>. QED BY <1>1, <1>2, <1>3, <1>4, <1>5, <1>6, <1>7, <1>8, <1>9 DEF Webhooks!Next, Ways

\* The invariant, of every behaviour.
LEMMA IngressInvAlways == ASSUME PlayTime \in Nat PROVE Webhooks!Spec => []IngressInv
  BY InitIngress, IngressInvKept, PTL DEF Webhooks!Spec

\* Nothing a source announces is dated in the future, whatever offset the dates of
\* Jellyfin's clients have (JellyfinSource.ts:294), for plays that take no negative time.
THEOREM NeverAheadAlways == ASSUME PlayTime \in Nat PROVE Webhooks!Spec => []NeverAhead
<1>1. IngressInv => NeverAhead
  BY DEF IngressInv, NothingAhead, NeverAhead, Webhooks!NeverAhead, I!NeverAhead
<1>. QED BY <1>1, IngressInvAlways, PTL

----------------------------------------------------------------------------
(* No listen is announced twice.                                              *)

\* Before anything is heard.
LEMMA InitOnce == Webhooks!Init => OnceInv
<1>. SUFFICES ASSUME Webhooks!Init PROVE OnceInv
  OBVIOUS
<1>1. /\ now = 0 /\ heard = <<>> /\ mail = {}
      /\ zone \in {-5 * Webhooks!Hour, 0, Webhooks!Hour, 2 * Webhooks!Hour}
      /\ followed = [i \in Ways |-> 0] /\ discovered = [i \in Ways |-> <<>>]
  BY DEF Webhooks!Init, Ways
<1>2. DOMAIN heard = {}
  BY <1>1
<1>3. \A i \in Ways : DOMAIN discovered[i] = {}
  BY <1>1
<1>4. Once
  BY <1>3 DEF Once
<1>. QED BY <1>1, <1>2, <1>3, <1>4 DEF OnceInv

\* Nothing is announced, and the notifications and listens stay what OnceInv has of them.
LEMMA QuietKeepsOnce ==
  ASSUME IngressInv, OnceInv, WorldGoesOn, LastTime \in Nat => now' <= LastTime,
         \A l \in DOMAIN heard' : heard'[l].end <= now',
         \A n \in mail' : /\ n.date \in {heard'[n.listen].start, heard'[n.listen].end}
                          /\ n.date >= 0 /\ heard'[n.listen].end # -1
                          /\ \A m \in mail' : m.listen = n.listen => m = n,
         \A l \in DOMAIN heard : /\ heard'[l].offline = heard[l].offline
                                 /\ heard[l].end # -1 => heard'[l].end # -1,
         \A n \in mail' : n \in mail \/ heard[n.listen].end = -1
  PROVE  OnceInv'
<1>1. /\ UNCHANGED <<route, ingresses, zone, followed, discovered>> /\ Ways' = Ways
      /\ Exact' => Exact
      /\ \A l \in DOMAIN heard : heard'[l].start = heard[l].start
  BY DEF WorldGoesOn, Ways, Exact, IngressInv, WebhooksTyped, Webhooks!Hour
<1>2. \A i \in Ways : \A k \in DOMAIN discovered[i] : discovered[i][k].listen \in DOMAIN heard
  <2>1. \A i \in Ways : discovered[i] \in Seq(Entries)
    BY DEF IngressInv, WebhooksTyped
  <2>2. \A i \in Ways : \A k \in DOMAIN discovered[i] : discovered[i][k] \in Entries
    BY <2>1
  <2>. QED BY <2>2 DEF Entries
<1>3. Once'
  BY <1>1 DEF OnceInv, Once
<1>4. (Exact => \A i \in Ways : \A k \in DOMAIN discovered[i] :
                 Fits(discovered[i][k].listen, discovered[i][k].date))'
  <2>. SUFFICES ASSUME Exact', NEW i \in Ways, NEW k \in DOMAIN discovered[i]
                PROVE  Fits(discovered[i][k].listen, discovered[i][k].date)'
    BY <1>1
  <2>. DEFINE l == discovered[i][k].listen
              date == discovered[i][k].date
  <2>1. l \in DOMAIN heard /\ Fits(l, date)
    BY <1>1, <1>2 DEF OnceInv
  <2>. HIDE DEF l, date
  <2>2. CASE route = "webscrobbler" \/ ~heard[l].offline
    <3>1. date = heard'[l].start /\ (route' = "webscrobbler" \/ ~heard'[l].offline)
      BY <1>1, <2>1, <2>2 DEF Fits
    <3>. QED BY <1>1, <3>1 DEF Fits, l, date
  <2>3. CASE ~(route = "webscrobbler" \/ ~heard[l].offline)
    <3>1. heard[l].end # -1 /\ \A n \in mail : n.listen = l => n.date = date
      BY <2>1, <2>3 DEF Fits
    <3>2. heard'[l].end # -1 /\ \A n \in mail' : n.listen = l => n.date = date
      BY <2>1, <3>1
    <3>3. ~(route' = "webscrobbler" \/ ~heard'[l].offline)
      BY <1>1, <2>1, <2>3
    <3>. QED BY <1>1, <3>2, <3>3 DEF Fits, l, date
  <2>. QED BY <2>2, <2>3
<1>5. (\A i \in Ways : followed[i] # 0 => ~heard[followed[i]].offline)'
  <2>1. \A i \in Ways : followed[i] # 0 => followed[i] \in DOMAIN heard
    BY DEF IngressInv, WebhooksTyped
  <2>. QED BY <1>1, <2>1 DEF OnceInv
<1>6. /\ (LastTime \in Nat => now <= LastTime)'
      /\ (\A l \in DOMAIN heard : heard[l].end <= now)'
      /\ (zone \in {-5 * Webhooks!Hour, 0, Webhooks!Hour, 2 * Webhooks!Hour})'
      /\ (\A n \in mail : /\ n.date \in {heard[n.listen].start, heard[n.listen].end}
                          /\ n.date >= 0 /\ heard[n.listen].end # -1
                          /\ \A m \in mail : m.listen = n.listen => m = n)'
  BY <1>1 DEF OnceInv
<1>. QED BY <1>3, <1>4, <1>5, <1>6 DEF OnceInv

\* The end of a play that a Jellyfin source takes for offline is dated by the notification.
LEMMA EndsAreDated ==
  ASSUME IngressInv, OnceInv, Exact, route = "jellyfin",
         NEW n \in mail, NEW date \in Int, date = Webhooks!Corrected(n.date),
         date < now, Webhooks!Distance(now, date) >= 3,
         ~heard[n.listen].offline => now - heard[n.listen].end <= 1
  PROVE  Told(n.listen, date)
<1>1. /\ n.date \in Int /\ n.date >= 0 /\ now \in Nat /\ n.listen \in DOMAIN heard
      /\ zone = 0 \/ (zone \in {Webhooks!Hour, 2 * Webhooks!Hour} /\ now < Webhooks!Hour)
      /\ n.date \in {heard[n.listen].start, heard[n.listen].end} /\ heard[n.listen].end <= now
  BY DEF IngressInv, WebhooksTyped, OnceInv, Exact, Webhooks!Hour
<1>2. date = n.date
  BY <1>1 DEF Webhooks!Corrected, Webhooks!Hour
<1>3. heard[n.listen].end \in Int
  <2>1. heard[n.listen] \in Listening
    BY <1>1 DEF IngressInv, WebhooksTyped
  <2>. QED BY <2>1 DEF Listening
<1>4. ~heard[n.listen].offline => date # heard[n.listen].end
  BY <1>1, <1>3 DEF Webhooks!Distance
<1>. QED BY <1>1, <1>2, <1>4 DEF Told

\* Every step of the sources and of the world.
LEMMA OnceInvKept ==
  ASSUME PlayTime \in Nat, IngressInv, OnceInv, [Webhooks!Next]_(Webhooks!vars)
  PROVE  OnceInv'
<1>. /\ now \in Nat /\ heard \in Seq(Listening)
     /\ \A n \in mail : n.listen \in DOMAIN heard
     /\ followed \in [Ways -> DOMAIN heard \cup {0}]
  BY DEF IngressInv, WebhooksTyped
<1>. \A l \in DOMAIN heard : heard[l].start \in Nat /\ heard[l].end \in Int
  <2>1. \A l \in DOMAIN heard : heard[l] \in Listening
    OBVIOUS
  <2>. QED BY <2>1 DEF Listening
<1>1. CASE Webhooks!Begin
  <2>1. /\ WorldGoesOn /\ UNCHANGED <<now, mail>>
        /\ \A l \in DOMAIN heard : heard'[l] = heard[l]
        /\ DOMAIN heard' = DOMAIN heard \cup {Len(heard) + 1} /\ heard'[Len(heard) + 1].end = -1
    BY <1>1, BeginGoesOn
  <2>2. \A l \in DOMAIN heard' : l \in DOMAIN heard \/ heard'[l].end = -1
    BY <2>1
  <2>3. \A l \in DOMAIN heard' : heard'[l].end <= now'
    <3>1. \A l \in DOMAIN heard : heard[l].end <= now
      BY DEF OnceInv
    <3>2. now' = now /\ -1 <= now
      BY <2>1
    <3>. QED BY <2>1, <2>2, <3>1, <3>2
  <2>4. \A n \in mail' : /\ n.date \in {heard'[n.listen].start, heard'[n.listen].end}
                         /\ n.date >= 0 /\ heard'[n.listen].end # -1
                         /\ \A m \in mail' : m.listen = n.listen => m = n
    BY <2>1 DEF OnceInv
  <2>5. LastTime \in Nat => now' <= LastTime
    BY <2>1 DEF OnceInv
  <2>. QED BY <2>1, <2>3, <2>4, <2>5, QuietKeepsOnce
<1>2. CASE Webhooks!Tick
  <2>1. WorldGoesOn /\ UNCHANGED <<heard, mail>> /\ now < LastTime /\ now' = now + 1
    BY <1>2, TickGoesOn
  <2>. QED BY <2>1, QuietKeepsOnce DEF OnceInv
<1>3. ASSUME NEW l \in DOMAIN heard, Webhooks!Finish(l) PROVE OnceInv'
  <2>1. /\ WorldGoesOn /\ UNCHANGED now /\ DOMAIN heard' = DOMAIN heard
        /\ heard[l].end = -1
        /\ heard'[l].end = now /\ heard'[l].offline = heard[l].offline
        /\ heard'[l].start = heard[l].start
        /\ \A k \in DOMAIN heard : k # l => heard'[k] = heard[k]
    BY <1>3, FinishGoesOn
  <2>2. PICK n : /\ mail' = mail \cup {n} /\ n.listen = l /\ n.date \in {heard[l].start, now}
    BY <1>3, FinishGoesOn
  <2>3. \A m \in mail : m.listen # l
    BY <2>1 DEF OnceInv
  <2>4. \A m \in mail' : /\ m.date \in {heard'[m.listen].start, heard'[m.listen].end}
                         /\ m.date >= 0 /\ heard'[m.listen].end # -1
                         /\ \A o \in mail' : o.listen = m.listen => o = m
    BY <2>1, <2>2, <2>3 DEF OnceInv
  <2>5. \A k \in DOMAIN heard' : heard'[k].end <= now'
    <3>1. \A k \in DOMAIN heard : heard[k].end <= now
      BY DEF OnceInv
    <3>2. now \in Nat /\ now <= now
      BY DEF OnceInv, IngressInv, WebhooksTyped
    <3>. QED BY ONLY <2>1, <3>1, <3>2
  <2>6. LastTime \in Nat => now' <= LastTime
    BY <2>1 DEF OnceInv
  <2>7. \A k \in DOMAIN heard : /\ heard'[k].offline = heard[k].offline
                                /\ heard[k].end # -1 => heard'[k].end # -1
    BY <2>1
  <2>8. \A m \in mail' : m \in mail \/ heard[m.listen].end = -1
    BY <2>1, <2>2
  <2>. QED BY <2>1, <2>4, <2>5, <2>6, <2>7, <2>8, QuietKeepsOnce
<1>4. CASE WorldStays /\ UNCHANGED <<followed, discovered>>
  <2>1. WorldGoesOn
    BY <1>4, StaysGoesOn
  <2>2. now' = now /\ heard' = heard /\ mail' \subseteq mail
    BY <1>4 DEF WorldStays
  <2>. QED BY <2>1, <2>2, QuietKeepsOnce DEF OnceInv
<1>5. ASSUME NEW n \in mail, Webhooks!Receive(n) PROVE OnceInv'
  <2>1. /\ WorldStays /\ UNCHANGED followed /\ discovered' = [i \in Ways |-> discovered'[i]]
    BY <1>5, ReceiveAnnounces
  <2>4. PICK date \in Int :
             /\ date <= now /\ (Exact => date = heard[n.listen].start)
             /\ \A i \in Ways : discovered'[i] = discovered[i] \/ OneMore(i, n.listen, date)
    BY <1>5, ReceiveAnnounces
  <2>2. Exact => route = "webscrobbler"
    BY <1>5 DEF Webhooks!Receive, Exact
  <2>3. \A i \in Ways : \/ discovered'[i] = discovered[i]
                        \/ \E l \in DOMAIN heard, d \in Int :
                              (Exact => Told(l, d)) /\ OneMore(i, l, d)
    BY <2>2, <2>4 DEF Told
  <2>. QED BY <2>1, <2>3, AnnouncementKeepsOnce DEF OnceInv
<1>6. ASSUME NEW n \in mail, Webhooks!ReceiveEnd(n) PROVE OnceInv'
  <2>2. /\ WorldStays /\ UNCHANGED followed /\ discovered' = [i \in Ways |-> discovered'[i]]
        /\ route = "jellyfin"
        /\ ~heard[n.listen].offline => now - heard[n.listen].end <= 1
        /\ \E date \in Int :
              /\ date = Webhooks!Corrected(n.date)
              /\ \A i \in Ways : \/ discovered'[i] = discovered[i]
                                 \/ /\ OneMore(i, n.listen, date)
                                    /\ date < now /\ Webhooks!Distance(now, date) >= 3
    BY <1>6, ReceiveEndAnnounces
  <2>3. \A i \in Ways : \/ discovered'[i] = discovered[i]
                        \/ \E l \in DOMAIN heard, d \in Int :
                              (Exact => Told(l, d)) /\ OneMore(i, l, d)
    BY <2>2, EndsAreDated
  <2>. QED BY <2>2, <2>3, AnnouncementKeepsOnce DEF OnceInv
<1>7. ASSUME \A i \in Ways :
              \/ discovered'[i] = discovered[i]
              \/ /\ followed[i] # 0 /\ OneMore(i, followed[i], heard[followed[i]].start)
                 /\ followed[i] \in DOMAIN heard /\ heard[followed[i]].start \in Int
      PROVE  \A i \in Ways : \/ discovered'[i] = discovered[i]
                             \/ \E l \in DOMAIN heard, d \in Int :
                                   (Exact => Told(l, d)) /\ OneMore(i, l, d)
  BY <1>7 DEF OnceInv, Told
<1>8. ASSUME NEW l \in DOMAIN heard, Webhooks!ReceiveProgress(l) PROVE OnceInv'
  <2>1. \A i \in Ways : followed'[i] # 0 => ~heard[followed'[i]].offline
    BY <1>8, ProgressAnnounces DEF OnceInv
  <2>. QED BY <1>7, <1>8, <2>1, ProgressAnnounces, AnnouncementKeepsOnce
<1>9. ASSUME NEW i \in Ways, Webhooks!Heard(i) PROVE OnceInv'
  <2>1. \A j \in Ways : followed'[j] # 0 => ~heard[followed'[j]].offline
    BY <1>9, OverAnnounces DEF OnceInv
  <2>. QED BY <1>7, <1>9, <2>1, OverAnnounces, AnnouncementKeepsOnce
<1>10. ASSUME NEW n \in mail, Webhooks!Unreadable(n)
       PROVE  WorldStays /\ UNCHANGED <<followed, discovered>>
  BY <1>10 DEF Webhooks!Unreadable, Webhooks!Deliver, WorldStays
<1>11. UNCHANGED Webhooks!vars => WorldStays /\ UNCHANGED <<followed, discovered>>
  BY DEF Webhooks!vars, WorldStays
<1>. QED BY <1>1, <1>2, <1>3, <1>4, <1>5, <1>6, <1>8, <1>9, <1>10, <1>11 DEF Webhooks!Next, Ways

\* A positive offset can be seen only while the date with it added is ahead of now.
Correctable == route = "jellyfin" /\ zone > 0 => now < Webhooks!Hour

\* No source announces a listen twice, however often and whenever it hears of it, live
\* and at its end (JellyfinSource.ts:303, TimeUtils.ts:57): for as long as a positive
\* offset can be corrected.  An end that arrives later than the offset has its date left
\* uncorrected or corrected by when it arrives, so that one listen has two dates.
THEOREM ListenOnceWhileCorrectable ==
  ASSUME PlayTime \in Nat
  PROVE  Webhooks!Spec => [](Correctable => ListenOnce)
<1>1. IngressInv /\ OnceInv => (Correctable => ListenOnce)
  <2>1. IngressInv /\ OnceInv /\ Correctable => (route = "jellyfin" => zone < 0 \/ Exact)
    BY DEF IngressInv, WebhooksTyped, Correctable, Exact
  <2>. QED
    BY <2>1 DEF OnceInv, Once, ListenOnce, I!ListenOnce, I!Times, Ways,
       Webhooks!Close, I!Close, Webhooks!Tolerance, I!Tolerance, Webhooks!Distance, I!Distance
<1>. QED BY <1>1, InitIngress, IngressInvKept, InitOnce, OnceInvKept, PTL DEF Webhooks!Spec

\* So in a behaviour of less than an hour there is no exception to ListenOnce, for any
\* number of listens, notifications, sources and users.
COROLLARY ListenOnceWithinTheHour ==
  ASSUME PlayTime \in Nat, LastTime \in Nat, LastTime < Webhooks!Hour
  PROVE  Webhooks!Spec => []ListenOnce
<1>1. IngressInv /\ OnceInv => Correctable
  BY DEF IngressInv, WebhooksTyped, OnceInv, Correctable, Webhooks!Hour
<1>2. Webhooks!Spec => [](IngressInv /\ OnceInv)
  BY InitIngress, IngressInvKept, InitOnce, OnceInvKept, PTL DEF Webhooks!Spec
<1>. QED BY <1>1, <1>2, ListenOnceWhileCorrectable, PTL

-----------------------------------------------------------------------------
(* The building of clients and sources.                                       *)

CONSTANTS SomeMains, SomeFiles, SomeEnvs    \* what the administrator may have written

Setup == INSTANCE ConfigBuild WITH Mains <- SomeMains, Files <- SomeFiles, Envs <- SomeEnvs

EntryType ==
    [name : STRING, configureAs : STRING, spelled : STRING, type : STRING, ok : BOOLEAN,
     enable : BOOLEAN, fit : BOOLEAN, keys : SUBSET STRING]

\* Lists of entries, and none in a file that is not read as a list or as one entry.
ConfigSetting ==
    /\ \A m \in SomeMains : m.clients \in Seq(EntryType) /\ m.sources \in Seq(EntryType)
    /\ \A f \in SomeFiles : \A type \in Setup!Types :
          /\ f[type].entries \in Seq(EntryType)
          /\ f[type].kind \in {"absent", "broken", "null", "other"} => f[type].entries = <<>>

\* No two numbers make one name of a name: what is known here of strings.
NumbersTell ==
    \A name \in STRING \cup {"unnamed"} : \A i, j \in Nat :
        name \o ToString(i) = name \o ToString(j) => i = j

----------------------------------------------------------------------------
(* The invariant: where candidates are from, and which there are.           *)

FileEntry(type, i) == files[type].entries[i]

\* The entry that an id is of.
Written(id) ==
    IF id[1] = "main" THEN main[role][id[2]]
    ELSE IF id[2] = 0 THEN Setup!EnvEntry(id[1], Setup!EnvName(id[1]))
    ELSE [FileEntry(id[1], id[2]) EXCEPT !.type = id[1]]

FromWhere(c) ==
    \/ c.id[1] = "main" /\ c.id[2] \in DOMAIN main[role]
    \/ c.id[1] \in Setup!ToSet(Setup!TypesOfRole) /\ c.id[2] = 0 /\ Setup!FromEnv(c.id[1])
    \/ /\ c.id[1] \in Setup!ToSet(Setup!TypesOfRole) /\ c.id[2] \in DOMAIN files[c.id[1]].entries
       /\ Setup!FileAccepted(c)

Candidate(c) ==
    /\ c = [entry |-> Written(c.id), id |-> <<c.id[1], c.id[2]>>]
    /\ FromWhere(c)

\* What was read so far of the files of types.
Reads ==
    /\ todo \in Seq({"main"} \cup Setup!ToSet(Setup!TypesOfRole))
    /\ IsFiniteSet(configs) /\ \A c \in configs : Candidate(c)
    /\ \A type \in Setup!ToSet(Setup!TypesOfRole) \ Setup!ToSet(todo) : \A c \in Setup!FileCandidates(type) :
          Setup!FileAccepted(c) => c \in configs

\* Of the files of types that may be either, which entries are a registry's.
ClientsBuilt ==
    \A type \in Setup!Dual : \A i \in DOMAIN files[type].entries :
        /\ Setup!BuiltFrom(clients, <<type, i>>) => FileEntry(type, i).configureAs # "source"
        /\ Setup!Sound(FileEntry(type, i)) /\ FileEntry(type, i).configureAs # "source" =>
              Setup!BuiltFrom(clients, <<type, i>>) \/ Setup!Taken(type, i)
SourcesBuilt ==
    \A type \in Setup!Dual : \A i \in DOMAIN files[type].entries :
        /\ Setup!BuiltFrom(sources, <<type, i>>) => FileEntry(type, i).configureAs = "source"
        /\ Setup!Sound(FileEntry(type, i)) /\ FileEntry(type, i).configureAs = "source" =>
              Setup!BuiltFrom(sources, <<type, i>>)

ClientsApart == \A c, d \in clients : c.name = d.name => c = d
SourcesApart ==
    \A c, d \in sources : c.name = d.name /\ c.type = d.type /\ c # d =>
        \E a, b \in configs : a.id = c.id /\ b.id = d.id /\ Setup!NameOf(a) # Setup!NameOf(b)

ConfigInv ==
    /\ main \in SomeMains /\ files \in SomeFiles
    /\ role \in {"clients", "sources", "done", "failed"}
    /\ role \in {"clients", "sources"} => Reads
    /\ role \in {"sources", "done"} => ClientsBuilt
    /\ role = "clients" => clients = {}
    /\ ClientsApart
    /\ role # "done" => sources = {}
    /\ role = "done" => SourcesBuilt /\ (NumbersTell => SourcesApart)

----------------------------------------------------------------------------
(* Types, and what is left to read.                                         *)

LEMMA TypesTold ==
  /\ Setup!clientTypes \in Seq(Setup!ToSet(Setup!clientTypes))
  /\ Setup!sourceTypes \in Seq(Setup!ToSet(Setup!sourceTypes))
  /\ Setup!Dual \subseteq Setup!ToSet(Setup!clientTypes)
  /\ Setup!Dual \subseteq Setup!ToSet(Setup!sourceTypes)
  /\ "main" \notin Setup!Types
<1>1. /\ Setup!clientTypes \in Seq(Setup!ToSet(Setup!clientTypes))
      /\ Setup!sourceTypes \in Seq(Setup!ToSet(Setup!sourceTypes))
  <2>1. /\ DOMAIN Setup!clientTypes = 1..3
        /\ Setup!clientTypes = [i \in 1..3 |-> Setup!clientTypes[i]]
    BY DEF Setup!clientTypes
  <2>2. /\ DOMAIN Setup!sourceTypes = 1..18
        /\ Setup!sourceTypes = [i \in 1..18 |-> Setup!sourceTypes[i]]
    BY DEF Setup!sourceTypes
  <2>3. ASSUME NEW s, NEW n \in Nat, DOMAIN s = 1..n, s = [i \in 1..n |-> s[i]]
        PROVE  s \in Seq(Setup!ToSet(s))
    <3>1. \A i \in 1..n : s[i] \in Setup!ToSet(s)
      BY <2>3 DEF Setup!ToSet
    <3>. QED BY <2>3, <3>1
  <2>. QED BY <2>1, <2>2, <2>3
<1>2. Setup!Dual \subseteq Setup!ToSet(Setup!clientTypes)
  <2>1. Setup!clientTypes[2] = "lastfm" /\ Setup!clientTypes[3] = "listenbrainz"
        /\ {2, 3} \subseteq DOMAIN Setup!clientTypes
    BY DEF Setup!clientTypes
  <2>. QED BY <2>1 DEF Setup!Dual, Setup!ToSet
<1>3. Setup!Dual \subseteq Setup!ToSet(Setup!sourceTypes)
  <2>1. Setup!sourceTypes[6] = "lastfm" /\ Setup!sourceTypes[11] = "listenbrainz"
        /\ {6, 11} \subseteq DOMAIN Setup!sourceTypes
    BY DEF Setup!sourceTypes
  <2>. QED BY <2>1 DEF Setup!Dual, Setup!ToSet
<1>4. \A i \in DOMAIN Setup!clientTypes : Setup!clientTypes[i] # "main"
  BY DEF Setup!clientTypes
<1>5. \A i \in DOMAIN Setup!sourceTypes : Setup!sourceTypes[i] # "main"
  BY DEF Setup!sourceTypes
<1>. QED BY <1>1, <1>2, <1>3, <1>4, <1>5 DEF Setup!Types, Setup!ToSet

LEMMA TypesOfRegistry ==
  /\ Setup!TypesOfRole \in Seq(Setup!ToSet(Setup!TypesOfRole))
  /\ Setup!Dual \subseteq Setup!ToSet(Setup!TypesOfRole)
  /\ Setup!ToSet(Setup!TypesOfRole) \subseteq Setup!Types
  BY TypesTold DEF Setup!TypesOfRole, Setup!Types

LEMMA HeadAndRest ==
  ASSUME NEW S, NEW s \in Seq(S), s # <<>>
  PROVE  Tail(s) \in Seq(S) /\ Head(s) \in S /\ Setup!ToSet(s) = {Head(s)} \cup Setup!ToSet(Tail(s))
<1>1. /\ Len(s) \in Nat \ {0} /\ DOMAIN s = 1..Len(s) /\ Head(s) = s[1]
      /\ Tail(s) \in Seq(S) /\ Head(s) \in S /\ DOMAIN Tail(s) = 1..(Len(s) - 1)
      /\ \A i \in 1..(Len(s) - 1) : Tail(s)[i] = s[i + 1]
  OBVIOUS
<1>2. ASSUME NEW i \in DOMAIN s PROVE s[i] = Head(s) \/ s[i] \in Setup!ToSet(Tail(s))
  <2>1. CASE i = 1
    BY <1>1, <2>1
  <2>2. CASE i # 1
    <3>1. i - 1 \in 1..(Len(s) - 1) /\ (i - 1) + 1 = i
      BY <1>1, <2>2
    <3>2. Tail(s)[i - 1] = s[i]
      BY <1>1, <3>1
    <3>. QED BY <1>1, <3>1, <3>2 DEF Setup!ToSet
  <2>. QED BY <2>1, <2>2
<1>3. ASSUME NEW i \in DOMAIN Tail(s) PROVE Tail(s)[i] \in Setup!ToSet(s)
  <2>1. i + 1 \in DOMAIN s /\ Tail(s)[i] = s[i + 1]
    BY <1>1
  <2>. QED BY <2>1 DEF Setup!ToSet
<1>4. Head(s) \in Setup!ToSet(s)
  BY <1>1 DEF Setup!ToSet
<1>. QED BY <1>1, <1>2, <1>3, <1>4 DEF Setup!ToSet

LEMMA AllIsToRead ==
  ASSUME NEW types, types \in Seq(Setup!ToSet(types))
  PROVE  /\ <<"main">> \o types \in Seq({"main"} \cup Setup!ToSet(types))
         /\ Setup!ToSet(<<"main">> \o types) = {"main"} \cup Setup!ToSet(types)
<1>. DEFINE all == <<"main">> \o types
            S == {"main"} \cup Setup!ToSet(types)
<1>1. /\ Len(types) \in Nat /\ DOMAIN types = 1..Len(types)
      /\ all \in Seq(S) /\ DOMAIN all = 1..(Len(types) + 1) /\ all[1] = "main"
      /\ \A i \in 1..Len(types) : all[i + 1] = types[i]
  <2>. DEFINE one == <<"main">>
  <2>. HIDE DEF S
  <2>1. "main" \in S /\ types \in Seq(S)
    BY DEF S
  <2>2. one \in Seq(S) /\ Len(one) = 1 /\ one[1] = "main"
    BY <2>1
  <2>. HIDE DEF one
  <2>3. Len(types) \in Nat /\ DOMAIN types = 1..Len(types)
    BY <2>1
  <2>4. /\ one \o types \in Seq(S) /\ DOMAIN (one \o types) = 1..(Len(types) + 1)
        /\ (one \o types)[1] = "main"
        /\ \A i \in 1..Len(types) : (one \o types)[i + 1] = types[i]
    <3>1. /\ one \o types \in Seq(S) /\ Len(one \o types) = Len(one) + Len(types)
          /\ \A i \in 1..Len(one) + Len(types) :
                (one \o types)[i] = IF i <= Len(one) THEN one[i] ELSE types[i - Len(one)]
      BY <2>1, <2>2, ConcatProperties
    <3>2. Len(one \o types) = Len(types) + 1 /\ DOMAIN (one \o types) = 1..(Len(types) + 1)
      BY <2>2, <2>3, <3>1
    <3>3. (one \o types)[1] = "main"
      BY <2>2, <2>3, <3>1
    <3>4. ASSUME NEW i \in 1..Len(types) PROVE (one \o types)[i + 1] = types[i]
      <4>1. i + 1 \in 1..(Len(one) + Len(types)) /\ ~(i + 1 <= Len(one)) /\ (i + 1) - Len(one) = i
        BY <2>2, <2>3
      <4>. QED BY <3>1, <4>1
    <3>. QED BY <3>1, <3>2, <3>3, <3>4
  <2>. QED BY <2>3, <2>4 DEF one
<1>2. ASSUME NEW i \in DOMAIN all PROVE all[i] \in {"main"} \cup Setup!ToSet(types)
  <2>. HIDE DEF all
  <2>1. CASE i = 1
    BY <1>1, <2>1
  <2>2. CASE i # 1
    <3>1. i - 1 \in 1..Len(types) /\ (i - 1) + 1 = i
      BY <1>1, <2>2
    <3>2. all[i] = types[i - 1]
      BY <1>1, <3>1
    <3>. QED BY <1>1, <3>1, <3>2 DEF Setup!ToSet
  <2>. QED BY <2>1, <2>2
<1>3. "main" \in Setup!ToSet(all)
  <2>. HIDE DEF all
  <2>1. 1 \in DOMAIN all
    BY <1>1
  <2>. QED BY <1>1, <2>1 DEF Setup!ToSet
<1>4. ASSUME NEW i \in DOMAIN types PROVE types[i] \in Setup!ToSet(all)
  <2>. HIDE DEF all
  <2>1. i + 1 \in DOMAIN all /\ all[i + 1] = types[i]
    BY <1>1
  <2>. QED BY <2>1 DEF Setup!ToSet
<1>. HIDE DEF all
<1>5. Setup!ToSet(all) = {"main"} \cup Setup!ToSet(types)
  BY <1>2, <1>3, <1>4 DEF Setup!ToSet
<1>. QED BY <1>1, <1>5 DEF all

----------------------------------------------------------------------------
(* Candidates.                                                              *)

\* Where a candidate is from tells which entry it is.
LEMMA IdTellsCandidate ==
  ASSUME NEW c, Candidate(c), NEW d, Candidate(d), c.id = d.id
  PROVE  c = d
  BY DEF Candidate

\* The registry that is being built decides, and nothing that is read changes it.
LEMMA CandidatesStay ==
  ASSUME UNCHANGED <<main, files, env, role>>, NEW c
  PROVE  /\ Candidate(c)' <=> Candidate(c)
         /\ Setup!FileAccepted(c)' <=> Setup!FileAccepted(c)
         /\ Setup!TypesOfRole' = Setup!TypesOfRole
  BY DEF Candidate, Written, FromWhere, FileEntry, Setup!EnvEntry, Setup!EnvName, Setup!TypesOfRole,
     Setup!FromEnv, Setup!FileAccepted, Setup!MyRole

LEMMA FewCandidates ==
  ASSUME NEW entries, NEW n \in Nat, DOMAIN entries = 1..n, NEW from
  PROVE  IsFiniteSet(Setup!Candidates(entries, from))
<1>. DEFINE f == [i \in DOMAIN entries |-> [entry |-> entries[i], id |-> <<from, i>>]]
<1>1. f \in Surjection(DOMAIN entries, Setup!Candidates(entries, from))
  BY DEF Surjection, Setup!Candidates
<1>2. IsFiniteSet(DOMAIN entries)
  BY FS_Interval
<1>. HIDE DEF f
<1>. QED BY <1>1, <1>2, FS_Surjection

LEMMA WhatIsWritten ==
  ASSUME ConfigSetting, main \in SomeMains, files \in SomeFiles
  PROVE  /\ role \in {"clients", "sources"} => main[role] \in Seq(EntryType)
         /\ \A type \in Setup!Types :
              /\ files[type].entries \in Seq(EntryType)
              /\ files[type].kind \in {"absent", "broken", "null", "other"} => files[type].entries = <<>>
              /\ DOMAIN Setup!OfType(files[type].entries, type) = DOMAIN files[type].entries
              /\ \A i \in DOMAIN files[type].entries :
                    /\ i \in Nat \ {0} /\ FileEntry(type, i) \in EntryType
                    /\ Setup!OfType(files[type].entries, type)[i]
                         = [FileEntry(type, i) EXCEPT !.type = type]
<1>1. role \in {"clients", "sources"} => main[role] \in Seq(EntryType)
  BY DEF ConfigSetting
<1>2. ASSUME NEW type \in Setup!Types
      PROVE  /\ files[type].entries \in Seq(EntryType)
             /\ files[type].kind \in {"absent", "broken", "null", "other"} => files[type].entries = <<>>
  BY DEF ConfigSetting
<1>3. ASSUME NEW type \in Setup!Types
      PROVE  /\ DOMAIN Setup!OfType(files[type].entries, type) = DOMAIN files[type].entries
             /\ \A i \in DOMAIN files[type].entries :
                  /\ i \in Nat \ {0} /\ FileEntry(type, i) \in EntryType
                  /\ Setup!OfType(files[type].entries, type)[i]
                       = [FileEntry(type, i) EXCEPT !.type = type]
  <2>. DEFINE es == files[type].entries
  <2>1. es \in Seq(EntryType)
    BY <1>2
  <2>. HIDE DEF es
  <2>2. Len(es) \in Nat /\ DOMAIN es = 1..Len(es) /\ \A i \in 1..Len(es) : es[i] \in EntryType
    BY <2>1
  <2>3. /\ DOMAIN Setup!OfType(es, type) = DOMAIN es
        /\ \A i \in DOMAIN es : Setup!OfType(es, type)[i] = [es[i] EXCEPT !.type = type]
    BY DEF Setup!OfType
  <2>. QED BY <2>2, <2>3 DEF es, FileEntry
<1>. QED BY <1>1, <1>2, <1>3

LEMMA EntryOfEnv ==
  ASSUME NEW type, NEW name
  PROVE  Setup!EnvEntry(type, name).name = name /\ Setup!EnvEntry(type, name).type = type
<1>1. PICK keys : Setup!EnvEntry(type, name) =
        [name |-> name, configureAs |-> "undefined", spelled |-> "exact", type |-> type, ok |-> TRUE,
         enable |-> TRUE, fit |-> TRUE, keys |-> keys]
  BY DEF Setup!EnvEntry
<1>. QED BY <1>1

\* What is made of config.json, of the environment and of a file.
LEMMA MainCandidate ==
  ASSUME ConfigSetting, main \in SomeMains, files \in SomeFiles, role \in {"clients", "sources"}
  PROVE  IsFiniteSet(Setup!MainCandidates) /\ \A c \in Setup!MainCandidates : Candidate(c)
<1>1. IsFiniteSet(Setup!MainCandidates)
  <2>1. Len(main[role]) \in Nat /\ DOMAIN main[role] = 1..Len(main[role])
    BY WhatIsWritten
  <2>. QED BY <2>1, FewCandidates DEF Setup!MainCandidates
<1>2. ASSUME NEW c \in Setup!MainCandidates PROVE Candidate(c)
  <2>1. PICK i \in DOMAIN main[role] : c = [entry |-> main[role][i], id |-> <<"main", i>>]
    BY DEF Setup!MainCandidates, Setup!Candidates
  <2>2. c.id = <<"main", i>> /\ c.id[1] = "main" /\ c.id[2] = i /\ c.entry = main[role][i]
    BY <2>1
  <2>. QED BY <2>1, <2>2 DEF Candidate, Written, FromWhere
<1>. QED BY <1>1, <1>2

LEMMA EnvCandidate ==
  ASSUME NEW type \in Setup!ToSet(Setup!TypesOfRole)
  PROVE  IsFiniteSet(Setup!EnvCandidates(type)) /\ \A c \in Setup!EnvCandidates(type) : Candidate(c)
<1>1. IsFiniteSet(Setup!EnvCandidates(type))
  BY FS_EmptySet, FS_Singleton DEF Setup!EnvCandidates
<1>2. ASSUME NEW c \in Setup!EnvCandidates(type) PROVE Candidate(c)
  <2>1. /\ c = [entry |-> Setup!EnvEntry(type, Setup!EnvName(type)), id |-> <<type, 0>>]
        /\ Setup!FromEnv(type)
    BY DEF Setup!EnvCandidates
  <2>2. /\ c.id = <<type, 0>> /\ c.id[1] = type /\ c.id[2] = 0
        /\ c.entry = Setup!EnvEntry(type, Setup!EnvName(type))
    BY <2>1
  <2>3. type # "main"
    BY TypesOfRegistry, TypesTold
  <2>. QED BY <2>1, <2>2, <2>3 DEF Candidate, Written, FromWhere
<1>. QED BY <1>1, <1>2

LEMMA FileCandidate ==
  ASSUME ConfigSetting, main \in SomeMains, files \in SomeFiles,
         NEW type \in Setup!ToSet(Setup!TypesOfRole)
  PROVE  /\ IsFiniteSet(Setup!FileCandidates(type))
         /\ \A c \in Setup!FileCandidates(type) : Setup!FileAccepted(c) => Candidate(c)
<1>1. type \in Setup!Types /\ type # "main"
  BY TypesOfRegistry, TypesTold
<1>2. IsFiniteSet(Setup!FileCandidates(type))
  <2>1. /\ Len(files[type].entries) \in Nat
        /\ DOMAIN files[type].entries = 1..Len(files[type].entries)
    BY <1>1, WhatIsWritten
  <2>2. DOMAIN Setup!OfType(files[type].entries, type) = 1..Len(files[type].entries)
    BY <1>1, <2>1, WhatIsWritten
  <2>. QED BY <2>1, <2>2, FewCandidates DEF Setup!FileCandidates
<1>3. ASSUME NEW c \in Setup!FileCandidates(type), Setup!FileAccepted(c) PROVE Candidate(c)
  <2>1. PICK i \in DOMAIN files[type].entries :
          c = [entry |-> [FileEntry(type, i) EXCEPT !.type = type], id |-> <<type, i>>]
    <3>1. PICK i \in DOMAIN Setup!OfType(files[type].entries, type) :
            c = [entry |-> Setup!OfType(files[type].entries, type)[i], id |-> <<type, i>>]
      BY DEF Setup!FileCandidates, Setup!Candidates
    <3>. QED BY <1>1, <3>1, WhatIsWritten
  <2>2. /\ c.id = <<type, i>> /\ c.id[1] = type /\ c.id[2] = i
        /\ c.entry = [FileEntry(type, i) EXCEPT !.type = type]
    BY <2>1
  <2>3. i # 0
    BY <1>1, WhatIsWritten
  <2>. QED BY <1>1, <1>3, <2>1, <2>2, <2>3 DEF Candidate, Written, FromWhere
<1>. QED BY <1>2, <1>3

----------------------------------------------------------------------------
(* Reading.                                                                 *)

LEMMA InitSetup == ASSUME Setup!Init PROVE ConfigInv
<1>1. main \in SomeMains /\ files \in SomeFiles /\ role = "clients" /\ clients = {} /\ sources = {}
  BY DEF Setup!Init
<1>2. Setup!TypesOfRole = Setup!clientTypes
  BY <1>1 DEF Setup!TypesOfRole
<1>3. /\ todo \in Seq({"main"} \cup Setup!ToSet(Setup!TypesOfRole))
      /\ Setup!ToSet(Setup!TypesOfRole) \subseteq Setup!ToSet(todo)
  BY <1>2, TypesTold, AllIsToRead DEF Setup!Init
<1>4. configs = {} /\ IsFiniteSet(configs)
  BY FS_EmptySet DEF Setup!Init
<1>5. Reads
  BY <1>3, <1>4 DEF Reads
<1>. QED BY <1>1, <1>5 DEF ConfigInv, ClientsApart

\* One more thing is read, and all of it that is accepted is a candidate.
LEMMA TookKeepsSetup ==
  ASSUME ConfigInv, role \in {"clients", "sources"}, todo # <<>>,
         NEW new, Setup!Took(new), IsFiniteSet(new), \A c \in new : Candidate(c),
         Head(todo) # "main" => \A c \in Setup!FileCandidates(Head(todo)) :
                                   Setup!FileAccepted(c) => c \in new
  PROVE  ConfigInv'
<1>1. /\ main' = main /\ files' = files /\ env' = env /\ role' = role
      /\ clients' = clients /\ sources' = sources
      /\ configs' = configs \cup new /\ todo' = Tail(todo)
  BY DEF Setup!Took, Setup!given
<1>2. Reads
  BY DEF ConfigInv
<1>3. /\ \A c : Candidate(c)' <=> Candidate(c)
      /\ \A c : Setup!FileAccepted(c)' <=> Setup!FileAccepted(c)
      /\ Setup!TypesOfRole' = Setup!TypesOfRole
  BY <1>1, CandidatesStay
<1>4. \A type : Setup!FileCandidates(type)' = Setup!FileCandidates(type)
  BY <1>1 DEF Setup!FileCandidates
<1>5. /\ todo' \in Seq({"main"} \cup Setup!ToSet(Setup!TypesOfRole))
      /\ Setup!ToSet(todo) = {Head(todo)} \cup Setup!ToSet(todo')
  <2>1. todo \in Seq({"main"} \cup Setup!ToSet(Setup!TypesOfRole))
    BY <1>2 DEF Reads
  <2>. QED BY <1>1, <2>1, HeadAndRest
<1>6. IsFiniteSet(configs')
  BY <1>1, <1>2, FS_Union DEF Reads
<1>7. ASSUME NEW type \in Setup!ToSet(Setup!TypesOfRole) \ Setup!ToSet(todo'),
             NEW c \in Setup!FileCandidates(type), Setup!FileAccepted(c)
      PROVE  c \in configs'
  <2>1. type \notin Setup!ToSet(todo) \/ (type = Head(todo) /\ type # "main")
    BY <1>5, TypesOfRegistry, TypesTold
  <2>. QED BY <1>1, <1>2, <1>7, <2>1 DEF Reads
<1>8. \A c \in configs' : Candidate(c)
  BY <1>1, <1>2 DEF Reads
<1>9. Reads'
  BY <1>3, <1>4, <1>5, <1>6, <1>7, <1>8 DEF Reads
<1>10. ClientsBuilt' <=> ClientsBuilt
  BY <1>1 DEF ClientsBuilt, FileEntry, Setup!Taken
<1>. QED BY <1>1, <1>9, <1>10 DEF ConfigInv, ClientsApart

LEMMA FailedKeepsSetup ==
  ASSUME ConfigInv, role \in {"clients", "sources"}, Setup!Failed
  PROVE  ConfigInv'
  BY DEF ConfigInv, Setup!Failed, Setup!given, ClientsApart

LEMMA MainKeepsSetup ==
  ASSUME ConfigSetting, ConfigInv, Setup!ReadMain
  PROVE  ConfigInv'
<1>1. role \in {"clients", "sources"} /\ todo # <<>> /\ Head(todo) = "main"
  BY DEF Setup!ReadMain, Setup!Reading
<1>2. CASE Setup!Failed
  BY <1>1, <1>2, FailedKeepsSetup
<1>3. CASE Setup!Took({})
  BY <1>1, <1>3, FS_EmptySet, TookKeepsSetup
<1>4. CASE Setup!Took({c \in Setup!MainCandidates : Setup!MainAccepted(c)})
  <2>. DEFINE new == {c \in Setup!MainCandidates : Setup!MainAccepted(c)}
  <2>1. IsFiniteSet(Setup!MainCandidates) /\ \A c \in Setup!MainCandidates : Candidate(c)
    BY <1>1, MainCandidate DEF ConfigInv
  <2>2. new \in SUBSET Setup!MainCandidates
    OBVIOUS
  <2>3. Setup!Took(new)
    BY <1>4
  <2>. HIDE DEF new
  <2>4. IsFiniteSet(new)
    BY <2>1, <2>2, FS_Subset
  <2>. QED BY <1>1, <2>1, <2>2, <2>3, <2>4, TookKeepsSetup
<1>. QED BY <1>2, <1>3, <1>4 DEF Setup!ReadMain

LEMMA TypeKeepsSetup ==
  ASSUME ConfigSetting, ConfigInv, NEW type \in Setup!Types, Setup!ReadType(type)
  PROVE  ConfigInv'
<1>1. role \in {"clients", "sources"} /\ todo # <<>> /\ Head(todo) = type /\ type # "main"
  BY TypesTold DEF Setup!ReadType, Setup!Reading
<1>2. type \in Setup!ToSet(Setup!TypesOfRole)
  <2>1. todo \in Seq({"main"} \cup Setup!ToSet(Setup!TypesOfRole))
    BY <1>1 DEF ConfigInv, Reads
  <2>. QED BY <1>1, <2>1, HeadAndRest
<1>3. IsFiniteSet(Setup!EnvCandidates(type)) /\ \A c \in Setup!EnvCandidates(type) : Candidate(c)
  BY <1>2, EnvCandidate
<1>4. /\ IsFiniteSet(Setup!FileCandidates(type))
      /\ \A c \in Setup!FileCandidates(type) : Setup!FileAccepted(c) => Candidate(c)
  BY <1>2, FileCandidate DEF ConfigInv
<1>5. CASE Setup!Failed
  BY <1>1, <1>5, FailedKeepsSetup
<1>6. CASE /\ files[type].kind \in {"absent", "broken", "null", "other"}
           /\ Setup!Took(Setup!EnvCandidates(type))
  <2>1. files[type].entries = <<>> /\ DOMAIN Setup!OfType(files[type].entries, type) = DOMAIN <<>>
    BY <1>6, WhatIsWritten DEF ConfigInv
  <2>2. Setup!FileCandidates(type) = {}
    BY <2>1 DEF Setup!FileCandidates, Setup!Candidates
  <2>. QED BY <1>1, <1>3, <1>6, <2>2, TookKeepsSetup
<1>7. CASE Setup!Took(Setup!EnvCandidates(type)
                        \cup {c \in Setup!FileCandidates(type) : Setup!FileAccepted(c)})
  <2>. DEFINE accepted == {c \in Setup!FileCandidates(type) : Setup!FileAccepted(c)}
              new == Setup!EnvCandidates(type) \cup accepted
  <2>1. IsFiniteSet(accepted)
    <3>1. accepted \in SUBSET Setup!FileCandidates(type)
      OBVIOUS
    <3>. HIDE DEF accepted
    <3>. QED BY <1>4, <3>1, FS_Subset
  <2>2. /\ \A c \in new : Candidate(c)
        /\ \A c \in Setup!FileCandidates(type) : Setup!FileAccepted(c) => c \in new
    BY <1>3, <1>4
  <2>3. IsFiniteSet(new)
    <3>. HIDE DEF accepted
    <3>. QED BY <1>3, <2>1, FS_Union
  <2>4. Setup!Took(new)
    BY <1>7
  <2>. HIDE DEF new
  <2>. QED BY <1>1, <2>2, <2>3, <2>4, TookKeepsSetup
<1>. QED BY <1>5, <1>6, <1>7 DEF Setup!ReadType

----------------------------------------------------------------------------
(* Building.                                                                *)

\* All there is in the file of a type that may be either was read when nothing is left.
LEMMA FileIsRead ==
  ASSUME ConfigSetting, ConfigInv, role \in {"clients", "sources"}, todo = <<>>,
         NEW type \in Setup!Dual, NEW i \in DOMAIN files[type].entries,
         NEW c, c = [entry |-> [FileEntry(type, i) EXCEPT !.type = type], id |-> <<type, i>>],
         FileEntry(type, i).ok,
         (FileEntry(type, i).configureAs = "source") <=> (role = "sources")
  PROVE  c \in configs
<1>1. /\ type \in Setup!ToSet(Setup!TypesOfRole) /\ type \in Setup!Types
      /\ main \in SomeMains /\ files \in SomeFiles
  BY TypesOfRegistry DEF ConfigInv
<1>2. FileEntry(type, i) \in EntryType
  BY <1>1, WhatIsWritten
<1>3. c \in Setup!FileCandidates(type)
  BY <1>1, WhatIsWritten DEF Setup!FileCandidates, Setup!Candidates
<1>4. c.entry.configureAs = FileEntry(type, i).configureAs /\ c.entry.ok = FileEntry(type, i).ok
  BY <1>2 DEF EntryType
<1>5. Setup!FileAccepted(c)
  BY <1>4 DEF Setup!FileAccepted, Setup!MyRole, Setup!ForClient, Setup!ForSource
<1>6. Setup!ToSet(todo) = {}
  BY DEF Setup!ToSet
<1>. QED BY <1>1, <1>3, <1>5, <1>6 DEF ConfigInv, Reads

\* A candidate that has the id of an entry of a file is that entry.
LEMMA CandidateOfFile ==
  ASSUME ConfigSetting, ConfigInv, role \in {"clients", "sources"}, NEW c \in configs,
         NEW type \in Setup!Dual, NEW i \in DOMAIN files[type].entries, c.id = <<type, i>>
  PROVE  /\ c.entry.configureAs = FileEntry(type, i).configureAs
         /\ role = "clients" => FileEntry(type, i).configureAs # "source"
         /\ role = "sources" => FileEntry(type, i).configureAs = "source"
<1>1. /\ type \in Setup!Types /\ type # "main"
      /\ main \in SomeMains /\ files \in SomeFiles
  BY TypesOfRegistry, TypesTold DEF ConfigInv
<1>2. FileEntry(type, i) \in EntryType /\ i # 0
  BY <1>1, WhatIsWritten
<1>3. c.id[1] = type /\ c.id[2] = i
  OBVIOUS
<1>4. Candidate(c)
  BY DEF ConfigInv, Reads
<1>5. c.entry = [FileEntry(type, i) EXCEPT !.type = type]
  BY <1>1, <1>2, <1>3, <1>4 DEF Candidate, Written
<1>6. c.entry.configureAs = FileEntry(type, i).configureAs /\ c.entry.type = type
  BY <1>2, <1>5 DEF EntryType
<1>7. Setup!FileAccepted(c)
  BY <1>1, <1>2, <1>3, <1>4 DEF Candidate, FromWhere
<1>. QED BY <1>6, <1>7 DEF Setup!FileAccepted, Setup!MyRole, Setup!ForClient, Setup!ForSource

\* A candidate that stands in the way of a client has its name.
LEMMA InTheWay ==
  ASSUME ConfigSetting, ConfigInv, role = "clients", NEW d \in configs,
         NEW type \in Setup!Dual, NEW i \in DOMAIN files[type].entries, d.id # <<type, i>>,
         Setup!NameOf(d) = Setup!Named(FileEntry(type, i))
  PROVE  Setup!Taken(type, i)
<1>1. Candidate(d) /\ main \in SomeMains /\ files \in SomeFiles /\ role \in {"clients", "sources"}
  BY DEF ConfigInv, Reads
<1>2. Setup!TypesOfRole = Setup!clientTypes
  BY DEF Setup!TypesOfRole
<1>. DEFINE from == d.id[1]
            n == d.id[2]
<1>3. d.id = <<from, n>> /\ d.entry = Written(d.id)
  BY <1>1 DEF Candidate
<1>4. CASE from = "main" /\ n \in DOMAIN main[role]
  <2>1. Setup!NameOf(d) = Setup!Named(main.clients[n]) /\ n \in DOMAIN main.clients
    BY <1>3, <1>4 DEF Written, Setup!NameOf, Setup!Named
  <2>. QED BY <2>1 DEF Setup!Taken, FileEntry
<1>5. CASE from # "main" /\ from \in Setup!ToSet(Setup!clientTypes) /\ n = 0 /\ Setup!FromEnv(from)
  <2>1. d.entry.name = Setup!ClientEnvName[from]
    <3>1. d.entry = Setup!EnvEntry(from, Setup!EnvName(from))
      BY <1>3, <1>5 DEF Written
    <3>2. Setup!EnvName(from) = Setup!ClientEnvName[from]
      BY DEF Setup!EnvName
    <3>. QED BY <3>1, <3>2, EntryOfEnv
  <2>2. Setup!ClientVars[from] \intersect env # {}
    BY <1>5 DEF Setup!FromEnv
  <2>3. Setup!ClientEnvName[from] # "undefined"
    <3>1. from \in {"maloja", "lastfm", "listenbrainz"}
      BY <1>5 DEF Setup!ToSet, Setup!clientTypes
    <3>2. /\ Setup!ClientEnvName["maloja"] # "undefined" /\ Setup!ClientEnvName["lastfm"] # "undefined"
          /\ Setup!ClientEnvName["listenbrainz"] # "undefined"
      BY DEF Setup!ClientEnvName
    <3>. QED BY <3>1, <3>2
  <2>4. Setup!ClientEnvName[from] = Setup!Named(FileEntry(type, i))
    BY <2>1, <2>3 DEF Setup!NameOf
  <2>. QED BY <1>5, <2>2, <2>4 DEF Setup!Taken, FileEntry
<1>6. CASE from # "main" /\ from \in Setup!ToSet(Setup!clientTypes) /\ n \in DOMAIN files[from].entries
  <2>1. from \in Setup!Types
    BY <1>6 DEF Setup!Types
  <2>2. n # 0 /\ FileEntry(from, n) \in EntryType
    BY <1>1, <1>6, <2>1, WhatIsWritten
  <2>3. d.entry.name = FileEntry(from, n).name
    BY <1>3, <1>6, <2>2 DEF Written, EntryType
  <2>4. Setup!NameOf(d) = Setup!Named(FileEntry(from, n))
    BY <2>3 DEF Setup!NameOf, Setup!Named
  <2>5. <<from, n>> # <<type, i>>
    BY <1>3
  <2>. QED BY <1>6, <2>4, <2>5 DEF Setup!Taken, FileEntry
<1>7. /\ from \in Setup!ToSet(Setup!clientTypes) => from # "main"
      /\ \/ from = "main" /\ n \in DOMAIN main[role]
         \/ from \in Setup!ToSet(Setup!clientTypes) /\ n = 0 /\ Setup!FromEnv(from)
         \/ from \in Setup!ToSet(Setup!clientTypes) /\ n \in DOMAIN files[from].entries
  BY <1>1, <1>2, TypesTold DEF Candidate, FromWhere, Setup!Types
<1>. QED BY <1>4, <1>5, <1>6, <1>7

LEMMA ClientsKeepSetup ==
  ASSUME ConfigSetting, ConfigInv, Setup!BuildClients
  PROVE  ConfigInv'
<1>1. /\ role = "clients" /\ todo = <<>> /\ clients' = Setup!BuiltClients /\ role' = "sources"
      /\ todo' = <<"main">> \o Setup!sourceTypes /\ configs' = {}
      /\ main' = main /\ files' = files /\ env' = env /\ sources' = sources
  BY DEF Setup!BuildClients, Setup!given
<1>2. /\ main \in SomeMains /\ files \in SomeFiles /\ sources = {} /\ Reads
  BY <1>1 DEF ConfigInv
<1>3. Reads'
  <2>1. Setup!TypesOfRole' = Setup!sourceTypes
    BY <1>1 DEF Setup!TypesOfRole
  <2>2. /\ todo' \in Seq({"main"} \cup Setup!ToSet(Setup!TypesOfRole'))
        /\ Setup!ToSet(Setup!TypesOfRole') \subseteq Setup!ToSet(todo')
    BY <1>1, <2>1, TypesTold, AllIsToRead
  <2>3. IsFiniteSet(configs')
    BY <1>1, FS_EmptySet
  <2>. QED BY <1>1, <2>2, <2>3 DEF Reads
<1>4. ASSUME NEW c \in clients'
      PROVE  \E a \in configs : /\ c = Setup!Component(a, Setup!NameOf(a))
                                /\ Setup!UniqueName(a) /\ Setup!Constructed(a)
  BY <1>1 DEF Setup!BuiltClients
<1>5. ClientsApart'
  <2>1. ASSUME NEW c \in clients', NEW d \in clients', c.name = d.name PROVE c = d
    <3>1. PICK a \in configs : c = Setup!Component(a, Setup!NameOf(a)) /\ Setup!UniqueName(a)
      BY <1>4
    <3>2. PICK b \in configs : d = Setup!Component(b, Setup!NameOf(b)) /\ Setup!UniqueName(b)
      BY <1>4
    <3>3. Setup!NameOf(a) = Setup!NameOf(b)
      BY <2>1, <3>1, <3>2 DEF Setup!Component
    <3>4. a.id = b.id
      BY <3>1, <3>3 DEF Setup!UniqueName
    <3>5. a = b
      BY <1>2, <3>4, IdTellsCandidate DEF Reads
    <3>. QED BY <3>1, <3>2, <3>5
  <2>. QED BY <2>1 DEF ClientsApart
<1>6. ClientsBuilt'
  <2>1. ASSUME NEW type \in Setup!Dual, NEW i \in DOMAIN files[type].entries,
               Setup!BuiltFrom(clients', <<type, i>>)
        PROVE  FileEntry(type, i).configureAs # "source"
    <3>1. PICK c \in clients' : c.id = <<type, i>>
      BY <2>1 DEF Setup!BuiltFrom
    <3>2. PICK a \in configs : c = Setup!Component(a, Setup!NameOf(a))
      BY <1>4
    <3>3. a.id = <<type, i>>
      BY <3>1, <3>2 DEF Setup!Component
    <3>. QED BY <1>1, <3>3, CandidateOfFile
  <2>2. ASSUME NEW type \in Setup!Dual, NEW i \in DOMAIN files[type].entries,
               Setup!Sound(FileEntry(type, i)), FileEntry(type, i).configureAs # "source"
        PROVE  Setup!BuiltFrom(clients', <<type, i>>) \/ Setup!Taken(type, i)
    <3>. DEFINE a == [entry |-> [FileEntry(type, i) EXCEPT !.type = type], id |-> <<type, i>>]
    <3>1. a \in configs
      BY <1>1, <2>2, FileIsRead DEF Setup!Sound
    <3>2. FileEntry(type, i) \in EntryType
      BY <1>2, TypesOfRegistry, WhatIsWritten
    <3>3. /\ a.id = <<type, i>> /\ Setup!NameOf(a) = Setup!Named(FileEntry(type, i))
          /\ Setup!Constructed(a)
      BY <2>2, <3>2 DEF EntryType, Setup!NameOf, Setup!Named, Setup!Constructed, Setup!Sound
    <3>. HIDE DEF a
    <3>4. CASE Setup!UniqueName(a)
      <4>1. Setup!Component(a, Setup!NameOf(a)) \in clients'
        BY <1>1, <3>1, <3>3, <3>4 DEF Setup!BuiltClients
      <4>2. Setup!Component(a, Setup!NameOf(a)).id = <<type, i>>
        BY <3>3 DEF Setup!Component
      <4>. QED BY <4>1, <4>2 DEF Setup!BuiltFrom
    <3>5. CASE ~Setup!UniqueName(a)
      <4>1. PICK d \in configs : Setup!NameOf(d) = Setup!NameOf(a) /\ d.id # a.id
        BY <3>5 DEF Setup!UniqueName
      <4>. QED BY <1>1, <3>3, <4>1, InTheWay
    <3>. QED BY <3>4, <3>5
  <2>3. \A type, i : FileEntry(type, i)' = FileEntry(type, i) /\ Setup!Taken(type, i)' = Setup!Taken(type, i)
    BY <1>1 DEF FileEntry, Setup!Taken
  <2>. QED BY <1>1, <2>1, <2>2, <2>3 DEF ClientsBuilt
<1>. QED BY <1>1, <1>2, <1>3, <1>5, <1>6 DEF ConfigInv

----------------------------------------------------------------------------
(* Numbering the sources of a type that share a name.                       *)

LEMMA CountsAlike == ASSUME NEW S PROVE Setup!Cardinality(S) = Cardinality(S)
  BY DEF Setup!Cardinality, Cardinality

Group(c) == {d \in configs : Setup!SameGroup(d, c)}
Earlier(c) == {d \in Group(c) : Setup!ReadBefore(d, c)}

LEMMA NumberOf ==
  ASSUME NEW c
  PROVE  Setup!Numbered(c) = IF Cardinality(Group(c)) > 1
                               THEN Setup!NameOf(c) \o ToString(1 + Cardinality(Earlier(c)))
                               ELSE Setup!NameOf(c)
<1>1. /\ Setup!Cardinality(Group(c)) = Cardinality(Group(c))
      /\ Setup!Cardinality(Earlier(c)) = Cardinality(Earlier(c))
  BY CountsAlike
<1>. QED BY <1>1 DEF Setup!Numbered, Group, Earlier

\* What a source that may be built was read from.
LEMMA SourceCandidate ==
  ASSUME ConfigSetting, ConfigInv, role = "sources", NEW c \in configs
  PROVE  /\ c.id = <<c.id[1], c.id[2]>> /\ c.id[2] \in Nat
         /\ c.id[1] # "main" => c.id[1] = c.entry.type
         /\ Setup!NameOf(c) \in STRING \cup {"unnamed"}
<1>1. Candidate(c) /\ main \in SomeMains /\ files \in SomeFiles /\ role \in {"clients", "sources"}
  BY DEF ConfigInv, Reads
<1>. DEFINE from == c.id[1]
            n == c.id[2]
<1>2. c.id = <<from, n>> /\ c.entry = Written(c.id)
  BY <1>1 DEF Candidate
<1>3. CASE from = "main" /\ n \in DOMAIN main[role]
  <2>1. main[role] \in Seq(EntryType) /\ c.entry = main[role][n]
    BY <1>1, <1>2, <1>3, WhatIsWritten DEF Written
  <2>2. n \in Nat /\ c.entry \in EntryType
    BY <1>3, <2>1
  <2>3. c.entry.name \in STRING
    BY <2>2 DEF EntryType
  <2>. QED BY <1>2, <1>3, <2>2, <2>3 DEF Setup!NameOf
<1>4. CASE from # "main" /\ n = 0
  <2>1. c.entry = Setup!EnvEntry(from, Setup!EnvName(from))
    BY <1>2, <1>4 DEF Written
  <2>2. Setup!EnvName(from) = "unnamed"
    BY DEF Setup!EnvName
  <2>3. c.entry.name = "unnamed" /\ c.entry.type = from
    BY <2>1, <2>2, EntryOfEnv
  <2>. QED BY <1>2, <1>4, <2>3 DEF Setup!NameOf
<1>5. CASE from # "main" /\ from \in Setup!Types /\ n \in DOMAIN files[from].entries
  <2>1. n \in Nat \ {0} /\ FileEntry(from, n) \in EntryType
    BY <1>1, <1>5, WhatIsWritten
  <2>2. c.entry = [FileEntry(from, n) EXCEPT !.type = from]
    BY <1>2, <1>5, <2>1 DEF Written
  <2>3. c.entry.name \in STRING /\ c.entry.type = from
    BY <2>1, <2>2 DEF EntryType
  <2>. QED BY <1>2, <1>5, <2>1, <2>3 DEF Setup!NameOf
<1>6. \/ from = "main" /\ n \in DOMAIN main[role]
      \/ from # "main" /\ from \in Setup!Types /\ (n = 0 \/ n \in DOMAIN files[from].entries)
  BY <1>1, TypesOfRegistry, TypesTold DEF Candidate, FromWhere
<1>. QED BY <1>3, <1>4, <1>5, <1>6

\* Of two sources that are numbered alike, one was read before the other.
LEMMA OneIsEarlier ==
  ASSUME ConfigSetting, ConfigInv, role = "sources", NEW a \in configs, NEW b \in configs,
         a # b, Setup!SameGroup(a, b)
  PROVE  Setup!ReadBefore(a, b) \/ Setup!ReadBefore(b, a)
<1>1. Candidate(a) /\ Candidate(b)
  BY DEF ConfigInv, Reads
<1>2. a.id # b.id
  BY <1>1, IdTellsCandidate
<1>3. a.entry.type = b.entry.type
  BY DEF Setup!SameGroup
<1>. QED BY <1>2, <1>3, SourceCandidate DEF Setup!ReadBefore

LEMMA EarlierIsFewer ==
  ASSUME ConfigSetting, ConfigInv, role = "sources", NEW a \in configs, NEW b \in configs,
         Setup!SameGroup(a, b), Setup!ReadBefore(a, b)
  PROVE  /\ Cardinality(Earlier(a)) \in Nat /\ Cardinality(Earlier(b)) \in Nat
         /\ Cardinality(Earlier(a)) < Cardinality(Earlier(b))
<1>1. Group(a) = Group(b) /\ a \in Group(b)
  BY DEF Group, Setup!SameGroup
<1>2. ASSUME NEW d \in Earlier(a) PROVE d \in Earlier(b)
  <2>1. d \in configs /\ d \in Group(b) /\ Setup!ReadBefore(d, a)
    BY <1>1, <1>2 DEF Earlier, Group
  <2>2. Setup!ReadBefore(d, b)
    BY <2>1, SourceCandidate DEF Setup!ReadBefore
  <2>. QED BY <2>1, <2>2 DEF Earlier
<1>3. a \in Earlier(b) /\ a \notin Earlier(a)
  <2>1. ~Setup!ReadBefore(a, a)
    BY SourceCandidate DEF Setup!ReadBefore
  <2>. QED BY <1>1, <2>1 DEF Earlier
<1>4. IsFiniteSet(Earlier(b))
  <2>1. IsFiniteSet(configs) /\ Earlier(b) \in SUBSET configs
    BY DEF ConfigInv, Reads, Earlier, Group
  <2>. QED BY <2>1, FS_Subset
<1>5. Earlier(a) \in SUBSET Earlier(b) /\ Earlier(a) # Earlier(b)
  BY <1>2, <1>3
<1>6. /\ IsFiniteSet(Earlier(a)) /\ Cardinality(Earlier(a)) <= Cardinality(Earlier(b))
      /\ Cardinality(Earlier(a)) # Cardinality(Earlier(b))
  BY <1>4, <1>5, FS_Subset
<1>. QED BY <1>4, <1>6, FS_CardinalityType

LEMMA NumbersTellApart ==
  ASSUME ConfigSetting, NumbersTell, ConfigInv, role = "sources",
         NEW a \in configs, NEW b \in configs, a # b, Setup!SameGroup(a, b)
  PROVE  Setup!Numbered(a) # Setup!Numbered(b)
<1>. DEFINE m == Cardinality(Earlier(a))
            n == Cardinality(Earlier(b))
            name == Setup!NameOf(a)
<1>1. Setup!NameOf(b) = name /\ name \in STRING \cup {"unnamed"} /\ Group(a) = Group(b)
  BY SourceCandidate DEF Setup!SameGroup, Group
<1>2. m \in Nat /\ n \in Nat /\ m # n
  <2>1. Setup!SameGroup(b, a)
    BY DEF Setup!SameGroup
  <2>. QED BY <2>1, OneIsEarlier, EarlierIsFewer
<1>3. Cardinality(Group(a)) > 1
  <2>1. IsFiniteSet(configs) /\ Group(a) \in SUBSET configs
    BY DEF ConfigInv, Reads, Group
  <2>2. IsFiniteSet(Group(a))
    BY <2>1, FS_Subset
  <2>3. a \in Group(a) /\ b \in Group(a)
    BY DEF Group, Setup!SameGroup
  <2>4. Cardinality(Group(a)) \in Nat /\ Cardinality(Group(a)) # 0 /\ Cardinality(Group(a)) # 1
    BY <2>2, <2>3, FS_CardinalityType, FS_EmptySet, FS_Singleton
  <2>. QED BY <2>4
<1>4. Setup!Numbered(a) = name \o ToString(1 + m) /\ Setup!Numbered(b) = name \o ToString(1 + n)
  BY <1>1, <1>3, NumberOf
<1>. HIDE DEF m, n, name
<1>5. 1 + m \in Nat /\ 1 + n \in Nat /\ 1 + m # 1 + n
  BY <1>2
<1>. QED BY <1>1, <1>4, <1>5 DEF NumbersTell

LEMMA SourcesKeepSetup ==
  ASSUME ConfigSetting, ConfigInv, Setup!BuildSources
  PROVE  ConfigInv'
<1>1. /\ role = "sources" /\ todo = <<>> /\ sources' = Setup!BuiltSources /\ role' = "done"
      /\ main' = main /\ files' = files /\ env' = env /\ clients' = clients /\ configs' = configs
  BY DEF Setup!BuildSources, Setup!given
<1>2. main \in SomeMains /\ files \in SomeFiles /\ Reads /\ ClientsBuilt /\ ClientsApart
  BY <1>1 DEF ConfigInv
<1>3. ASSUME NEW c \in sources'
      PROVE  \E a \in configs : c = Setup!Component(a, Setup!Numbered(a)) /\ Setup!Constructed(a)
  BY <1>1 DEF Setup!BuiltSources
<1>4. ASSUME NumbersTell PROVE SourcesApart'
  <2>1. ASSUME NEW c \in sources', NEW d \in sources', c.name = d.name, c.type = d.type, c # d
        PROVE  \E a, b \in configs :
                  a.id = c.id /\ b.id = d.id /\ Setup!NameOf(a) # Setup!NameOf(b)
    <3>1. PICK a \in configs : c = Setup!Component(a, Setup!Numbered(a)) /\ Setup!Constructed(a)
      BY <1>3
    <3>2. PICK b \in configs : d = Setup!Component(b, Setup!Numbered(b)) /\ Setup!Constructed(b)
      BY <1>3
    <3>3. /\ Setup!Numbered(a) = Setup!Numbered(b) /\ a.entry.type = b.entry.type
          /\ a.id = c.id /\ b.id = d.id
      BY <2>1, <3>1, <3>2 DEF Setup!Component
    <3>4. a.entry.spelled = b.entry.spelled
      BY <3>1, <3>2 DEF Setup!Constructed
    <3>5. a # b
      BY <2>1, <3>1, <3>2
    <3>6. Setup!NameOf(a) # Setup!NameOf(b)
      BY <1>1, <1>4, <3>3, <3>4, <3>5, NumbersTellApart DEF Setup!SameGroup
    <3>. QED BY <3>3, <3>6
  <2>. QED BY <1>1, <2>1 DEF SourcesApart
<1>5. SourcesBuilt'
  <2>1. ASSUME NEW type \in Setup!Dual, NEW i \in DOMAIN files[type].entries,
               Setup!BuiltFrom(sources', <<type, i>>)
        PROVE  FileEntry(type, i).configureAs = "source"
    <3>1. PICK c \in sources' : c.id = <<type, i>>
      BY <2>1 DEF Setup!BuiltFrom
    <3>2. PICK a \in configs : c = Setup!Component(a, Setup!Numbered(a))
      BY <1>3
    <3>3. a.id = <<type, i>>
      BY <3>1, <3>2 DEF Setup!Component
    <3>. QED BY <1>1, <3>3, CandidateOfFile
  <2>2. ASSUME NEW type \in Setup!Dual, NEW i \in DOMAIN files[type].entries,
               Setup!Sound(FileEntry(type, i)), FileEntry(type, i).configureAs = "source"
        PROVE  Setup!BuiltFrom(sources', <<type, i>>)
    <3>. DEFINE a == [entry |-> [FileEntry(type, i) EXCEPT !.type = type], id |-> <<type, i>>]
    <3>1. a \in configs
      BY <1>1, <2>2, FileIsRead DEF Setup!Sound
    <3>2. FileEntry(type, i) \in EntryType
      BY <1>2, TypesOfRegistry, WhatIsWritten
    <3>3. a.id = <<type, i>> /\ Setup!Constructed(a)
      BY <2>2, <3>2 DEF EntryType, Setup!Constructed, Setup!Sound
    <3>. HIDE DEF a
    <3>4. Setup!Component(a, Setup!Numbered(a)) \in sources'
      BY <1>1, <3>1, <3>3 DEF Setup!BuiltSources
    <3>5. Setup!Component(a, Setup!Numbered(a)).id = <<type, i>>
      BY <3>3 DEF Setup!Component
    <3>. QED BY <3>4, <3>5 DEF Setup!BuiltFrom
  <2>3. \A type, i : FileEntry(type, i)' = FileEntry(type, i)
    BY <1>1 DEF FileEntry
  <2>. QED BY <1>1, <2>1, <2>2, <2>3 DEF SourcesBuilt
<1>6. ClientsBuilt'
  <2>1. \A type, i : FileEntry(type, i)' = FileEntry(type, i) /\ Setup!Taken(type, i)' = Setup!Taken(type, i)
    BY <1>1 DEF FileEntry, Setup!Taken
  <2>. QED BY <1>1, <1>2, <2>1 DEF ClientsBuilt
<1>7. ClientsApart'
  BY <1>1, <1>2 DEF ClientsApart
<1>. QED BY <1>1, <1>2, <1>4, <1>5, <1>6, <1>7 DEF ConfigInv

LEMMA SetupKept ==
  ASSUME ConfigSetting, ConfigInv, [Setup!Next]_Setup!vars
  PROVE  ConfigInv'
<1>1. CASE Setup!Next
  BY <1>1, MainKeepsSetup, TypeKeepsSetup, ClientsKeepSetup, SourcesKeepSetup DEF Setup!Next
<1>2. CASE UNCHANGED Setup!vars
  <2>1. /\ main' = main /\ files' = files /\ env' = env /\ role' = role /\ todo' = todo
        /\ configs' = configs /\ clients' = clients /\ sources' = sources
    BY <1>2 DEF Setup!vars
  <2>2. Reads => Reads'
    <3>1. \A c : Candidate(c)' <=> Candidate(c)
      BY <2>1, CandidatesStay
    <3>2. \A c : Setup!FileAccepted(c)' <=> Setup!FileAccepted(c)
      BY <2>1, CandidatesStay
    <3>3. Setup!TypesOfRole' = Setup!TypesOfRole
      BY <2>1, CandidatesStay
    <3>4. \A type : Setup!FileCandidates(type)' = Setup!FileCandidates(type)
      BY <2>1 DEF Setup!FileCandidates
    <3>. QED BY <2>1, <3>1, <3>2, <3>3, <3>4 DEF Reads
  <2>3. /\ (ClientsBuilt => ClientsBuilt') /\ (SourcesBuilt => SourcesBuilt')
        /\ (ClientsApart => ClientsApart') /\ (SourcesApart => SourcesApart')
    BY <2>1 DEF ClientsBuilt, SourcesBuilt, ClientsApart, SourcesApart, FileEntry, Setup!Taken
  <2>. QED BY <2>1, <2>2, <2>3 DEF ConfigInv
<1>. QED BY <1>1, <1>2

\* Each registry reads the files of lastfm and of listenbrainz with a default of its own
\* (ScrobbleClients.ts:228, ScrobbleSources.ts:530): for any configuration no entry is in
\* both and, whatever the others are, a good one is in one, unless a client has its name.
THEOREM OneRoleAlways ==
  ASSUME ConfigSetting
  PROVE  Setup!Spec => []OneRole
<1>1. ConfigInv => OneRole
  <2>. SUFFICES ASSUME ConfigInv, role = "done", NEW type \in Setup!Dual,
                       NEW i \in DOMAIN files[type].entries
                PROVE  /\ ~Setup!BuiltFrom(clients, <<type, i>>) \/ ~Setup!BuiltFrom(sources, <<type, i>>)
                       /\ Setup!Sound(FileEntry(type, i)) =>
                            \/ Setup!BuiltFrom(clients, <<type, i>>)
                            \/ Setup!BuiltFrom(sources, <<type, i>>)
                            \/ Setup!Taken(type, i) /\ FileEntry(type, i).configureAs # "source"
    BY DEF OneRole, C!OneRole, FileEntry, C!Dual, Setup!Dual, C!BuiltFrom, Setup!BuiltFrom,
       C!Sound, Setup!Sound, C!Taken, Setup!Taken, C!Named, Setup!Named, C!ClientVars,
       Setup!ClientVars, C!ClientEnvName, Setup!ClientEnvName, C!clientTypes, Setup!clientTypes,
       C!ToSet, Setup!ToSet
  <2>. QED BY DEF ConfigInv, ClientsBuilt, SourcesBuilt
<1>. QED BY <1>1, InitSetup, SetupKept, PTL DEF Setup!Spec

\* Clients are dropped and sources numbered so that names tell them apart (ScrobbleClients.ts:256,
\* ScrobbleSources.ts:570): for any configuration, where numbers are written differently.
THEOREM NamesTellApartAlways ==
  ASSUME ConfigSetting, NumbersTell
  PROVE  Setup!Spec => []NamesTellApart
<1>1. ConfigInv => NamesTellApart
  <2>1. ConfigInv => ClientsApart /\ SourcesApart
    BY DEF ConfigInv, SourcesApart
  <2>2. \A c : C!NameOf(c) = Setup!NameOf(c)
    BY DEF C!NameOf, Setup!NameOf
  <2>. QED BY <2>1, <2>2 DEF NamesTellApart, C!NamesTellApart, ClientsApart, SourcesApart
<1>. QED BY <1>1, InitSetup, SetupKept, PTL DEF Setup!Spec

=============================================================================
