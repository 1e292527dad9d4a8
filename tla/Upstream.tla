------------------------------- MODULE Upstream -------------------------------
(***************************************************************************)
(* What a scrobble client of each kind makes of its service's answers: the  *)
(* callApi, connection, health and authentication tests, refresh and        *)
(* doScrobble of MalojaScrobbler, LastfmScrobbler (LastfmApiClient) and     *)
(* ListenbrainzScrobbler (ListenbrainzApiClient).                           *)
(*                                                                          *)
(* A client goes through its stages, one or more requests each.  The        *)
(* service changes its condition between any two of them; how it answers a  *)
(* request in each condition is external.  doScrobble ends in one of the    *)
(* three ways the queue of the client tells apart: scrobbled, dead (an       *)
(* UpstreamError that is no showStopper: the play becomes a dead letter),    *)
(* or stopped (anything else: the play goes back and the client stops).      *)
(***************************************************************************)
EXTENDS Naturals

CONSTANTS
    MaxChanges      \* bound: changes of the service's condition

Kinds == {"maloja", "lastfm", "listenbrainz"}
maxRequestRetries == [maloja |-> 1, lastfm |-> 2, listenbrainz |-> 2]

Conditions == {"up", "unreachable", "failing", "unhealthy", "denying", "full"}

VARIABLES
    kind,       \* of the client
    play,       \* whether the service takes the play to be submitted: "good", "refused"
    service,    \* condition of the service
    changes,
    stage,      \* what the client does, or how it ended
    retries,    \* of the request under way
    met,        \* history: conditions that requests of this stage met
    stored      \* history: the service has the scrobble

vars == <<kind, play, service, changes, stage, retries, met, stored>>

Ends == {"failed", "scrobbled", "dead", "stopped"}

-----------------------------------------------------------------------------
(* The service: external.  A request is lost, or answered with a status or   *)
(* with a body the client reads.  An answer can be lost as well.             *)

Refusals == [maloja |-> {"ignored", "http400"}, lastfm |-> {"ignored"}, listenbrainz |-> {"http400"}]

Answers(what) ==
    CASE service = "unreachable" -> {"network"}
      [] service = "failing" -> {"http500"}
      [] service = "denying" /\ what # "connection" -> {"http403"}
      [] service = "unhealthy" /\ what = "health" -> {"unhealthy"}
      [] service = "full" /\ what = "scrobble" /\ kind = "lastfm" -> {"limit"}
      [] OTHER -> IF what = "scrobble" /\ play = "refused" THEN Refusals[kind] ELSE {"ok"}

-----------------------------------------------------------------------------
(* callApi: what is retried, and the error the caller gets: "none", a plain  *)
(* "error", or an UpstreamError that is a "stopper" or not ("upstream").      *)

\* LastfmApiClient takes every error for a network error: networkError is null,
\* never undefined.  ListenbrainzApiClient counts retries and never retries.
Retried(answer) ==
    CASE kind = "maloja" -> answer = "network"
      [] kind = "lastfm" -> answer \in {"network", "http500", "http403"}
      [] kind = "listenbrainz" -> FALSE

HttpError == {"http400", "http403", "http500"}

\* Mutant: a request that failed after its retries is no showStopper.
Thrown_Quiet(answer) == IF answer \in HttpError \union {"network"} THEN "upstream" ELSE "none"
ThrownByMaloja(answer) == IF answer = "network" THEN "stopper" ELSE "upstream"
ThrownByLastfm(answer) == "upstream"
\* Its errors of the network stay what they are.
ThrownByListenbrainz(answer) ==
    CASE answer = "network" -> "error"
      [] answer = "http400" -> "upstream"
      [] OTHER -> "stopper"

Thrown(answer) ==
    IF answer \notin HttpError \union {"network"} THEN "none" ELSE
    CASE kind = "maloja" -> ThrownByMaloja(answer)
      [] kind = "lastfm" -> ThrownByLastfm(answer)
      [] kind = "listenbrainz" -> ThrownByListenbrainz(answer)

-----------------------------------------------------------------------------
(* What each stage makes of the outcome. *)

AfterConnection == IF kind = "maloja" THEN "health" ELSE "auth"
\* Last.fm has no test of its connection.
FirstStage == IF kind = "lastfm" THEN "auth" ELSE "connection"

\* testConnection, testHealth, doAuthentication: an error fails the stage.
Tested(next, answer) == IF Thrown(answer) = "none" /\ answer # "unhealthy" THEN next ELSE "failed"

\* getScrobblesForRefresh: ListenBrainz turns an error into an empty list.
RefreshFailed(answer) == Thrown(answer) # "none" /\ kind # "listenbrainz"

\* doScrobble, and the catch of the processing loop that reads showStopper.
\* Maloja's own catch makes an answer below 500 no showStopper.
Scrobbled_Unread(answer) == Thrown(answer) = "none"
Scrobbled(answer) == Thrown(answer) = "none" /\ answer \notin {"ignored", "limit"}

MalojaRefused(answer) == answer \in {"ignored", "http400", "http403"} \/ Thrown(answer) = "upstream"
LastfmRefused(answer) == answer = "ignored" \/ Thrown(answer) = "upstream"
\* Any UpstreamError, whatever its showStopper says.
ListenbrainzRefused(answer) == Thrown(answer) \in {"upstream", "stopper"}

DeadLetter_Thrown(answer) == Thrown(answer) = "upstream"
DeadLetter(answer) ==
    CASE kind = "maloja" -> MalojaRefused(answer)
      [] kind = "lastfm" -> LastfmRefused(answer)
      [] kind = "listenbrainz" -> ListenbrainzRefused(answer)

Submitted(answer) ==
    CASE Scrobbled(answer) -> "scrobbled"
      [] DeadLetter(answer) -> "dead"
      [] OTHER -> "stopped"

-----------------------------------------------------------------------------
Init ==
    /\ kind \in Kinds /\ play \in {"good", "refused"}
    /\ service \in Conditions /\ changes = 0
    /\ stage = FirstStage /\ retries = 0
    /\ met = {} /\ stored = FALSE

ServiceChanges ==
    /\ changes < MaxChanges
    /\ service' \in Conditions \ {service}
    /\ changes' = changes + 1
    /\ UNCHANGED <<kind, play, stage, retries, met, stored>>

Requests == {"connection", "health", "auth", "refresh", "scrobble"}

\* One request.  An answer that is lost is a network error whatever the service did.
Request(what) ==
    /\ stage = what
    /\ \E answer \in Answers(what) \union {"network"} :
         /\ stored' = (stored \/ (what = "scrobble" /\ Answers(what) = {"ok"}))
         /\ IF Retried(answer) /\ retries < maxRequestRetries[kind]
            THEN /\ retries' = retries + 1
                 /\ met' = met \union {answer}
                 /\ UNCHANGED stage
            ELSE LET next == CASE what = "connection" -> Tested(AfterConnection, answer)
                               [] what = "health" -> Tested("auth", answer)
                               [] what = "auth" -> Tested("refresh", answer)
                               [] what = "refresh" -> IF RefreshFailed(answer) THEN "stopped" ELSE "scrobble"
                               [] what = "scrobble" -> Submitted(answer)
                 IN  /\ stage' = next
                     /\ retries' = 0
                     /\ met' = IF next \in Ends THEN met \union {answer} ELSE {}
    /\ UNCHANGED <<kind, play, service, changes>>

Next == ServiceChanges \/ \E what \in Requests : Request(what)
Spec == Init /\ [][Next]_vars

-----------------------------------------------------------------------------
(* Properties. *)

\* A play counts as scrobbled only when the service took it: neither an answer
\* that is well formed and says "ignored" (Last.fm) or "was not added" (Maloja),
\* nor one after the daily limit, does.
ScrobbledIsStored == stage = "scrobbled" => stored

\* A play that the service refuses does not block the queue: with a service that
\* answered every request it becomes a dead letter, and the plays behind it go on.
RefusedStepsAside ==
    play = "refused" /\ stage = "stopped" => met \intersect {"network", "http500", "http403", "limit"} # {}

\* When no request got through, the client stops and keeps the play in its queue
\* instead of using up the retries of a dead letter.  Last.fm does not: its
\* errors of the network end as an UpstreamError that is no showStopper.
OutageIsNoRefusal ==
    kind # "lastfm" /\ stage = "dead" => met # {"network"}

=============================================================================
