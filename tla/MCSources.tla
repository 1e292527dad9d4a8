------------------------------- MODULE MCSources ------------------------------
(***************************************************************************)
(* The two modules about what makes a source poll, side by side: the       *)
(* coroutines of SourcePolling, and the servers of PolledPlayers.          *)
(* `machine` says which of them a behaviour is of; the variables of the    *)
(* other stay as they are.                                                 *)
(***************************************************************************)
EXTENDS SourcePolling

VARIABLES
    machine,
    kind, filter, sound, password, up, playing, wire, built, connected, allowed,
    refused, stage, within, retries, tracked

playersVars == <<kind, filter, sound, password, up, playing, wire, built, connected, allowed,
                 refused, stage, within, retries, tracked>>
allVars == <<machine, vars, playersVars>>

-----------------------------------------------------------------------------
\* The tags of a track, and the names on the lists of what to scrobble or not.
Track(uri, artist, albumArtist, other) ==
    [uri |-> uri, artist |-> artist, albumArtist |-> albumArtist, other |-> other]
Lists(white, black) == [white |-> white, black |-> black]

P == INSTANCE PolledPlayers WITH
    buildOK <- built, connectionOK <- connected, authed <- allowed, authFailure <- refused,
    Kinds <- {"mpd", "mpdSocket", "vlc", "musikcube", "mopidy", "subsonic", "mpris"},
    Tracks <- {Track("a", "n1", "none", "none"), Track("a", "none", "n1", "none"),
               Track("b", "none", "none", "n1")},
    None <- "none",
    Filters <- {Lists({}, {}), Lists({"a"}, {"b"}), Lists({}, {"b"})},
    MaxRetries <- 1

-----------------------------------------------------------------------------
\* The players wait in one of their initial states while the coroutines run.
MCInit ==
    /\ machine \in {"polling", "players"}
    /\ \/ machine = "players"
       \/ machine = "polling" /\ kind = "mpd" /\ sound = TRUE /\ password = TRUE /\ up = FALSE
    /\ Init /\ P!Init

Polling(A) == machine = "polling" /\ A /\ UNCHANGED <<machine, playersVars>>
Playing(A) == machine = "players" /\ A /\ UNCHANGED <<machine, vars>>

MCNext == Polling(Next) \/ Playing(P!Next)

\* Fairness of SourcePolling, and of PolledPlayers.
MCFairness ==
    /\ \A c \in Initializers : WF_allVars(Polling(Goes(c)))
    /\ \A c \in Polls : WF_allVars(Polling(PollGoes(c)))
    /\ SF_allVars(Polling(HeartbeatPolls)) /\ SF_allVars(Polling(HeartbeatInit))
    /\ WF_allVars(Polling(HeartbeatInitEnds))
    /\ \A h \in Handlers : SF_allVars(Polling(Handles(h)))
    /\ WF_allVars(Playing(P!Source)) /\ WF_allVars(Playing(P!Poll))
    /\ WF_allVars(Playing(P!Reconnects))

MCSpec == MCInit /\ [][MCNext]_allVars /\ MCFairness
-----------------------------------------------------------------------------
\* SourceRecovers of SourcePolling, and the properties of PolledPlayers.
PollingRecovers == machine = "polling" => SourceRecovers
CreditsAnArtist == P!CreditsAnArtist
PollsAgain == machine = "players" => P!PollsAgain
BlacklistIsKept == P!BlacklistIsKept
=============================================================================
