--------------------------- MODULE MCMemorySource ---------------------------
(* Instances of MemorySource: the kinds of source the code has.            *)
EXTENDS MemorySource

\* Plex; Subsonic; Spotify and VLC; Chromecast and Jellyfin; and the Jellyfin webhook.
AllSources ==
  {[kind |-> "plex", multi |-> TRUE, polled |-> TRUE, reports |-> TRUE],
   [kind |-> "timestamp", multi |-> TRUE, polled |-> TRUE, reports |-> FALSE],
   [kind |-> "positional", multi |-> FALSE, polled |-> TRUE, reports |-> TRUE],
   [kind |-> "positional", multi |-> TRUE, polled |-> TRUE, reports |-> TRUE],
   [kind |-> "positional", multi |-> TRUE, polled |-> FALSE, reports |-> FALSE]}

Symmetric == Permutations(Tracks)
=============================================================================
