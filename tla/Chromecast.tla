----------------------------- MODULE Chromecast -----------------------------
(***************************************************************************)
(* ChromecastSource: cast devices are found by the configuration, by mDNS  *)
(* and on every heartbeat; each gets a client that connects again by       *)
(* itself.  A poll asks every device for its applications and every        *)
(* application for its media, feeds the players and prunes what is gone.   *)
(*                                                                         *)
(* Time is kept as ages, one unit per poll.                                *)
(***************************************************************************)
EXTENDS Integers, Sequences, FiniteSets, SequencesExt, Places

CONSTANTS
  Devices,      \* names of devices that the device lists accept
  Sessions,     \* an application that runs on a device: its transportId
  AppOf,        \* the application's name, from which its player gets its key
  MediaOf,      \* what it plays: "music", "unknown" or "none" for one that is never
                \* watched: the idle screen, no media namespace, refused by the lists
  AllowUnknown, \* allowUnknownMedia
  GiveUp,       \* failures in a row after which a device is removed
  AppGone,      \* time after which a stale application is removed
  StaleAfter,   \* staleInterval of a player
  DeadAfter,    \* twice its orphanedInterval
  Enough,       \* what must be heard of a play for it to pass the threshold
  MaxChanges    \* bound: what happens to devices and applications

ASSUME ChromecastAssumption ==
  /\ AppOf \in [Sessions -> STRING]
  /\ MediaOf \in [Sessions -> {"music", "unknown", "none"}]
  /\ AllowUnknown \in BOOLEAN
  /\ {GiveUp, AppGone, StaleAfter, Enough} \subseteq Nat \ {0}
  /\ DeadAfter \in Nat /\ DeadAfter > StaleAfter
  /\ MaxChanges \in Nat

VARIABLES
  world,      \* of each device: whether it answers, what runs, what plays
  changes,
  devices,    \* the devices that were added, in their order
  connecting, \* initializeDevice() calls that wait for their client to connect
  strays,     \* devices that have a client which no longer is the one in devices
  players,    \* by device and application
  refreshed   \* getRecentlyPlayed() is between its two halves

outside == <<world, changes>>
vars    == <<outside, devices, connecting, strays, players, refreshed>>

Known == {devices[i].name : i \in 1..Len(devices)}
IndexOf(d) == CHOOSE i \in 1..Len(devices) : devices[i].name = d

Without(f, S) == [k \in DOMAIN f \ S |-> f[k]]
Player(d, app) == <<d, AppOf[app.id]>>
Older(age, max) == IF age > max THEN age ELSE age + 1
----------------------------------------------------------------------------
\* What a poll or an event makes of a device: whether it stays, the players that go, and
\* whether an exception ended it.
State(d) == [device |-> d, stays |-> TRUE, gone |-> {}, threw |-> FALSE]

\* removeDevice(), removeApplications(): an application that never was asked for its
\* media has no controller to dispose of.
Removed(d) ==
  LET bare == {i \in 1..Len(d.apps) : ~d.apps[i].controlled}
      done == {i \in 1..Len(d.apps) : \A j \in bare : i < j}
  IN [device |-> [d EXCEPT !.apps = Kept(@, 1..Len(@) \ done)],
      stays  |-> bare # {},
      gone   |-> {Player(d.name, d.apps[i]) : i \in done},
      threw  |-> bare # {}]

\* Mutant of Failed: the device goes one failure later.
Failed_Later(d) ==
  LET e == [d EXCEPT !.retries = Older(@, GiveUp)]
  IN  IF e.retries > GiveUp THEN Removed(e) ELSE State(e)

\* A failure to reach the device.
Failed(d) ==
  LET e == [d EXCEPT !.retries = Older(@, GiveUp)]
  IN  IF e.retries >= GiveUp THEN Removed(e) ELSE State(e)

Never == -1
NewApp(s) == [id |-> s, controlled |-> FALSE, stale |-> Never, bad |-> Never]
Watched(app) == MediaOf[app.id] # "none"

Marked(app, running) ==
  IF (app.stale = Never) = (app.id \in running) THEN app
  ELSE [app EXCEPT !.stale = IF app.id \in running THEN Never ELSE 0]

\* The applications of a device after it has listed those that run: new ones are added,
\* those that are gone become stale or, when they are not watched, go.
Listed(apps, running) ==
  LET kept  == Kept(apps, {i \in 1..Len(apps) : apps[i].id \in running \/ Watched(apps[i])})
      fresh == SetToSeq(running \ {a.id : a \in ToSet(apps)})
  IN [i \in 1..Len(kept) |-> Marked(kept[i], running)]
       \o [i \in 1..Len(fresh) |-> NewApp(fresh[i])]

\* refreshApplications(), for one device.
Refreshed(d) ==
  CASE ~d.connected -> State(d)
    [] d.connected /\ world[d.name].up ->
         State([d EXCEPT !.retries = 0, !.apps = Listed(@, world[d.name].running)])
    [] OTHER -> Failed(d)

----------------------------------------------------------------------------
\* The applications that are asked for their media.
Asked(d, app) == d.connected /\ d.retries = 0 /\ Watched(app) /\ app.stale = Never

Plays(d, app) ==
  world[d.name].up /\ app.id \in world[d.name].running \cap world[d.name].playing

\* What the answer does to the application: a timeout leaves it as it is, one without
\* a track is bad data.
Answered(d, app) ==
  LET a == [app EXCEPT !.controlled = TRUE]
  IN  CASE ~Asked(d, app) -> app
        [] Asked(d, app) /\ Plays(d, app) -> [a EXCEPT !.bad = Never]
        [] OTHER -> IF world[d.name].up /\ app.id \in world[d.name].running /\ a.bad = Never
                      THEN [a EXCEPT !.bad = 0] ELSE a

\* Mutant of Tracked: only what is known to be music.
Tracked_Music(app) == MediaOf[app.id] = "music"

\* Media of other known types is logged as "will not track", and tracked all the same.
Tracked(app) == MediaOf[app.id] = "unknown" => AllowUnknown
Reporting ==
  {Player(x[1].name, x[2]) :
     x \in UNION {{<<d, a>> : a \in {a \in ToSet(d.apps) :
                                Asked(d, a) /\ Plays(d, a) /\ Tracked(a)}} : d \in ToSet(devices)}}

\* processRecentPlays(): a player that is silent has its play discovered once, and goes
\* when it is dead.  That the poll which discovered it came to nothing is kept in lost.
Silent(p, handed) ==
  IF p.age <= StaleAfter THEN p
  ELSE [p EXCEPT !.tried = TRUE,
                 !.found = @ \/ (handed /\ ~p.tried /\ p.heard >= Enough),
                 !.lost = @ \/ (~handed /\ ~p.tried)]

Heard(p) == [age |-> 0, tried |-> FALSE, found |-> p.found, lost |-> p.lost,
             heard |-> IF p.heard = Enough THEN Enough ELSE p.heard + 1]
NewPlayer == [age |-> 0, tried |-> FALSE, found |-> FALSE, lost |-> FALSE, heard |-> 0]

Processed(handed) ==
  [p \in {p \in DOMAIN players : players[p].age <= DeadAfter} \cup Reporting |->
     CASE p \notin Reporting -> Silent(players[p], handed)
       [] p \in Reporting /\ p \in DOMAIN players -> Heard(players[p])
       [] OTHER -> Heard(NewPlayer)]
----------------------------------------------------------------------------
\* Mutant of Expired: an application goes as soon as it is stale.
Expired_Early(app) == app.stale # Never

Expired(app) == app.stale > AppGone

\* Mutant of Unclaimed: a player goes with any of its applications.
Unclaimed_Any(d, rest, p) == TRUE

\* Whether the player of an application that is gone, or that had bad data for long, goes
\* too: no other application of the device claims it, or all of them have bad data.
Unclaimed(d, rest, p) ==
  \/ \A a \in ToSet(rest) : Player(d.name, a) # p
  \/ \A a \in ToSet(rest) : a.bad # Never

\* pruneApplications(), for one device: it ends at an application without a controller.
Pruned(d) ==
  LET bare  == {i \in 1..Len(d.apps) : Expired(d.apps[i]) /\ ~d.apps[i].controlled}
      stays == {i \in 1..Len(d.apps) : ~Expired(d.apps[i]) \/ \E j \in bare : j <= i}
      rest  == Kept(d.apps, stays)
      ended == {a \in ToSet(d.apps) : Expired(a) \/ a.bad > AppGone}
      gone  == {p \in {Player(d.name, a) : a \in ended} : Unclaimed(d, rest, p)}
  IN IF ~d.connected THEN State(d)
     ELSE [device |-> [d EXCEPT !.apps = rest], stays |-> TRUE,
           gone |-> IF bare = {} THEN gone ELSE {}, threw |-> bare # {}]

\* Each device in turn, until one throws; r is what each turn comes to.
InTurn(ds, r, ps) ==
  LET done == {i \in 1..Len(ds) : \A j \in 1..(i - 1) : ~r[j].threw}
  IN [devices |-> Kept([i \in 1..Len(ds) |-> IF i \in done THEN r[i].device ELSE ds[i]],
                       {i \in 1..Len(ds) : i \in done => r[i].stays}),
      players |-> Without(ps, UNION {r[i].gone : i \in done})]
----------------------------------------------------------------------------
Init ==
  /\ world = [d \in Devices |-> [up |-> TRUE, running |-> {}, playing |-> {}]]
  /\ changes = 0
  /\ devices = <<>> /\ players = <<>>
  /\ connecting = [d \in Devices |-> 0]
  /\ strays = {}
  /\ refreshed = FALSE

\* A device goes on or off, an application is launched or closed, its media starts or
\* ends.  An application runs once at a time.
Change ==
  /\ changes < MaxChanges /\ changes' = changes + 1
  /\ \E d \in Devices, s \in Sessions :
       \/ world' = [world EXCEPT ![d].up = ~@]
       \/ /\ world[d].up /\ \A r \in world[d].running : AppOf[r] # AppOf[s]
          /\ world' = [world EXCEPT ![d].running = @ \cup {s}]
       \/ /\ world[d].up /\ s \in world[d].running
          /\ world' = [world EXCEPT ![d].running = @ \ {s}, ![d].playing = @ \ {s}]
       \/ /\ world[d].up /\ s \in world[d].running \ world[d].playing /\ MediaOf[s] # "none"
          /\ world' = [world EXCEPT ![d].playing = @ \cup {s}]
       \/ /\ s \in world[d].playing
          /\ world' = [world EXCEPT ![d].playing = @ \ {s}]
  /\ UNCHANGED <<devices, connecting, strays, players, refreshed>>

\* discoverDevices(), on a heartbeat or at the start, and initializeDevice() for a device:
\* one that is configured and announced by mDNS, or announced twice, starts twice.
DiscoverDevice(d) ==
  /\ d \notin Known /\ connecting[d] < 2
  /\ connecting' = [connecting EXCEPT ![d] = @ + 1]
  /\ UNCHANGED <<outside, devices, strays, players, refreshed>>

\* The client is connected: the device is added, or takes the place of what was added
\* under its name meanwhile.
Connected(d) ==
  /\ connecting[d] > 0 /\ world[d].up
  /\ connecting' = [connecting EXCEPT ![d] = @ - 1]
  /\ LET new == [name |-> d, connected |-> TRUE, retries |-> 0, apps |-> <<>>]
     IN  IF d \in Known
           THEN devices' = [devices EXCEPT ![IndexOf(d)] = new] /\ strays' = strays \cup {d}
           ELSE devices' = Append(devices, new) /\ UNCHANGED strays
  /\ UNCHANGED <<outside, players, refreshed>>

ConnectFails(d) ==
  /\ connecting[d] > 0
  /\ connecting' = [connecting EXCEPT ![d] = @ - 1]
  /\ UNCHANGED <<outside, devices, strays, players, refreshed>>

\* handleCastClientEvent()
Closed(d) ==
  /\ ~world[d].up /\ d \in Known /\ devices[IndexOf(d)].connected
  /\ devices' = [devices EXCEPT ![IndexOf(d)].connected = FALSE]
  /\ UNCHANGED <<outside, connecting, strays, players, refreshed>>

\* (Also for a client whose device was added again under another one.)
Reconnecting(d) ==
  /\ ~world[d].up /\ d \in Known
  /\ ~devices[IndexOf(d)].connected \/ d \in strays
  /\ LET r   == [i \in 1..Len(devices) |->
                  IF i = IndexOf(d) THEN Failed(devices[i]) ELSE State(devices[i])]
         out == InTurn(devices, r, players)
     IN  devices' = out.devices /\ players' = out.players
  /\ UNCHANGED <<outside, connecting, strays, refreshed>>

Reconnect(d) ==
  /\ world[d].up /\ d \in Known /\ ~devices[IndexOf(d)].connected
  /\ devices' = [devices EXCEPT ![IndexOf(d)].connected = TRUE, ![IndexOf(d)].retries = 0]
  /\ UNCHANGED <<outside, connecting, strays, players, refreshed>>

\* The first half of getRecentlyPlayed(); time has passed since the last poll.
Later(age) == IF age = Never THEN Never ELSE Older(age, AppGone)
AgedApp(app) == [app EXCEPT !.stale = Later(@), !.bad = Later(@)]
Aged(d) == [d EXCEPT !.apps = [i \in 1..Len(@) |-> AgedApp(@[i])]]

Refresh ==
  /\ ~refreshed /\ refreshed' = TRUE
  /\ LET ds   == [i \in 1..Len(devices) |-> Aged(devices[i])]
         aged == [p \in DOMAIN players |-> [players[p] EXCEPT !.age = Older(@, DeadAfter)]]
         out  == InTurn(ds, [i \in 1..Len(ds) |-> Refreshed(ds[i])], aged)
     IN  devices' = out.devices /\ players' = out.players
  /\ UNCHANGED <<outside, connecting, strays>>

\* What its applications answered a device.
AllAnswered(d) == [d EXCEPT !.apps = [k \in 1..Len(@) |-> Answered(d, @[k])]]

\* The second half: what an exception in pruneApplications() leaves behind is no result.
Report ==
  /\ refreshed /\ refreshed' = FALSE
  /\ LET ds   == [i \in 1..Len(devices) |-> AllAnswered(devices[i])]
         r    == [i \in 1..Len(ds) |-> Pruned(ds[i])]
         lost == \E i \in 1..Len(ds) : r[i].threw
         out  == InTurn(ds, r, Processed(~lost))
     IN  devices' = out.devices /\ players' = out.players
  /\ UNCHANGED <<outside, connecting, strays>>

Next ==
  \/ Change \/ Refresh \/ Report
  \/ \E d \in Devices : \/ DiscoverDevice(d) \/ Connected(d) \/ ConnectFails(d)
                        \/ Closed(d) \/ Reconnecting(d) \/ Reconnect(d)

\* Heartbeats and polls go on, clients reconnect, and an attempt to connect that can
\* succeed does at some time.
Fairness ==
  /\ WF_vars(Refresh) /\ WF_vars(Report)
  /\ \A d \in Devices : /\ WF_vars(DiscoverDevice(d)) /\ SF_vars(Connected(d))
                        /\ WF_vars(Reconnect(d))

Spec == Init /\ [][Next]_vars /\ Fairness
----------------------------------------------------------------------------
\* A device that failed too often in a row is gone, unless it has an application that
\* never was asked for its media, such as its idle screen.
GivenUpIsRemoved ==
  \A d \in ToSet(devices) :
    d.retries >= GiveUp => \E a \in ToSet(d.apps) : ~a.controlled

\* A player that an application reports at this poll is not deleted by the same poll, in
\* particular not with an earlier session of the same application.
ReportedStays == [][Report => Reporting \subseteq DOMAIN players']_vars

\* A player goes after its play was discovered, unless its device was given up or lists
\* an earlier session of its application, whose bad data then counts as the player's.  An
\* exception at the poll that discovered it loses it, and so does an application that
\* ends for longer than AppGone before its player is stale.
Sole(p, ds) ==
  \E d \in ToSet(ds) :
    /\ d.name = p[1] /\ d.retries < GiveUp
    /\ Cardinality({a \in ToSet(d.apps) : Player(d.name, a) = p}) <= 1
Settled(q) == q.found \/ q.lost \/ q.age \in (AppGone + 1)..(StaleAfter + 1)
ListenIsKept ==
  [][\A p \in DOMAIN players \ DOMAIN players' :
       players[p].heard >= Enough /\ Sole(p, devices) /\ Sole(p, devices)' => Settled(players[p])]_vars

\* What plays on a device that stays reachable is tracked in the end.
PlayingIsTracked ==
  \A d \in Devices, s \in Sessions :
    <>[](world[d].up /\ s \in world[d].playing /\ (MediaOf[s] = "unknown" => AllowUnknown))
      => []<>(<<d, AppOf[s]>> \in DOMAIN players)
=============================================================================
