-------------------------- MODULE ChromecastProofs --------------------------
(***************************************************************************)
(* Proofs about Chromecast for every value of its constants: devices that  *)
(* were given up are removed, a poll deletes no player that it heard of,   *)
(* and a player goes when its play was discovered.                         *)
(***************************************************************************)
EXTENDS Chromecast, Stepwise

-----------------------------------------------------------------------------
(* The operators the model is built from.                                     *)

\* Whatever is kept was there, what is there at a place that is kept is kept, and what
\* differs in different places still does.
KeptOf(T, s, S, t) ==
  /\ t \in Seq(T)
  /\ \A k \in 1..Len(t) : \E i \in S : t[k] = s[i]
  /\ \A i \in S : \E k \in 1..Len(t) : t[k] = s[i]
  /\ \A j, k \in 1..Len(t) : j # k => \E h, i \in S : h # i /\ t[j] = s[h] /\ t[k] = s[i]

LEMMA KeptProperties ==
  ASSUME NEW T, NEW s \in Seq(T), NEW S \in SUBSET (1..Len(s))
  PROVE  KeptOf(T, s, S, Kept(s, S))
<1>. DEFINE t == Kept(s, S)
<1>. HIDE DEF t
<1>1. PICK at \in Bijection(1..Len(t), S) : \A k \in 1..Len(t) : t[k] = s[at[k]]
  BY KeptPlaces DEF t
<1>2. /\ at \in [1..Len(t) -> S]
      /\ \A j, k \in 1..Len(t) : at[j] = at[k] => j = k
      /\ \A i \in S : \E k \in 1..Len(t) : at[k] = i
  BY DEF Bijection, Injection, Surjection, IsInjective
<1>3. t \in Seq(T)
  BY KeptPlaces DEF t
<1>4. \A k \in 1..Len(t) : at[k] \in S
  BY <1>2
<1>5. \A k \in 1..Len(t) : \E i \in S : t[k] = s[i]
  BY <1>1, <1>4
<1>6. \A i \in S : \E k \in 1..Len(t) : t[k] = s[i]
  BY <1>1, <1>2
<1>7. ASSUME NEW j \in 1..Len(t), NEW k \in 1..Len(t), j # k
      PROVE  \E h, i \in S : h # i /\ t[j] = s[h] /\ t[k] = s[i]
  <2>1. at[j] # at[k] /\ at[j] \in S /\ at[k] \in S
    BY <1>2, <1>4, <1>7
  <2>2. t[j] = s[at[j]] /\ t[k] = s[at[k]]
    BY <1>1
  <2>. QED BY <2>1, <2>2
<1>. QED BY <1>3, <1>5, <1>6, <1>7 DEF t, KeptOf

-----------------------------------------------------------------------------
(* The invariant.                                                             *)

Ages == Never..(AppGone + 1)
AppType == [id : Sessions, controlled : BOOLEAN, stale : Ages, bad : Ages]
DeviceType == [name : Devices, connected : BOOLEAN, retries : Nat, apps : Seq(AppType)]
PlayerType == [age : Nat, tried : BOOLEAN, found : BOOLEAN, lost : BOOLEAN, heard : Nat]
WorldType == [up : BOOLEAN, running : SUBSET Sessions, playing : SUBSET Sessions]

CastTypeOK ==
  /\ world \in [Devices -> WorldType] /\ \A d \in Devices : IsFiniteSet(world[d].running)
  /\ changes \in Nat
  /\ devices \in Seq(DeviceType)
  /\ connecting \in [Devices -> Nat]
  /\ strays \in SUBSET Devices
  /\ players \in [DOMAIN players -> PlayerType]
  /\ refreshed \in BOOLEAN

\* The map of devices has a device once.
Named(ds) == \A i, j \in 1..Len(ds) : ds[i].name = ds[j].name => i = j

\* What GivenUpIsRemoved says of a device.
GivenUp(d) == d.retries >= GiveUp => \E k \in 1..Len(d.apps) : ~d.apps[k].controlled

\* A player has been silent at least since its application ended or had bad data, or
\* another session of the application was heard of later; and that one is still listed.
Fresh(a, q) == q.age > DeadAfter \/ (a.stale <= q.age /\ a.bad <= q.age)
Vouches(d, b, p, q) == Player(d.name, b) = p /\ Watched(b) /\ Fresh(b, q)
Covered(d, p, q) ==
  \A j \in 1..Len(d.apps) :
    Player(d.name, d.apps[j]) = p =>
      Fresh(d.apps[j], q) \/ \E k \in 1..Len(d.apps) : Vouches(d, d.apps[k], p, q)

\* The play of a player that is silent for long was discovered or lost; late by one poll
\* between the halves of one.
Tried(q, late) ==
  /\ q.tried /\ q.heard >= Enough => q.found \/ q.lost
  /\ q.age > StaleAfter + late => q.tried

\* What the devices and the players of them are to each other.
Sound(ds, ps) ==
  /\ ds \in Seq(DeviceType)
  /\ Named(ds)
  /\ \A i \in 1..Len(ds) : GivenUp(ds[i])
  /\ \A i \in 1..Len(ds) : \A p \in DOMAIN ps : Covered(ds[i], p, ps[p])

CastInv ==
  /\ CastTypeOK
  /\ Sound(devices, players)
  /\ \A p \in DOMAIN players : Tried(players[p], IF refreshed THEN 1 ELSE 0)

-----------------------------------------------------------------------------
(* What a turn makes of a device.                                             *)

\* The constants are numbers.
LEMMA Limits ==
  /\ GiveUp \in Nat \ {0} /\ AppGone \in Nat \ {0} /\ StaleAfter \in Nat \ {0} /\ Enough \in Nat \ {0}
  /\ DeadAfter \in Nat /\ StaleAfter < DeadAfter
  BY ChromecastAssumption

\* A result that keeps the name, the type and what the invariant says of a device.
Keeps(d, x) ==
  /\ x.device \in DeviceType /\ x.device.name = d.name
  /\ x.stays \in BOOLEAN /\ x.threw \in BOOLEAN
  /\ x.stays => GivenUp(x.device)
  /\ \A p \in x.gone : p[1] = d.name
  /\ \A p, q : q \in PlayerType /\ Covered(d, p, q) /\ p \notin x.gone => Covered(x.device, p, q)

LEMMA StateKeeps ==
  ASSUME NEW d \in DeviceType, NEW e \in DeviceType, e.name = d.name, GivenUp(e),
         \A p, q : q \in PlayerType /\ Covered(d, p, q) => Covered(e, p, q)
  PROVE  Keeps(d, State(e)) /\ State(e).gone = {}
  BY DEF Keeps, State

\* The players of the applications that are removed go with them.
LEMMA RemovedKeeps ==
  ASSUME NEW d \in DeviceType
  PROVE  /\ Keeps(d, Removed(d))
         /\ Removed(d).device.retries = d.retries
<1>. DEFINE n == Len(d.apps)
            bare == {i \in 1..n : ~d.apps[i].controlled}
            done == {i \in 1..n : \A j \in bare : i < j}
            x == Removed(d)
            S == 1..n \ done
            apps == Kept(d.apps, S)
<1>1. d.apps \in Seq(AppType) /\ n \in Nat /\ d.name \in Devices
  BY DEF DeviceType
<1>2. /\ x.device = [d EXCEPT !.apps = apps] /\ x.stays = (bare # {}) /\ x.threw = (bare # {})
      /\ x.gone = {Player(d.name, d.apps[i]) : i \in done}
  BY DEF Removed
<1>3. /\ apps \in Seq(AppType)
      /\ \A k \in 1..Len(apps) : \E i \in S : apps[k] = d.apps[i]
      /\ \A i \in S : \E k \in 1..Len(apps) : apps[k] = d.apps[i]
  <2>1. S \in SUBSET (1..Len(d.apps))
    OBVIOUS
  <2>. HIDE DEF S
  <2>2. KeptOf(AppType, d.apps, S, apps)
    BY <1>1, <2>1, KeptProperties
  <2>. HIDE DEF apps
  <2>. QED BY <2>2 DEF KeptOf
<1>4. x.device \in DeviceType /\ x.device.name = d.name /\ x.device.apps = apps /\ x.device.retries = d.retries
  <2>. HIDE DEF apps
  <2>. QED BY <1>2, <1>3 DEF DeviceType
<1>5. ASSUME bare # {} PROVE GivenUp(x.device)
  <2>1. PICK i \in 1..n : ~d.apps[i].controlled
    BY <1>5
  <2>2. i \in S
    <3>1. ~(i < i)
      BY <1>1
    <3>. QED BY <2>1, <3>1
  <2>3. PICK k \in 1..Len(apps) : apps[k] = d.apps[i]
    BY <1>3, <2>2
  <2>. QED BY <1>4, <2>1, <2>3 DEF GivenUp
<1>6. \A p \in x.gone : p[1] = d.name
  BY <1>2 DEF Player
<1>7. ASSUME NEW p, NEW q \in PlayerType, Covered(d, p, q), p \notin x.gone
      PROVE  Covered(x.device, p, q)
  <2>1. ASSUME NEW j \in 1..Len(apps), Player(d.name, apps[j]) = p
        PROVE  Fresh(apps[j], q) \/ \E k \in 1..Len(apps) : Vouches(x.device, apps[k], p, q)
    <3>1. PICK i \in S : apps[j] = d.apps[i]
      BY <1>3
    <3>2. CASE Fresh(d.apps[i], q)
      BY <3>1, <3>2
    <3>3. CASE \E k \in 1..n : Vouches(d, d.apps[k], p, q)
      <4>1. PICK k \in 1..n : Vouches(d, d.apps[k], p, q)
        BY <3>3
      <4>2. k \notin done
        BY <1>2, <1>7, <4>1 DEF Vouches
      <4>3. PICK h \in 1..Len(apps) : apps[h] = d.apps[k]
        BY <1>3, <4>2
      <4>. QED BY <1>4, <4>1, <4>3 DEF Vouches
    <3>. QED BY <1>7, <2>1, <3>1, <3>2, <3>3 DEF Covered
  <2>. QED BY <1>4, <2>1 DEF Covered
<1>. HIDE DEF x, bare
<1>8. Keeps(d, x)
  BY <1>2, <1>4, <1>5, <1>6, <1>7 DEF Keeps
<1>. QED BY <1>4, <1>8 DEF x

\* The same device as far as Covered is concerned.
LEMMA SameCover ==
  ASSUME NEW d, NEW e, e.name = d.name, e.apps = d.apps, NEW p, NEW q
  PROVE  Covered(d, p, q) <=> Covered(e, p, q)
  BY DEF Covered, Vouches

\* Only a device that failed too often loses players.
LEMMA FailedKeeps ==
  ASSUME NEW d \in DeviceType
  PROVE  /\ Keeps(d, Failed(d))
         /\ Failed(d).gone # {} => Failed(d).device.retries >= GiveUp
<1>. DEFINE e == [d EXCEPT !.retries = Older(@, GiveUp)]
<1>1. e \in DeviceType /\ e.name = d.name /\ e.apps = d.apps
  BY Limits DEF DeviceType, Older
<1>2. \A p, q : Covered(d, p, q) <=> Covered(e, p, q)
  <2>. HIDE DEF e
  <2>. QED BY <1>1, SameCover
<1>. HIDE DEF e
<1>3. CASE e.retries >= GiveUp
  <2>1. Failed(d) = Removed(e)
    BY <1>3 DEF Failed, e
  <2>2. Keeps(e, Removed(e)) /\ Removed(e).device.retries = e.retries
    BY <1>1, RemovedKeeps
  <2>3. Keeps(d, Removed(e))
    BY <1>1, <1>2, <2>2 DEF Keeps
  <2>. QED BY <1>3, <2>1, <2>2, <2>3
<1>4. CASE ~(e.retries >= GiveUp)
  <2>1. Failed(d) = State(e)
    BY <1>4 DEF Failed, e
  <2>2. GivenUp(e)
    BY <1>4 DEF GivenUp
  <2>. QED BY <1>1, <1>2, <2>1, <2>2, StateKeeps
<1>. QED BY <1>3, <1>4

\* A device that has listed those that run.
Listing(d, running) == [d EXCEPT !.retries = 0, !.apps = Listed(@, running)]

\* Listing the applications that run adds those that nobody waits for, and drops only
\* those that are not watched.
LEMMA ListedKeeps ==
  ASSUME NEW d \in DeviceType, NEW running \in SUBSET Sessions, IsFiniteSet(running),
         NEW e, e = Listing(d, running)
  PROVE  /\ e \in DeviceType /\ e.name = d.name /\ e.retries = 0
         /\ \A p, q : q \in PlayerType /\ Covered(d, p, q) => Covered(e, p, q)
<1>. DEFINE n == Len(d.apps)
            S == {i \in 1..n : d.apps[i].id \in running \/ Watched(d.apps[i])}
            kept == Kept(d.apps, S)
            marked == [i \in 1..Len(kept) |-> Marked(kept[i], running)]
            fresh == SetToSeq(running \ {a.id : a \in ToSet(d.apps)})
            new == [i \in 1..Len(fresh) |-> NewApp(fresh[i])]
<1>1. d.apps \in Seq(AppType) /\ n \in Nat /\ d.name \in Devices
  BY DEF DeviceType
<1>2. /\ kept \in Seq(AppType)
      /\ \A k \in 1..Len(kept) : \E i \in S : kept[k] = d.apps[i]
      /\ \A i \in S : \E k \in 1..Len(kept) : kept[k] = d.apps[i]
  <2>1. S \in SUBSET (1..Len(d.apps))
    OBVIOUS
  <2>. HIDE DEF S
  <2>2. KeptOf(AppType, d.apps, S, kept)
    BY <1>1, <2>1, KeptProperties
  <2>. HIDE DEF kept
  <2>. QED BY <2>2 DEF KeptOf
<1>3. fresh \in Seq(Sessions)
  <2>. DEFINE F == running \ {a.id : a \in ToSet(d.apps)}
  <2>1. F \subseteq running /\ F \subseteq Sessions
    OBVIOUS
  <2>. HIDE DEF F
  <2>2. IsFiniteSet(F)
    BY <2>1, FS_Subset
  <2>3. SetToSeq(F) \in Seq(F)
    BY <2>2, SetAsSequence
  <2>4. SetToSeq(F) \in Seq(Sessions)
    BY <2>1, <2>3
  <2>. QED BY <2>4 DEF F
<1>. HIDE DEF S, kept, fresh
<1>4. ASSUME NEW a \in AppType
      PROVE  /\ Marked(a, running) \in AppType /\ Marked(a, running).id = a.id
             /\ \A q \in PlayerType : Fresh(a, q) => Fresh(Marked(a, running), q)
  BY Limits DEF Marked, AppType, Ages, Never, Fresh, PlayerType
<1>5. ASSUME NEW a \in Sessions
      PROVE  NewApp(a) \in AppType /\ \A q \in PlayerType : Fresh(NewApp(a), q)
  BY Limits DEF NewApp, AppType, Ages, Never, Fresh, PlayerType
<1>6. marked \in Seq(AppType) /\ Len(marked) = Len(kept)
  BY <1>2, <1>4
<1>7. new \in Seq(AppType) /\ Len(new) = Len(fresh)
  BY <1>3, <1>5
<1>. DEFINE all == marked \o new
<1>8. /\ all \in Seq(AppType)
      /\ \A j \in 1..Len(all) : \/ \E k \in 1..Len(kept) : all[j] = Marked(kept[k], running)
                                \/ \E a \in Sessions : all[j] = NewApp(a)
      /\ \A k \in 1..Len(kept) : k \in 1..Len(all) /\ all[k] = Marked(kept[k], running)
  <2>1. \A k \in 1..Len(marked) : marked[k] = Marked(kept[k], running)
    BY <1>6
  <2>2. \A k \in 1..Len(new) : fresh[k] \in Sessions /\ new[k] = NewApp(fresh[k])
    BY <1>3, <1>7
  <2>. HIDE DEF marked, new
  <2>3. /\ all \in Seq(AppType) /\ Len(all) = Len(marked) + Len(new)
        /\ \A k \in 1..Len(marked) : all[k] = marked[k]
        /\ \A k \in 1..Len(all) : k > Len(marked) => all[k] = new[k - Len(marked)]
    BY <1>6, <1>7
  <2>4. Len(marked) \in Nat /\ Len(new) \in Nat
    BY <1>6, <1>7
  <2>. HIDE DEF all
  <2>5. ASSUME NEW j \in 1..Len(all)
        PROVE  \/ \E k \in 1..Len(kept) : all[j] = Marked(kept[k], running)
               \/ \E a \in Sessions : all[j] = NewApp(a)
    <3>1. CASE j > Len(marked)
      <4>1. j - Len(marked) \in 1..Len(new)
        BY <2>3, <2>4, <3>1
      <4>. QED BY <2>2, <2>3, <3>1, <4>1
    <3>2. CASE ~(j > Len(marked))
      <4>1. j \in 1..Len(marked)
        BY <2>3, <2>4, <3>2
      <4>. QED BY <1>6, <2>1, <2>3, <4>1
    <3>. QED BY <3>1, <3>2
  <2>6. \A k \in 1..Len(kept) : k \in 1..Len(all) /\ all[k] = Marked(kept[k], running)
    BY <1>6, <2>1, <2>3, <2>4
  <2>. QED BY <2>3, <2>5, <2>6
<1>9. e = [d EXCEPT !.retries = 0, !.apps = all]
  BY DEF Listing, Listed, kept, S, fresh
<1>. HIDE DEF all
<1>10. e \in DeviceType /\ e.name = d.name /\ e.retries = 0 /\ e.apps = all
  <2>. DEFINE c == [d EXCEPT !.retries = 0]
  <2>1. c \in DeviceType /\ c.name = d.name /\ c.retries = 0 /\ e = [c EXCEPT !.apps = all]
    BY <1>9 DEF DeviceType
  <2>. HIDE DEF c
  <2>. QED BY <1>8, <2>1 DEF DeviceType
<1>11. ASSUME NEW p, NEW q \in PlayerType, Covered(d, p, q), NEW j \in 1..Len(all),
              Player(d.name, all[j]) = p
       PROVE  Fresh(all[j], q) \/ \E k \in 1..Len(all) : Vouches(e, all[k], p, q)
  <2>1. CASE \E a \in Sessions : all[j] = NewApp(a)
    BY <1>5, <2>1
  <2>2. CASE \E k \in 1..Len(kept) : all[j] = Marked(kept[k], running)
    <3>1. PICK k \in 1..Len(kept) : all[j] = Marked(kept[k], running)
      BY <2>2
    <3>2. PICK i \in S : kept[k] = d.apps[i]
      BY <1>2
    <3>3. i \in 1..n /\ d.apps[i] \in AppType
      BY <1>1 DEF S
    <3>4. Player(d.name, d.apps[i]) = p
      BY <1>4, <1>11, <3>1, <3>2, <3>3 DEF Player
    <3>5. CASE Fresh(d.apps[i], q)
      BY <1>4, <3>1, <3>2, <3>3, <3>5
    <3>6. CASE \E h \in 1..n : Vouches(d, d.apps[h], p, q)
      <4>1. PICK h \in 1..n : Vouches(d, d.apps[h], p, q)
        BY <3>6
      <4>2. h \in S /\ d.apps[h] \in AppType
        BY <1>1, <4>1 DEF Vouches, S
      <4>3. PICK g \in 1..Len(kept) : kept[g] = d.apps[h]
        BY <1>2, <4>2
      <4>4. g \in 1..Len(all) /\ all[g] = Marked(d.apps[h], running)
        BY <1>8, <4>3
      <4>5. Vouches(e, all[g], p, q)
        BY <1>4, <1>10, <4>1, <4>2, <4>4 DEF Vouches, Watched, Player
      <4>. QED BY <4>4, <4>5
    <3>. QED BY <1>11, <3>3, <3>4, <3>5, <3>6 DEF Covered
  <2>. QED BY <1>8, <2>1, <2>2
<1>. QED BY <1>10, <1>11 DEF Covered

\* refreshApplications() of a device.
LEMMA RefreshedKeeps ==
  ASSUME CastTypeOK, NEW d \in DeviceType, GivenUp(d)
  PROVE  /\ Keeps(d, Refreshed(d))
         /\ Refreshed(d).gone # {} => Refreshed(d).device.retries >= GiveUp
<1>1. CASE ~d.connected
  <2>1. Refreshed(d) = State(d)
    BY <1>1 DEF Refreshed
  <2>. QED BY <2>1, StateKeeps
<1>2. CASE d.connected /\ world[d.name].up
  <2>. DEFINE running == world[d.name].running
              e == Listing(d, running)
  <2>1. Refreshed(d) = State(e)
    BY <1>2 DEF Refreshed, Listing
  <2>2. running \in SUBSET Sessions /\ IsFiniteSet(running)
    BY DEF CastTypeOK, DeviceType, WorldType
  <2>. HIDE DEF running
  <2>3. /\ e \in DeviceType /\ e.name = d.name /\ e.retries = 0
        /\ \A p, q : q \in PlayerType /\ Covered(d, p, q) => Covered(e, p, q)
    BY <2>2, ListedKeeps
  <2>. HIDE DEF e
  <2>4. GivenUp(e)
    BY <2>3, Limits DEF GivenUp
  <2>. QED BY <2>1, <2>3, <2>4, StateKeeps
<1>3. CASE d.connected /\ ~world[d.name].up
  <2>1. Refreshed(d) = Failed(d)
    BY <1>3 DEF Refreshed
  <2>. QED BY <2>1, FailedKeeps
<1>. QED BY <1>1, <1>2, <1>3

\* A poll later applications and players are older.
LEMMA AgedKeeps ==
  ASSUME NEW d \in DeviceType
  PROVE  /\ Aged(d) \in DeviceType /\ Aged(d).name = d.name /\ Aged(d).retries = d.retries
         /\ GivenUp(d) => GivenUp(Aged(d))
         /\ \A p, q : q \in PlayerType /\ Covered(d, p, q) =>
               Covered(Aged(d), p, [q EXCEPT !.age = Older(@, DeadAfter)])
<1>. DEFINE n == Len(d.apps)
            e == Aged(d)
<1>1. d.apps \in Seq(AppType) /\ n \in Nat
  BY DEF DeviceType
<1>2. ASSUME NEW a \in AppType
      PROVE  /\ AgedApp(a) \in AppType /\ AgedApp(a).id = a.id /\ AgedApp(a).controlled = a.controlled
             /\ \A q \in PlayerType :
                  Fresh(a, q) => Fresh(AgedApp(a), [q EXCEPT !.age = Older(@, DeadAfter)])
  <2>1. /\ AgedApp(a).id = a.id /\ AgedApp(a).controlled = a.controlled
        /\ AgedApp(a).stale = Later(a.stale) /\ AgedApp(a).bad = Later(a.bad)
    BY DEF AppType, AgedApp
  <2>2. /\ a.stale \in Ages /\ a.bad \in Ages /\ a.id \in Sessions /\ a.controlled \in BOOLEAN
    BY DEF AppType
  <2>3. \A x \in Ages : Later(x) \in Ages
    BY Limits DEF Ages, Never, Older, Later
  <2>4. ASSUME NEW x \in Ages, NEW age \in Nat, age > DeadAfter \/ x <= age
        PROVE  Older(age, DeadAfter) > DeadAfter \/ Later(x) <= Older(age, DeadAfter)
    BY <2>4, Limits DEF Ages, Never, Older, Later
  <2>5. AgedApp(a) \in AppType
    <3>1. Later(a.stale) \in Ages /\ Later(a.bad) \in Ages
      BY <2>2, <2>3
    <3>. QED BY <3>1 DEF AgedApp, AppType
  <2>6. ASSUME NEW q \in PlayerType, Fresh(a, q)
        PROVE  Fresh(AgedApp(a), [q EXCEPT !.age = Older(@, DeadAfter)])
    <3>1. q.age \in Nat /\ [q EXCEPT !.age = Older(@, DeadAfter)].age = Older(q.age, DeadAfter)
      BY DEF PlayerType
    <3>. QED BY <2>1, <2>2, <2>4, <2>6, <3>1 DEF Fresh
  <2>. QED BY <2>1, <2>5, <2>6
<1>3. e = [d EXCEPT !.apps = [i \in 1..n |-> AgedApp(d.apps[i])]]
  BY DEF Aged
<1>4. \A i \in 1..n : d.apps[i] \in AppType
  BY <1>1
<1>. HIDE DEF e
<1>5. [i \in 1..n |-> AgedApp(d.apps[i])] \in Seq(AppType)
  BY <1>1, <1>2, <1>4
<1>6. /\ e \in DeviceType /\ e.name = d.name /\ e.retries = d.retries /\ Len(e.apps) = n
      /\ \A i \in 1..n : e.apps[i] = AgedApp(d.apps[i])
  <2>. DEFINE f == [i \in 1..n |-> AgedApp(d.apps[i])]
  <2>1. f \in Seq(AppType) /\ Len(f) = n /\ \A i \in 1..n : f[i] = AgedApp(d.apps[i])
    BY <1>1, <1>5
  <2>2. e = [d EXCEPT !.apps = f]
    BY <1>3
  <2>. HIDE DEF f
  <2>. QED BY <2>1, <2>2 DEF DeviceType
<1>7. GivenUp(d) => GivenUp(e)
  BY <1>2, <1>4, <1>6 DEF GivenUp
<1>8. ASSUME NEW p, NEW q \in PlayerType, Covered(d, p, q),
             NEW r, r = [q EXCEPT !.age = Older(@, DeadAfter)]
      PROVE  Covered(e, p, r)
  <2>1. ASSUME NEW j \in 1..n, Player(e.name, e.apps[j]) = p
        PROVE  Fresh(e.apps[j], r) \/ \E k \in 1..n : Vouches(e, e.apps[k], p, r)
    <3>1. Player(d.name, d.apps[j]) = p
      BY <1>2, <1>4, <1>6, <2>1 DEF Player
    <3>2. CASE Fresh(d.apps[j], q)
      BY <1>2, <1>4, <1>6, <1>8, <3>2
    <3>3. CASE \E k \in 1..n : Vouches(d, d.apps[k], p, q)
      <4>1. PICK k \in 1..n : Vouches(d, d.apps[k], p, q)
        BY <3>3
      <4>2. Vouches(e, e.apps[k], p, r)
        BY <1>2, <1>4, <1>6, <1>8, <4>1 DEF Vouches, Watched, Player
      <4>. QED BY <4>2
    <3>. QED BY <1>8, <3>1, <3>2, <3>3 DEF Covered
  <2>. QED BY <1>6, <2>1 DEF Covered
<1>. QED BY <1>6, <1>7, <1>8 DEF e

\* What d's applications answered is a report of player p.
Reports(d, p) ==
  \E k \in 1..Len(d.apps) : LET a == d.apps[k] IN
    Player(d.name, a) = p /\ Asked(d, a) /\ Plays(d, a) /\ Tracked(a)

\* A device that was given up is not asked, and an application that plays is not stale
\* and has no bad data.
LEMMA AllAnsweredKeeps ==
  ASSUME NEW d \in DeviceType
  PROVE  /\ AllAnswered(d) \in DeviceType /\ AllAnswered(d).name = d.name
         /\ AllAnswered(d).retries = d.retries /\ AllAnswered(d).connected = d.connected
         /\ Len(AllAnswered(d).apps) = Len(d.apps)
         /\ \A i \in 1..Len(d.apps) : AllAnswered(d).apps[i] = Answered(d, d.apps[i])
         /\ GivenUp(d) => GivenUp(AllAnswered(d))
         /\ \A p, q : q \in PlayerType /\ Covered(d, p, q) => Covered(AllAnswered(d), p, q)
<1>. DEFINE n == Len(d.apps)
            e == AllAnswered(d)
            f == [k \in 1..n |-> Answered(d, d.apps[k])]
<1>1. d.apps \in Seq(AppType) /\ n \in Nat /\ \A i \in 1..n : d.apps[i] \in AppType
  BY DEF DeviceType
<1>2. ASSUME NEW a \in AppType
      PROVE  /\ Answered(d, a) \in AppType /\ Answered(d, a).id = a.id
             /\ d.retries # 0 => Answered(d, a) = a
             /\ \A q \in PlayerType : Fresh(a, q) => Fresh(Answered(d, a), q)
  <2>. DEFINE c == [a EXCEPT !.controlled = TRUE]
              x == Answered(d, a)
  <2>1. /\ c \in AppType /\ c.id = a.id /\ c.stale = a.stale /\ c.bad = a.bad
        /\ a.bad \in Ages
    BY DEF AppType
  <2>2. x \in {a, c, [c EXCEPT !.bad = Never], [c EXCEPT !.bad = 0]} /\ (d.retries # 0 => x = a)
    BY DEF Answered, Asked
  <2>. HIDE DEF c, x
  <2>3. ASSUME NEW bad \in {Never, 0}, NEW y, y = [c EXCEPT !.bad = bad]
        PROVE  y \in AppType /\ y.id = c.id /\ y.stale = c.stale /\ y.bad = bad
    <3>1. bad \in Ages
      BY Limits DEF Ages, Never
    <3>. QED BY <2>1, <2>3, <3>1 DEF AppType
  <2>4. /\ x \in AppType /\ x.id = a.id /\ x.stale = a.stale
        /\ x.bad \in {a.bad, Never, 0}
    BY <2>1, <2>2, <2>3
  <2>5. \A q \in PlayerType : Fresh(a, q) => Fresh(x, q)
    BY <2>1, <2>4 DEF Fresh, PlayerType, Never
  <2>. QED BY <2>2, <2>4, <2>5 DEF x
<1>3. f \in Seq(AppType) /\ Len(f) = n /\ \A i \in 1..n : f[i] = Answered(d, d.apps[i])
  BY <1>1, <1>2
<1>4. e = [d EXCEPT !.apps = f]
  BY DEF AllAnswered
<1>. HIDE DEF e, f
<1>5. /\ e \in DeviceType /\ e.name = d.name /\ e.retries = d.retries /\ Len(e.apps) = n
      /\ e.connected = d.connected
      /\ \A i \in 1..n : e.apps[i] = Answered(d, d.apps[i])
  BY <1>3, <1>4 DEF DeviceType
<1>6. GivenUp(d) => GivenUp(e)
  <2>1. d.retries \in Nat
    BY DEF DeviceType
  <2>2. d.retries >= GiveUp => d.retries # 0
    BY <2>1, Limits
  <2>. QED BY <1>1, <1>2, <1>5, <2>2 DEF GivenUp
<1>7. ASSUME NEW p, NEW q \in PlayerType, Covered(d, p, q)
      PROVE  Covered(e, p, q)
  <2>1. ASSUME NEW j \in 1..n, Player(e.name, e.apps[j]) = p
        PROVE  Fresh(e.apps[j], q) \/ \E k \in 1..n : Vouches(e, e.apps[k], p, q)
    <3>1. Player(d.name, d.apps[j]) = p
      BY <1>1, <1>2, <1>5, <2>1 DEF Player
    <3>2. CASE Fresh(d.apps[j], q)
      BY <1>1, <1>2, <1>5, <3>2
    <3>3. CASE \E k \in 1..n : Vouches(d, d.apps[k], p, q)
      <4>1. PICK k \in 1..n : Vouches(d, d.apps[k], p, q)
        BY <3>3
      <4>2. Vouches(e, e.apps[k], p, q)
        BY <1>1, <1>2, <1>5, <4>1 DEF Vouches, Watched, Player
      <4>. QED BY <4>2
    <3>. QED BY <1>7, <3>1, <3>2, <3>3 DEF Covered
  <2>. QED BY <1>5, <2>1 DEF Covered
<1>. QED BY <1>5, <1>6, <1>7 DEF e

\* The application that reported its player is neither stale nor has it bad data.
LEMMA ReporterIsListed ==
  ASSUME NEW d \in DeviceType, NEW p, Reports(d, p)
  PROVE  \E k \in 1..Len(d.apps) : LET b == AllAnswered(d).apps[k] IN
           Player(d.name, b) = p /\ Watched(b) /\ b.stale = Never /\ b.bad = Never
<1>1. PICK k \in 1..Len(d.apps) :
        Player(d.name, d.apps[k]) = p /\ Asked(d, d.apps[k]) /\ Plays(d, d.apps[k])
  BY DEF Reports
<1>2. d.apps[k] \in AppType
  BY DEF DeviceType
<1>3. AllAnswered(d).apps[k] = Answered(d, d.apps[k])
  BY AllAnsweredKeeps
<1>. DEFINE a == d.apps[k]
            b == [[a EXCEPT !.controlled = TRUE] EXCEPT !.bad = Never]
<1>4. Answered(d, a) = b
  BY <1>1 DEF Answered
<1>5. b.id = a.id /\ b.stale = a.stale /\ b.bad = Never
  BY <1>2 DEF AppType
<1>6. a.stale = Never /\ Watched(a)
  BY <1>1 DEF Asked
<1>7. Player(d.name, b) = Player(d.name, a) /\ Watched(b)
  <2>. HIDE DEF b
  <2>. QED BY <1>5, <1>6 DEF Player, Watched
<1>. HIDE DEF b
<1>. QED BY <1>1, <1>3, <1>4, <1>5, <1>6, <1>7

\* An application of the player ended for long, and none is without fault.
Outlived(d, p) ==
  /\ \E j \in 1..Len(d.apps) : /\ Player(d.name, d.apps[j]) = p
                               /\ d.apps[j].stale > AppGone \/ d.apps[j].bad > AppGone
  /\ \A k \in 1..Len(d.apps) :
       Player(d.name, d.apps[k]) = p => d.apps[k].stale # Never \/ d.apps[k].bad # Never

\* Pruning takes the player of an application that ended for long, never that of one
\* that is neither stale nor has bad data.
LEMMA PrunedKeeps ==
  ASSUME NEW d \in DeviceType, GivenUp(d)
  PROVE  /\ Keeps(d, Pruned(d)) /\ Pruned(d).stays /\ Pruned(d).device.retries = d.retries
         /\ \A p \in Pruned(d).gone : Outlived(d, p)
<1>. DEFINE n == Len(d.apps)
            x == Pruned(d)
<1>1. d.apps \in Seq(AppType) /\ n \in Nat /\ \A i \in 1..n : d.apps[i] \in AppType
  BY DEF DeviceType
<1>2. CASE ~d.connected
  <2>1. x = State(d)
    BY <1>2 DEF Pruned
  <2>2. Keeps(d, State(d))
    BY StateKeeps
  <2>. QED BY <2>1, <2>2 DEF State
<1>3. CASE d.connected
  <2>. DEFINE bare  == {i \in 1..n : Expired(d.apps[i]) /\ ~d.apps[i].controlled}
              stays == {i \in 1..n : ~Expired(d.apps[i]) \/ \E j \in bare : j <= i}
              rest  == Kept(d.apps, stays)
              ended == {a \in ToSet(d.apps) : Expired(a) \/ a.bad > AppGone}
              gone  == {p \in {Player(d.name, a) : a \in ended} : Unclaimed(d, rest, p)}
  <2>1. x = [device |-> [d EXCEPT !.apps = rest], stays |-> TRUE,
             gone |-> IF bare = {} THEN gone ELSE {}, threw |-> bare # {}]
    BY <1>3 DEF Pruned
  <2>2. /\ rest \in Seq(AppType)
        /\ \A k \in 1..Len(rest) : \E i \in stays : rest[k] = d.apps[i]
        /\ \A i \in stays : \E k \in 1..Len(rest) : rest[k] = d.apps[i]
    <3>1. stays \in SUBSET (1..Len(d.apps))
      OBVIOUS
    <3>. HIDE DEF stays
    <3>2. KeptOf(AppType, d.apps, stays, rest)
      BY <1>1, <3>1, KeptProperties
    <3>. HIDE DEF rest
    <3>. QED BY <3>2 DEF KeptOf
  <2>. HIDE DEF rest
  <2>3. /\ x.device = [d EXCEPT !.apps = rest] /\ x.stays = TRUE /\ x.threw = (bare # {})
        /\ x.gone \subseteq gone
    <3>. HIDE DEF gone, bare
    <3>. QED BY <2>1
  <2>. HIDE DEF x
  <2>4. x.device \in DeviceType /\ x.device.name = d.name /\ x.device.retries = d.retries /\ x.device.apps = rest
    BY <2>2, <2>3 DEF DeviceType
  <2>5. GivenUp(x.device)
    <3>1. ASSUME NEW i \in 1..n, ~d.apps[i].controlled PROVE \E k \in 1..Len(rest) : ~rest[k].controlled
      <4>1. i \in stays
        <5>1. i <= i
          BY <1>1
        <5>. QED BY <3>1, <5>1
      <4>2. PICK k \in 1..Len(rest) : rest[k] = d.apps[i]
        BY <2>2, <4>1
      <4>. QED BY <3>1, <4>2
    <3>. QED BY <2>4, <3>1 DEF GivenUp
  <2>6. ASSUME NEW p \in x.gone
        PROVE  /\ p[1] = d.name
               /\ \E j \in 1..n : /\ Player(d.name, d.apps[j]) = p
                                  /\ d.apps[j].stale > AppGone \/ d.apps[j].bad > AppGone
               /\ \A k \in 1..n :
                    Player(d.name, d.apps[k]) = p => d.apps[k].stale # Never \/ d.apps[k].bad # Never
    <3>1. p \in gone
      BY <2>3
    <3>2. PICK a \in ended : p = Player(d.name, a)
      BY <3>1
    <3>3. PICK j \in 1..n : a = d.apps[j]
      BY <1>1, <3>2 DEF ToSet
    <3>4. a.stale > AppGone \/ a.bad > AppGone
      BY <3>2 DEF Expired
    <3>5. ASSUME NEW k \in 1..n, Player(d.name, d.apps[k]) = p, d.apps[k].stale = Never, d.apps[k].bad = Never
          PROVE  FALSE
      <4>1. ~Expired(d.apps[k])
        BY <3>5, Limits DEF Expired, Never
      <4>2. PICK h \in 1..Len(rest) : rest[h] = d.apps[k]
        BY <2>2, <4>1
      <4>3. d.apps[k] \in ToSet(rest)
        BY <2>2, <4>2 DEF ToSet
      <4>4. Unclaimed(d, rest, p)
        BY <3>1
      <4>. QED BY <3>5, <4>3, <4>4 DEF Unclaimed
    <3>6. p[1] = d.name
      BY <3>2 DEF Player
    <3>. QED BY <3>2, <3>3, <3>4, <3>5, <3>6
  <2>7. ASSUME NEW p, NEW q \in PlayerType, Covered(d, p, q)
        PROVE  Covered(x.device, p, q)
    <3>1. ASSUME NEW j \in 1..Len(rest), Player(d.name, rest[j]) = p
          PROVE  Fresh(rest[j], q) \/ \E k \in 1..Len(rest) : Vouches(x.device, rest[k], p, q)
      <4>1. PICK i \in stays : rest[j] = d.apps[i]
        BY <2>2
      <4>2. CASE Fresh(d.apps[i], q)
        BY <4>1, <4>2
      <4>3. CASE \E k \in 1..n : Vouches(d, d.apps[k], p, q)
        <5>1. PICK k \in 1..n : Vouches(d, d.apps[k], p, q)
          BY <4>3
        <5>2. CASE k \in stays
          <6>1. PICK h \in 1..Len(rest) : rest[h] = d.apps[k]
            BY <2>2, <5>2
          <6>2. Vouches(x.device, rest[h], p, q)
            BY <2>4, <5>1, <6>1 DEF Vouches
          <6>. QED BY <6>2
        <5>3. CASE k \notin stays
          \* the one that was heard of is gone: all others ended before it did
          <6>1. d.apps[k].stale > AppGone
            BY <5>3 DEF Expired
          <6>2. d.apps[k].stale \in Ages /\ d.apps[i].stale \in Ages /\ d.apps[i].bad \in Ages /\ q.age \in Nat
            BY <1>1 DEF AppType, PlayerType
          <6>3. q.age > DeadAfter \/ d.apps[k].stale <= q.age
            BY <5>1 DEF Vouches, Fresh
          <6>4. d.apps[i].stale <= d.apps[k].stale /\ d.apps[i].bad <= d.apps[k].stale
            BY <6>1, <6>2, Limits DEF Ages, Never
          <6>5. d.apps[k].stale \in Int /\ d.apps[i].stale \in Int /\ d.apps[i].bad \in Int
            BY <6>2, Limits DEF Ages, Never
          <6>6. q.age > DeadAfter \/ (d.apps[i].stale <= q.age /\ d.apps[i].bad <= q.age)
            <7>. DEFINE u == d.apps[k].stale
                        v == d.apps[i].stale
                        w == d.apps[i].bad
                        z == q.age
            <7>1. /\ u \in Int /\ v \in Int /\ w \in Int /\ z \in Int
                  /\ z > DeadAfter \/ u <= z
                  /\ v <= u /\ w <= u
              BY <6>2, <6>3, <6>4, <6>5
            <7>. HIDE DEF u, v, w, z
            <7>2. z > DeadAfter \/ (v <= z /\ w <= z)
              BY <7>1
            <7>. QED BY <7>2 DEF u, v, w, z
          <6>7. Fresh(d.apps[i], q)
            BY <6>6 DEF Fresh
          <6>. QED BY <4>1, <6>7
        <5>. QED BY <5>2, <5>3
      <4>. QED BY <2>7, <3>1, <4>1, <4>2, <4>3 DEF Covered
    <3>. QED BY <2>4, <3>1 DEF Covered
  <2>8. Keeps(d, x)
    <3>1. x.stays \in BOOLEAN /\ x.threw \in BOOLEAN
      BY <2>3
    <3>. QED BY <2>4, <2>5, <2>6, <2>7, <3>1 DEF Keeps
  <2>9. \A p \in x.gone : Outlived(d, p)
    BY <2>6 DEF Outlived
  <2>. QED BY <2>3, <2>4, <2>8, <2>9 DEF x
<1>. QED BY <1>2, <1>3

-----------------------------------------------------------------------------
(* All devices in turn.                                                       *)

\* A player that one of these turns took, whose device is left as the turn made it.
TakenBy(ds, r, left, p) ==
  \E i \in 1..Len(ds) :
    /\ p \in r[i].gone
    /\ \A k \in 1..Len(left) :
         left[k].name = ds[i].name => left[k] = r[i].device /\ r[i].stays

\* Every device that is left had its turn, or its turn did not come; players are taken
\* by turns that were had only.
Turned(ds, r, ps, out) ==
  /\ out.devices \in Seq(DeviceType) /\ Named(out.devices)
  /\ DOMAIN out.players \subseteq DOMAIN ps
  /\ out.players = [p \in DOMAIN out.players |-> ps[p]]
  /\ \A k \in 1..Len(out.devices) : \E i \in 1..Len(ds) :
       \/ out.devices[k] = ds[i]
       \/ /\ out.devices[k] = r[i].device /\ r[i].stays
          /\ DOMAIN out.players \cap r[i].gone = {}
  /\ \A p \in DOMAIN ps \ DOMAIN out.players : TakenBy(ds, r, out.devices, p)

LEMMA TurnProperties ==
  ASSUME NEW ds \in Seq(DeviceType), Named(ds), NEW r, NEW ps,
         \A i \in 1..Len(ds) : Keeps(ds[i], r[i]),
         NEW out, out = InTurn(ds, r, ps)
  PROVE  Turned(ds, r, ps, out)
<1>. DEFINE n == Len(ds)
            done == {i \in 1..n : \A j \in 1..(i - 1) : ~r[j].threw}
            all == [i \in 1..n |-> IF i \in done THEN r[i].device ELSE ds[i]]
            S == {i \in 1..n : i \in done => r[i].stays}
            G == UNION {r[i].gone : i \in done}
            t == Kept(all, S)
<1>1. out.devices = t /\ out.players = Without(ps, G)
  BY DEF InTurn
<1>2. n \in Nat /\ \A i \in 1..n : ds[i] \in DeviceType
  OBVIOUS
<1>. HIDE DEF done
<1>3. /\ all \in Seq(DeviceType) /\ Len(all) = n
      /\ \A i \in 1..n : all[i].name = ds[i].name /\ (all[i] = r[i].device \/ all[i] = ds[i])
      /\ \A i \in 1..n : i \in done => all[i] = r[i].device
      /\ \A i \in 1..n : i \notin done => all[i] = ds[i]
  BY <1>2 DEF Keeps
<1>. HIDE DEF all
<1>4. S \in SUBSET (1..Len(all))
  BY <1>3
<1>5. \A i \in S : i \in 1..n /\ (i \in done => r[i].stays)
  OBVIOUS
<1>. HIDE DEF S
<1>6. /\ t \in Seq(DeviceType)
      /\ \A k \in 1..Len(t) : \E i \in S : t[k] = all[i]
      /\ \A j, k \in 1..Len(t) : j # k => \E h, i \in S : h # i /\ t[j] = all[h] /\ t[k] = all[i]
  <2>1. KeptOf(DeviceType, all, S, t)
    BY <1>3, <1>4, KeptProperties
  <2>. HIDE DEF t
  <2>. QED BY <2>1 DEF KeptOf
<1>. HIDE DEF t
<1>7. Named(t)
  <2>1. ASSUME NEW j \in 1..Len(t), NEW k \in 1..Len(t), j # k, t[j].name = t[k].name PROVE FALSE
    <3>1. PICK h \in S, i \in S : h # i /\ t[j] = all[h] /\ t[k] = all[i]
      BY <1>6, <2>1
    <3>2. ds[h].name = ds[i].name /\ h \in 1..n /\ i \in 1..n
      BY <1>3, <1>5, <2>1, <3>1
    <3>. QED BY <3>1, <3>2 DEF Named
  <2>. QED BY <2>1 DEF Named
<1>8. /\ DOMAIN out.players = DOMAIN ps \ G
      /\ out.players = [p \in DOMAIN out.players |-> ps[p]]
  BY <1>1 DEF Without
<1>9. ASSUME NEW k \in 1..Len(t)
      PROVE  \E i \in 1..n : \/ t[k] = ds[i]
                             \/ /\ t[k] = r[i].device /\ r[i].stays
                                /\ DOMAIN out.players \cap r[i].gone = {}
  <2>1. PICK i \in S : t[k] = all[i]
    BY <1>6
  <2>2. i \in 1..n
    BY <1>5
  <2>3. CASE i \in done
    <3>1. r[i].gone \subseteq G
      BY <2>3
    <3>. HIDE DEF G
    <3>. QED BY <1>3, <1>5, <1>8, <2>1, <2>2, <2>3, <3>1
  <2>. QED BY <1>3, <2>1, <2>2, <2>3
<1>10. ASSUME NEW p \in DOMAIN ps \ DOMAIN out.players
       PROVE  \E i \in 1..n :
                /\ p \in r[i].gone
                /\ \A k \in 1..Len(t) : t[k].name = ds[i].name => t[k] = r[i].device /\ r[i].stays
  <2>1. PICK i \in done : p \in r[i].gone
    BY <1>8
  <2>2. i \in 1..n
    BY DEF done
  <2>3. ASSUME NEW k \in 1..Len(t), t[k].name = ds[i].name
        PROVE  t[k] = r[i].device /\ r[i].stays
    <3>1. PICK h \in S : t[k] = all[h]
      BY <1>6
    <3>2. h \in 1..n /\ ds[h].name = ds[i].name
      BY <1>3, <1>5, <2>3, <3>1
    <3>3. h = i
      BY <2>2, <3>2 DEF Named
    <3>. QED BY <1>3, <1>5, <2>1, <2>2, <3>1, <3>3
  <2>. QED BY <2>1, <2>2, <2>3
<1>. HIDE DEF n, G
<1>11. /\ out.devices \in Seq(DeviceType) /\ Named(out.devices)
       /\ DOMAIN out.players \subseteq DOMAIN ps
  BY <1>1, <1>6, <1>7, <1>8
<1>12. \A k \in 1..Len(out.devices) : \E i \in 1..n :
         \/ out.devices[k] = ds[i]
         \/ /\ out.devices[k] = r[i].device /\ r[i].stays
            /\ DOMAIN out.players \cap r[i].gone = {}
  BY <1>1, <1>9
<1>13. ASSUME NEW p \in DOMAIN ps \ DOMAIN out.players
       PROVE  TakenBy(ds, r, out.devices, p)
  BY <1>1, <1>10 DEF TakenBy, n
<1>. QED BY <1>8, <1>11, <1>12, <1>13 DEF n, Turned

\* A turn of all devices keeps what the invariant says of devices and players.
LEMMA TurnKeeps ==
  ASSUME NEW ds, NEW ps, Sound(ds, ps), ps \in [DOMAIN ps -> PlayerType],
         NEW r, \A i \in 1..Len(ds) : Keeps(ds[i], r[i]),
         NEW out, out = InTurn(ds, r, ps)
  PROVE  /\ Sound(out.devices, out.players)
         /\ out.players \in [DOMAIN out.players -> PlayerType]
         /\ \A p \in DOMAIN out.players : p \in DOMAIN ps /\ out.players[p] = ps[p]
<1>0. /\ ds \in Seq(DeviceType) /\ Named(ds) /\ \A i \in 1..Len(ds) : GivenUp(ds[i])
      /\ \A i \in 1..Len(ds) : \A p \in DOMAIN ps : Covered(ds[i], p, ps[p])
  BY DEF Sound
<1>. DEFINE ds2 == out.devices
            ps2 == out.players
<1>1. /\ ds2 \in Seq(DeviceType) /\ Named(ds2)
      /\ DOMAIN ps2 \subseteq DOMAIN ps
      /\ ps2 = [p \in DOMAIN ps2 |-> ps[p]]
      /\ \A k \in 1..Len(ds2) : \E i \in 1..Len(ds) :
           \/ ds2[k] = ds[i]
           \/ ds2[k] = r[i].device /\ r[i].stays /\ DOMAIN ps2 \cap r[i].gone = {}
  <2>1. Turned(ds, r, ps, out)
    BY <1>0, TurnProperties
  <2>. QED BY <2>1 DEF Turned
<1>. HIDE DEF ds2, ps2
<1>2. \A p \in DOMAIN ps2 : p \in DOMAIN ps /\ ps2[p] = ps[p] /\ ps[p] \in PlayerType
  BY <1>1
<1>3. ps2 \in [DOMAIN ps2 -> PlayerType]
  BY <1>1, <1>2
<1>4. ASSUME NEW k \in 1..Len(ds2)
      PROVE  GivenUp(ds2[k]) /\ \A p \in DOMAIN ps2 : Covered(ds2[k], p, ps2[p])
  <2>1. PICK i \in 1..Len(ds) :
          \/ ds2[k] = ds[i]
          \/ ds2[k] = r[i].device /\ r[i].stays /\ DOMAIN ps2 \cap r[i].gone = {}
    BY <1>1
  <2>2. CASE ds2[k] = ds[i]
    BY <1>0, <1>2, <2>2
  <2>3. CASE ds2[k] = r[i].device /\ r[i].stays /\ DOMAIN ps2 \cap r[i].gone = {}
    <3>1. Keeps(ds[i], r[i])
      OBVIOUS
    <3>2. GivenUp(ds2[k])
      BY <2>3, <3>1 DEF Keeps
    <3>3. ASSUME NEW p \in DOMAIN ps2 PROVE Covered(ds2[k], p, ps2[p])
      <4>1. Covered(ds[i], p, ps2[p]) /\ ps2[p] \in PlayerType /\ p \notin r[i].gone
        BY <1>0, <1>2, <2>3
      <4>. QED BY <2>3, <3>1, <4>1 DEF Keeps
    <3>. QED BY <3>2, <3>3
  <2>. QED BY <2>1, <2>2, <2>3
<1>5. Sound(ds2, ps2)
  BY <1>1, <1>4 DEF Sound
<1>. QED BY <1>2, <1>3, <1>5 DEF ds2, ps2

\* A player that is not left belongs to a device that had its turn.
LEMMA TurnLoses ==
  ASSUME NEW ds \in Seq(DeviceType), Named(ds),
         NEW r, \A i \in 1..Len(ds) : Keeps(ds[i], r[i]),
         NEW ps, NEW out, out = InTurn(ds, r, ps),
         NEW p \in DOMAIN ps \ DOMAIN out.players
  PROVE  \E i \in 1..Len(ds) :
           /\ p \in r[i].gone /\ p[1] = ds[i].name
           /\ \A k \in 1..Len(out.devices) : out.devices[k].name = p[1] => out.devices[k] = r[i].device
<1>1. TakenBy(ds, r, out.devices, p)
  <2>1. Turned(ds, r, ps, out)
    BY TurnProperties
  <2>. QED BY <2>1 DEF Turned
<1>2. PICK i \in 1..Len(ds) :
        /\ p \in r[i].gone
        /\ \A k \in 1..Len(out.devices) :
             out.devices[k].name = ds[i].name => out.devices[k] = r[i].device /\ r[i].stays
  BY <1>1 DEF TakenBy
<1>3. p[1] = ds[i].name
  BY <1>2 DEF Keeps
<1>. QED BY <1>2, <1>3

-----------------------------------------------------------------------------
(* The players.                                                               *)

\* A player that is reported is so by the device of its key.
LEMMA ReportingReports ==
  ASSUME CastTypeOK, NEW p \in Reporting
  PROVE  \E i \in 1..Len(devices) : p[1] = devices[i].name /\ Reports(devices[i], p)
<1>1. PICK d \in ToSet(devices) : \E a \in ToSet(d.apps) :
        p = Player(d.name, a) /\ Asked(d, a) /\ Plays(d, a) /\ Tracked(a)
  BY DEF Reporting
<1>2. PICK i \in 1..Len(devices) : d = devices[i]
  BY DEF ToSet, CastTypeOK
<1>3. d.apps \in Seq(AppType)
  <2>1. devices \in Seq(DeviceType)
    BY DEF CastTypeOK
  <2>2. d \in DeviceType
    BY <1>2, <2>1
  <2>. QED BY <2>2 DEF DeviceType
<1>4. PICK a \in ToSet(d.apps) : p = Player(d.name, a) /\ Asked(d, a) /\ Plays(d, a) /\ Tracked(a)
  BY <1>1
<1>5. PICK k \in 1..Len(d.apps) : a = d.apps[k]
  BY <1>3 DEF ToSet
<1>. QED BY <1>2, <1>4, <1>5 DEF Reports, Player

\* After a poll players that were heard of are young, and for those that are silent for
\* long discovery was tried.
LEMMA ProcessedProperties ==
  ASSUME CastTypeOK, \A p \in DOMAIN players : Tried(players[p], 1), NEW handed \in BOOLEAN,
         NEW ps, ps = Processed(handed)
  PROVE  /\ ps \in [DOMAIN ps -> PlayerType]
         /\ Reporting \subseteq DOMAIN ps
         /\ \A p \in DOMAIN players : players[p].age <= DeadAfter => p \in DOMAIN ps
         /\ \A p \in DOMAIN ps : Tried(ps[p], 0)
         /\ \A p \in Reporting : ps[p].age = 0
         /\ \A p \in DOMAIN ps \ Reporting : p \in DOMAIN players /\ ps[p].age = players[p].age
<1>1. DOMAIN ps = {p \in DOMAIN players : players[p].age <= DeadAfter} \cup Reporting
  BY DEF Processed
<1>2. ASSUME NEW q \in PlayerType
      PROVE  Heard(q) \in PlayerType /\ Heard(q).age = 0 /\ Tried(Heard(q), 0)
  BY Limits DEF PlayerType, Heard, Tried
<1>3. NewPlayer \in PlayerType
  BY DEF NewPlayer, PlayerType
<1>4. ASSUME NEW q \in PlayerType, Tried(q, 1)
      PROVE  /\ Silent(q, handed) \in PlayerType /\ Silent(q, handed).age = q.age
             /\ Tried(Silent(q, handed), 0)
  <2>1. CASE q.age <= StaleAfter
    BY <1>4, <2>1, Limits DEF PlayerType, Silent, Tried
  <2>2. CASE ~(q.age <= StaleAfter)
    <3>. DEFINE x == Silent(q, handed)
    <3>1. x = [q EXCEPT !.tried = TRUE,
                        !.found = q.found \/ (handed /\ ~q.tried /\ q.heard >= Enough),
                        !.lost = q.lost \/ (~handed /\ ~q.tried)]
      BY <2>2 DEF Silent
    <3>. HIDE DEF x
    <3>2. /\ x \in PlayerType /\ x.age = q.age /\ x.tried = TRUE /\ x.heard = q.heard
          /\ x.found = (q.found \/ (handed /\ ~q.tried /\ q.heard >= Enough))
          /\ x.lost = (q.lost \/ (~handed /\ ~q.tried))
      BY <3>1 DEF PlayerType
    <3>. QED BY <1>4, <3>2 DEF Tried, x
  <2>. QED BY <2>1, <2>2
<1>5. \A p \in DOMAIN players : players[p] \in PlayerType
  BY DEF CastTypeOK
<1>6. ASSUME NEW p \in Reporting
      PROVE  ps[p] \in PlayerType /\ ps[p].age = 0 /\ Tried(ps[p], 0)
  <2>1. ps[p] = Heard(IF p \in DOMAIN players THEN players[p] ELSE NewPlayer)
    BY <1>1 DEF Processed
  <2>. QED BY <1>2, <1>3, <1>5, <2>1
<1>7. ASSUME NEW p \in DOMAIN ps \ Reporting
      PROVE  /\ ps[p] \in PlayerType /\ Tried(ps[p], 0)
             /\ p \in DOMAIN players /\ ps[p].age = players[p].age
  <2>1. p \in DOMAIN players /\ ps[p] = Silent(players[p], handed)
    BY <1>1 DEF Processed
  <2>. QED BY <1>4, <1>5, <2>1
<1>8. ps \in [DOMAIN ps -> PlayerType]
  <2>1. \A p \in DOMAIN ps : ps[p] \in PlayerType
    BY <1>6, <1>7
  <2>2. ps = [p \in DOMAIN ps |-> ps[p]]
    BY DEF Processed
  <2>. QED BY <2>1, <2>2
<1>. QED BY <1>1, <1>6, <1>7, <1>8

\* Only the age of a player matters to Covered.
LEMMA SameAge ==
  ASSUME NEW d, NEW p, NEW q, NEW x, q.age = x.age
  PROVE  Covered(d, p, q) <=> Covered(d, p, x)
  BY DEF Covered, Vouches, Fresh

-----------------------------------------------------------------------------
(* The invariant holds.                                                       *)

\* Where a device is.
LEMMA IndexOfKnown ==
  ASSUME CastTypeOK, NEW d \in Known
  PROVE  IndexOf(d) \in 1..Len(devices) /\ devices[IndexOf(d)].name = d
<1>1. \E i \in 1..Len(devices) : devices[i].name = d
  BY DEF Known
<1>. QED BY <1>1 DEF IndexOf

\* One device changes, and its players are covered as before.
LEMMA ReplacedKeeps ==
  ASSUME NEW ds, NEW ps, Sound(ds, ps), NEW i \in 1..Len(ds),
         NEW e \in DeviceType, e.name = ds[i].name, GivenUp(e),
         \A p \in DOMAIN ps : Covered(e, p, ps[p])
  PROVE  Sound([ds EXCEPT ![i] = e], ps)
<1>. DEFINE t == [ds EXCEPT ![i] = e]
<1>1. ds \in Seq(DeviceType) /\ i \in 1..Len(ds)
  BY DEF Sound
<1>2. t \in Seq(DeviceType) /\ Len(t) = Len(ds)
  BY <1>1
<1>3. \A j \in 1..Len(ds) : t[j] = IF j = i THEN e ELSE ds[j]
  BY <1>1
<1>. HIDE DEF t
<1>4. Named(t)
  BY <1>2, <1>3 DEF Named, Sound
<1>5. \A j \in 1..Len(t) : GivenUp(t[j]) /\ \A p \in DOMAIN ps : Covered(t[j], p, ps[p])
  BY <1>2, <1>3 DEF Sound
<1>. QED BY <1>2, <1>4, <1>5 DEF Sound, t

\* A device whose applications are as they were is covered as it was.
LEMMA SameAppsKeeps ==
  ASSUME NEW ds, NEW ps, Sound(ds, ps), NEW i \in 1..Len(ds),
         NEW e \in DeviceType, e.name = ds[i].name, e.apps = ds[i].apps,
         e.retries = ds[i].retries \/ e.retries = 0
  PROVE  Sound([ds EXCEPT ![i] = e], ps)
<1>1. \A p \in DOMAIN ps : Covered(e, p, ps[p])
  BY SameCover DEF Sound
<1>2. GivenUp(e)
  BY Limits DEF GivenUp, Sound
<1>. QED BY <1>1, <1>2, ReplacedKeeps

\* A device that is new has no applications.
LEMMA AddedKeeps ==
  ASSUME CastInv, NEW d \in Devices, Connected(d)
  PROVE  Sound(devices', players) /\ devices' \in Seq(DeviceType)
<1>. DEFINE new == [name |-> d, connected |-> TRUE, retries |-> 0, apps |-> <<>>]
<1>1. new \in DeviceType /\ new.name = d /\ new.retries = 0 /\ Len(new.apps) = 0
  BY DEF DeviceType
<1>2. devices' = IF d \in Known THEN [devices EXCEPT ![IndexOf(d)] = new] ELSE Append(devices, new)
  BY DEF Connected
<1>. HIDE DEF new
<1>3. Sound(devices, players) /\ devices \in Seq(DeviceType) /\ CastTypeOK
  BY DEF CastInv, CastTypeOK
<1>4. GivenUp(new) /\ \A p \in DOMAIN players : Covered(new, p, players[p])
  BY <1>1, Limits DEF GivenUp, Covered
<1>5. CASE d \in Known
  <2>1. IndexOf(d) \in 1..Len(devices) /\ devices[IndexOf(d)].name = d
    BY <1>3, <1>5, IndexOfKnown
  <2>2. Sound([devices EXCEPT ![IndexOf(d)] = new], players)
    BY <1>1, <1>3, <1>4, <2>1, ReplacedKeeps
  <2>. QED BY <1>2, <1>5, <2>2 DEF Sound
<1>6. CASE d \notin Known
  <2>. DEFINE t == Append(devices, new)
              n == Len(devices)
  <2>1. n \in Nat /\ t \in Seq(DeviceType) /\ Len(t) = n + 1 /\ t[n + 1] = new
        /\ \A j \in 1..n : t[j] = devices[j]
    BY <1>1, <1>3
  <2>2. \A j \in 1..n : devices[j].name # d
    BY <1>6 DEF Known
  <2>. HIDE DEF t, n
  <2>3. \A j \in 1..Len(t) : j = n + 1 \/ j \in 1..n
    BY <2>1
  <2>4. /\ \A j, k \in 1..n : devices[j].name = devices[k].name => j = k
        /\ \A j \in 1..n : GivenUp(devices[j])
        /\ \A j \in 1..n : \A p \in DOMAIN players : Covered(devices[j], p, players[p])
    BY <1>3 DEF Sound, Named, n
  <2>5. Named(t)
    BY <1>1, <2>1, <2>2, <2>3, <2>4 DEF Named
  <2>6. \A j \in 1..Len(t) : GivenUp(t[j]) /\ \A p \in DOMAIN players : Covered(t[j], p, players[p])
    BY <1>4, <2>1, <2>3, <2>4
  <2>7. Sound(t, players)
    BY <2>1, <2>5, <2>6 DEF Sound
  <2>. QED BY <1>2, <1>6, <2>1, <2>7 DEF t
<1>. QED BY <1>5, <1>6

\* The turns of a reconnection that fails.
Attempt(r) ==
  /\ \A i \in 1..Len(devices) : Keeps(devices[i], r[i])
  /\ \A i \in 1..Len(devices) : r[i].gone # {} => r[i].device.retries >= GiveUp
  /\ devices' = InTurn(devices, r, players).devices
  /\ players' = InTurn(devices, r, players).players

LEMMA ReconnectingKeeps ==
  ASSUME CastInv, NEW d \in Devices, Reconnecting(d)
  PROVE  \E r : Attempt(r)
<1>. DEFINE r == [i \in 1..Len(devices) |->
                    IF i = IndexOf(d) THEN Failed(devices[i]) ELSE State(devices[i])]
<1>1. devices \in Seq(DeviceType) /\ \A i \in 1..Len(devices) : GivenUp(devices[i])
  BY DEF CastInv, Sound
<1>2. devices' = InTurn(devices, r, players).devices /\ players' = InTurn(devices, r, players).players
  BY DEF Reconnecting
<1>3. ASSUME NEW i \in 1..Len(devices)
      PROVE  Keeps(devices[i], r[i]) /\ (r[i].gone # {} => r[i].device.retries >= GiveUp)
  <2>1. devices[i] \in DeviceType /\ GivenUp(devices[i])
    BY <1>1
  <2>2. CASE i = IndexOf(d)
    <3>1. r[i] = Failed(devices[i])
      BY <2>2
    <3>. HIDE DEF r
    <3>. QED BY <2>1, <3>1, FailedKeeps
  <2>3. CASE i # IndexOf(d)
    <3>1. r[i] = State(devices[i])
      BY <2>3
    <3>. HIDE DEF r
    <3>2. Keeps(devices[i], State(devices[i])) /\ State(devices[i]).gone = {}
      BY <2>1, StateKeeps
    <3>. QED BY <3>1, <3>2
  <2>. QED BY <2>2, <2>3
<1>. HIDE DEF r
<1>4. Attempt(r)
  BY <1>2, <1>3 DEF Attempt
<1>. QED BY <1>4

\* The turns of the first half of a poll.
LEMMA RefreshTurns ==
  ASSUME CastInv, Refresh
  PROVE  \E ds, ps, r :
           /\ Sound(ds, ps) /\ ps \in [DOMAIN ps -> PlayerType] /\ DOMAIN ps = DOMAIN players
           /\ \A p \in DOMAIN ps : Tried(ps[p], 1)
           /\ \A i \in 1..Len(ds) : Keeps(ds[i], r[i])
           /\ \A i \in 1..Len(ds) : r[i].gone # {} => r[i].device.retries >= GiveUp
           /\ devices' = InTurn(ds, r, ps).devices
           /\ players' = InTurn(ds, r, ps).players
<1>. DEFINE n == Len(devices)
            ds == [i \in 1..n |-> Aged(devices[i])]
            ps == [p \in DOMAIN players |-> [players[p] EXCEPT !.age = Older(@, DeadAfter)]]
            r == [i \in 1..Len(ds) |-> Refreshed(ds[i])]
<1>1. CastTypeOK /\ Sound(devices, players) /\ \A p \in DOMAIN players : Tried(players[p], 0)
  BY DEF CastInv, Refresh
<1>2. /\ devices \in Seq(DeviceType) /\ n \in Nat
      /\ \A i \in 1..n : devices[i] \in DeviceType /\ GivenUp(devices[i])
      /\ \A p \in DOMAIN players : players[p] \in PlayerType
  BY <1>1 DEF Sound, CastTypeOK
<1>3. /\ \A i \in 1..n : ds[i] = Aged(devices[i])
      /\ ds \in Seq(DeviceType) /\ Len(ds) = n
  BY <1>2, AgedKeeps
<1>4. ASSUME NEW q \in PlayerType, NEW x, x = [q EXCEPT !.age = Older(@, DeadAfter)]
      PROVE  x \in PlayerType /\ (Tried(q, 0) => Tried(x, 1))
  <2>1. /\ x.age = Older(q.age, DeadAfter) /\ x.tried = q.tried /\ x.heard = q.heard
        /\ x.found = q.found /\ x.lost = q.lost /\ q.age \in Nat
    BY <1>4 DEF PlayerType
  <2>2. Older(q.age, DeadAfter) \in Nat
        /\ (Older(q.age, DeadAfter) > StaleAfter + 1 => q.age > StaleAfter + 0)
    BY <2>1, Limits DEF Older
  <2>3. x \in PlayerType
    BY <1>4, <2>2 DEF PlayerType
  <2>. QED BY <2>1, <2>2, <2>3 DEF Tried
<1>5. /\ DOMAIN ps = DOMAIN players
      /\ \A p \in DOMAIN players : ps[p] = [players[p] EXCEPT !.age = Older(@, DeadAfter)]
  OBVIOUS
<1>6. ps \in [DOMAIN ps -> PlayerType] /\ \A p \in DOMAIN ps : Tried(ps[p], 1)
  BY <1>1, <1>2, <1>4
<1>7. \A i \in 1..n : r[i] = Refreshed(ds[i])
  BY <1>3
<1>8. devices' = InTurn(ds, r, ps).devices /\ players' = InTurn(ds, r, ps).players
  BY DEF Refresh
<1>. HIDE DEF ds, ps, r
<1>9. ASSUME NEW i \in 1..n
      PROVE  /\ GivenUp(ds[i]) /\ ds[i] \in DeviceType /\ ds[i].name = devices[i].name
             /\ \A p \in DOMAIN ps : Covered(ds[i], p, ps[p])
  <2>1. ds[i] = Aged(devices[i]) /\ devices[i] \in DeviceType /\ GivenUp(devices[i])
    BY <1>2, <1>3
  <2>2. ASSUME NEW p \in DOMAIN ps PROVE Covered(Aged(devices[i]), p, ps[p])
    <3>1. Covered(devices[i], p, players[p]) /\ players[p] \in PlayerType
      BY <1>1, <1>2, <1>5 DEF Sound
    <3>2. Covered(Aged(devices[i]), p, [players[p] EXCEPT !.age = Older(@, DeadAfter)])
      BY <2>1, <3>1, AgedKeeps
    <3>. QED BY <1>5, <3>2
  <2>3. GivenUp(ds[i]) /\ ds[i] \in DeviceType /\ ds[i].name = devices[i].name
    BY <2>1, AgedKeeps
  <2>. QED BY <2>1, <2>2, <2>3
<1>10. Named(ds)
  BY <1>1, <1>3, <1>9 DEF Named, Sound
<1>11. Sound(ds, ps)
  BY <1>3, <1>9, <1>10 DEF Sound
<1>12. ASSUME NEW i \in 1..n
       PROVE  Keeps(ds[i], r[i]) /\ (r[i].gone # {} => r[i].device.retries >= GiveUp)
  BY <1>1, <1>7, <1>9, RefreshedKeeps
<1>. QED BY <1>3, <1>5, <1>6, <1>8, <1>11, <1>12

\* What the devices answered at a poll, and the turns of its second half.
Answers == [i \in 1..Len(devices) |-> AllAnswered(devices[i])]
Turns == [i \in 1..Len(Answers) |-> Pruned(Answers[i])]

LEMMA AnswersSound ==
  ASSUME CastInv, NEW handed \in BOOLEAN, NEW ps, ps = Processed(handed)
  PROVE  Sound(Answers, ps)
<1>1. CastTypeOK /\ Sound(devices, players) /\ \A p \in DOMAIN players : Tried(players[p], 1)
  <2>1. \A p \in DOMAIN players : players[p] \in PlayerType
    BY DEF CastInv, CastTypeOK
  <2>2. ASSUME NEW q \in PlayerType, NEW late \in {0, 1}, Tried(q, late) PROVE Tried(q, 1)
    BY <2>2, Limits DEF Tried, PlayerType
  <2>. QED BY <2>1, <2>2 DEF CastInv
<1>2. /\ devices \in Seq(DeviceType) /\ Len(devices) \in Nat /\ Named(devices)
      /\ \A i \in 1..Len(devices) : devices[i] \in DeviceType /\ GivenUp(devices[i])
      /\ \A p \in DOMAIN players : players[p] \in PlayerType
  BY <1>1 DEF Sound, CastTypeOK
<1>3. /\ Answers \in Seq(DeviceType) /\ Len(Answers) = Len(devices)
      /\ \A i \in 1..Len(devices) : Answers[i] = AllAnswered(devices[i])
  BY <1>2, AllAnsweredKeeps DEF Answers
<1>4. /\ Reporting \subseteq DOMAIN ps
      /\ \A p \in Reporting : ps[p].age = 0
      /\ \A p \in DOMAIN ps \ Reporting : p \in DOMAIN players /\ ps[p].age = players[p].age
      /\ ps \in [DOMAIN ps -> PlayerType]
  BY <1>1, ProcessedProperties
<1>5. ASSUME NEW i \in 1..Len(devices)
      PROVE  /\ GivenUp(Answers[i]) /\ Answers[i].name = devices[i].name
             /\ Len(Answers[i].apps) = Len(devices[i].apps)
             /\ \A p, q : q \in PlayerType /\ Covered(devices[i], p, q) => Covered(Answers[i], p, q)
  BY <1>2, <1>3, AllAnsweredKeeps
<1>6. ASSUME NEW i \in 1..Len(devices), NEW p \in DOMAIN ps
      PROVE  Covered(Answers[i], p, ps[p])
  <2>1. CASE p \in Reporting
    <3>1. PICK h \in 1..Len(devices) : p[1] = devices[h].name /\ Reports(devices[h], p)
      BY <1>1, <2>1, ReportingReports
    <3>2. CASE h = i
      <4>1. PICK k \in 1..Len(devices[i].apps) : LET b == Answers[i].apps[k] IN
              Player(devices[i].name, b) = p /\ Watched(b) /\ b.stale = Never /\ b.bad = Never
        BY <1>2, <1>3, <3>1, <3>2, ReporterIsListed
      <4>2. ps[p].age = 0
        BY <1>4, <2>1
      <4>3. Vouches(Answers[i], Answers[i].apps[k], p, ps[p])
        BY <1>5, <4>1, <4>2 DEF Vouches, Fresh, Never
      <4>. QED BY <1>5, <4>3 DEF Covered
    <3>3. CASE h # i
      <4>1. devices[i].name # p[1]
        BY <1>2, <3>1, <3>3 DEF Named
      <4>. QED BY <1>5, <4>1 DEF Covered, Player
    <3>. QED BY <3>2, <3>3
  <2>2. CASE p \notin Reporting
    <3>1. p \in DOMAIN players /\ ps[p].age = players[p].age
      BY <1>4, <2>2
    <3>2. Covered(devices[i], p, players[p]) /\ players[p] \in PlayerType
      BY <1>1, <1>2, <3>1 DEF Sound
    <3>3. Covered(Answers[i], p, players[p])
      BY <1>5, <3>2
    <3>. QED BY <3>1, <3>3, SameAge
  <2>. QED BY <2>1, <2>2
<1>7. Named(Answers)
  BY <1>2, <1>3, <1>5 DEF Named
<1>. QED BY <1>3, <1>5, <1>6, <1>7 DEF Sound

\* The turns of the second half of a poll.
LEMMA ReportTurns ==
  ASSUME CastInv, Report
  PROVE  \E ps :
           /\ Sound(Answers, ps) /\ ps \in [DOMAIN ps -> PlayerType]
           /\ \A p \in DOMAIN ps : Tried(ps[p], 0)
           /\ Reporting \subseteq DOMAIN ps
           /\ \A p \in DOMAIN players : players[p].age <= DeadAfter => p \in DOMAIN ps
           /\ \A i \in 1..Len(Answers) : Keeps(Answers[i], Turns[i])
           /\ devices' = InTurn(Answers, Turns, ps).devices
           /\ players' = InTurn(Answers, Turns, ps).players
<1>. DEFINE handed == ~\E i \in 1..Len(Answers) : Turns[i].threw
            ps == Processed(handed)
<1>1. /\ devices' = InTurn(Answers, Turns, ps).devices
      /\ players' = InTurn(Answers, Turns, ps).players
  BY DEF Report, Answers, Turns
<1>2. handed \in BOOLEAN
  OBVIOUS
<1>. HIDE DEF handed
<1>3. CastTypeOK /\ \A p \in DOMAIN players : Tried(players[p], 1)
  BY DEF CastInv, Report
<1>4. /\ ps \in [DOMAIN ps -> PlayerType] /\ Reporting \subseteq DOMAIN ps
      /\ \A p \in DOMAIN players : players[p].age <= DeadAfter => p \in DOMAIN ps
      /\ \A p \in DOMAIN ps : Tried(ps[p], 0)
  BY <1>2, <1>3, ProcessedProperties
<1>5. Sound(Answers, ps)
  BY <1>2, AnswersSound
<1>6. ASSUME NEW i \in 1..Len(Answers) PROVE Keeps(Answers[i], Turns[i])
  <2>1. Answers[i] \in DeviceType /\ GivenUp(Answers[i])
    BY <1>5 DEF Sound
  <2>2. Turns[i] = Pruned(Answers[i])
    BY DEF Turns
  <2>. QED BY <2>1, <2>2, PrunedKeeps
<1>. HIDE DEF ps
<1>. QED BY <1>1, <1>4, <1>5, <1>6

\* A change outside keeps the type of what is outside.
LEMMA ChangeKeeps ==
  ASSUME CastTypeOK, Change
  PROVE  /\ world' \in [Devices -> WorldType] /\ \A d \in Devices : IsFiniteSet(world'[d].running)
         /\ changes' \in Nat
<1>. DEFINE OK(w) == w \in WorldType /\ IsFiniteSet(w.running)
<1>1. \A d \in Devices : world[d] \in WorldType /\ OK(world[d])
  BY DEF CastTypeOK
<1>2. PICK d \in Devices, s \in Sessions :
       \/ world' = [world EXCEPT ![d].up = ~@]
       \/ world' = [world EXCEPT ![d].running = @ \cup {s}]
       \/ world' = [world EXCEPT ![d].running = @ \ {s}, ![d].playing = @ \ {s}]
       \/ world' = [world EXCEPT ![d].playing = @ \cup {s}]
       \/ world' = [world EXCEPT ![d].playing = @ \ {s}]
  BY DEF Change
<1>. DEFINE w == world[d]
<1>3. \E v : world' = [world EXCEPT ![d] = v] /\ OK(v)
  <2>0. OK(w) /\ w.up \in BOOLEAN /\ w.running \in SUBSET Sessions /\ w.playing \in SUBSET Sessions
    BY <1>1 DEF WorldType
  <2>1. CASE world' = [world EXCEPT ![d].up = ~@]
    <3>1. OK([w EXCEPT !.up = ~@])
      BY <2>0 DEF WorldType
    <3>. QED BY <2>1, <3>1
  <2>2. CASE world' = [world EXCEPT ![d].running = @ \cup {s}]
    <3>1. IsFiniteSet(w.running \cup {s})
      BY <2>0, FS_AddElement
    <3>2. OK([w EXCEPT !.running = @ \cup {s}])
      BY <2>0, <3>1 DEF WorldType
    <3>. QED BY <2>2, <3>2
  <2>3. CASE world' = [world EXCEPT ![d].running = @ \ {s}, ![d].playing = @ \ {s}]
    <3>. DEFINE x == [w EXCEPT !.running = w.running \ {s}]
                v == [x EXCEPT !.playing = w.playing \ {s}]
    <3>1. IsFiniteSet(w.running \ {s})
      BY <2>0, FS_RemoveElement
    <3>2. OK(v)
      BY <2>0, <3>1 DEF WorldType
    <3>3. world' = [world EXCEPT ![d] = v]
      BY <1>1, <2>3 DEF CastTypeOK, WorldType
    <3>. QED BY <3>2, <3>3
  <2>4. CASE world' = [world EXCEPT ![d].playing = @ \cup {s}]
    <3>1. OK([w EXCEPT !.playing = @ \cup {s}])
      BY <2>0 DEF WorldType
    <3>. QED BY <2>4, <3>1
  <2>5. CASE world' = [world EXCEPT ![d].playing = @ \ {s}]
    <3>1. OK([w EXCEPT !.playing = @ \ {s}])
      BY <2>0 DEF WorldType
    <3>. QED BY <2>5, <3>1
  <2>. QED BY <1>2, <2>1, <2>2, <2>3, <2>4, <2>5
<1>4. PICK v : world' = [world EXCEPT ![d] = v] /\ OK(v)
  BY <1>3
<1>5. changes' \in Nat
  BY DEF Change, CastTypeOK
<1>. QED BY <1>1, <1>4, <1>5 DEF CastTypeOK

\* Nothing was found yet.
LEMMA CastInit == Init => CastInv
<1>. SUFFICES ASSUME Init PROVE CastInv
  OBVIOUS
<1>1. devices = <<>> /\ players = <<>> /\ DOMAIN players = {} /\ Len(devices) = 0 /\ devices \in Seq(DeviceType)
  BY DEF Init
<1>2. world \in [Devices -> WorldType] /\ \A d \in Devices : IsFiniteSet(world[d].running)
  BY FS_EmptySet DEF Init, WorldType
<1>3. players \in [DOMAIN players -> PlayerType]
  BY <1>1
<1>4. CastTypeOK
  BY <1>1, <1>2, <1>3 DEF Init, CastTypeOK
<1>5. Sound(devices, players)
  BY <1>1 DEF Sound, Named
<1>. QED BY <1>1, <1>4, <1>5 DEF CastInv

\* Whatever happens to devices and players, the invariant and the types that are not
\* about them stay.
LEMMA CastStep ==
  ASSUME CastInv, [Next]_vars
  PROVE  CastInv'
<1>1. CastTypeOK /\ Sound(devices, players) /\ devices \in Seq(DeviceType)
  BY DEF CastInv, CastTypeOK
<1>2. \A p \in DOMAIN players : Tried(players[p], IF refreshed THEN 1 ELSE 0)
  BY DEF CastInv
<1>3. CASE UNCHANGED vars
  <2>1. CastTypeOK'
    BY <1>1, <1>3 DEF CastTypeOK, vars, outside
  <2>. QED BY <1>1, <1>2, <1>3, <2>1 DEF CastInv, vars
<1>4. CASE Change
  <2>1. UNCHANGED <<devices, connecting, strays, players, refreshed>>
    BY <1>4 DEF Change
  <2>2. CastTypeOK'
    BY <1>1, <1>4, <2>1, ChangeKeeps DEF CastTypeOK
  <2>. QED BY <1>1, <1>2, <2>1, <2>2 DEF CastInv
<1>5. CASE Refresh
  <2>1. PICK ds, ps, r :
          /\ Sound(ds, ps) /\ ps \in [DOMAIN ps -> PlayerType]
          /\ \A p \in DOMAIN ps : Tried(ps[p], 1)
          /\ \A i \in 1..Len(ds) : Keeps(ds[i], r[i])
          /\ devices' = InTurn(ds, r, ps).devices /\ players' = InTurn(ds, r, ps).players
    BY <1>5, RefreshTurns
  <2>2. /\ Sound(devices', players') /\ players' \in [DOMAIN players' -> PlayerType]
        /\ \A p \in DOMAIN players' : p \in DOMAIN ps /\ players'[p] = ps[p]
    BY <2>1, TurnKeeps
  <2>3. refreshed' = TRUE /\ UNCHANGED <<outside, connecting, strays>>
    BY <1>5 DEF Refresh
  <2>4. CastTypeOK'
    BY <1>1, <2>2, <2>3 DEF CastTypeOK, Sound, outside
  <2>. QED BY <2>1, <2>2, <2>3, <2>4 DEF CastInv
<1>6. CASE Report
  <2>1. PICK ps :
          /\ Sound(Answers, ps) /\ ps \in [DOMAIN ps -> PlayerType]
          /\ \A p \in DOMAIN ps : Tried(ps[p], 0)
          /\ \A i \in 1..Len(Answers) : Keeps(Answers[i], Turns[i])
          /\ devices' = InTurn(Answers, Turns, ps).devices
          /\ players' = InTurn(Answers, Turns, ps).players
    BY <1>6, ReportTurns
  <2>2. /\ Sound(devices', players') /\ players' \in [DOMAIN players' -> PlayerType]
        /\ \A p \in DOMAIN players' : p \in DOMAIN ps /\ players'[p] = ps[p]
    BY <2>1, TurnKeeps
  <2>3. refreshed' = FALSE /\ UNCHANGED <<outside, connecting, strays>>
    BY <1>6 DEF Report
  <2>4. CastTypeOK'
    BY <1>1, <2>2, <2>3 DEF CastTypeOK, Sound, outside
  <2>. QED BY <2>1, <2>2, <2>3, <2>4 DEF CastInv
<1>7. ASSUME NEW d \in Devices, DiscoverDevice(d) \/ ConnectFails(d) PROVE CastInv'
  <2>1. UNCHANGED <<outside, devices, strays, players, refreshed>>
    BY <1>7 DEF DiscoverDevice, ConnectFails
  <2>2. connecting' \in [Devices -> Nat]
    BY <1>1, <1>7 DEF DiscoverDevice, ConnectFails, CastTypeOK
  <2>3. CastTypeOK'
    BY <1>1, <2>1, <2>2 DEF CastTypeOK, outside
  <2>. QED BY <1>1, <1>2, <2>1, <2>3 DEF CastInv
<1>8. ASSUME NEW d \in Devices, Connected(d) PROVE CastInv'
  <2>1. UNCHANGED <<outside, players, refreshed>>
    BY <1>8 DEF Connected
  <2>2. connecting' \in [Devices -> Nat] /\ strays' \in SUBSET Devices
    BY <1>1, <1>8 DEF Connected, CastTypeOK
  <2>3. Sound(devices', players) /\ devices' \in Seq(DeviceType)
    BY <1>8, AddedKeeps
  <2>4. CastTypeOK'
    BY <1>1, <2>1, <2>2, <2>3 DEF CastTypeOK, outside
  <2>. QED BY <1>1, <1>2, <2>1, <2>3, <2>4 DEF CastInv
<1>9. ASSUME NEW d \in Devices, Closed(d) \/ Reconnect(d) PROVE CastInv'
  <2>1. UNCHANGED <<outside, connecting, strays, players, refreshed>> /\ d \in Known
    BY <1>9 DEF Closed, Reconnect
  <2>. DEFINE i == IndexOf(d)
              c == [devices[i] EXCEPT !.connected = FALSE]
              o == [devices[i] EXCEPT !.connected = TRUE, !.retries = 0]
  <2>2. i \in 1..Len(devices) /\ devices[i] \in DeviceType
    BY <1>1, <2>1, IndexOfKnown
  <2>3. devices' = [devices EXCEPT ![i] = c] \/ devices' = [devices EXCEPT ![i] = o]
    BY <1>9, <2>2 DEF Closed, Reconnect
  <2>4. /\ c \in DeviceType /\ c.name = devices[i].name /\ c.apps = devices[i].apps
        /\ c.retries = devices[i].retries
    BY <2>2 DEF DeviceType
  <2>5. /\ o \in DeviceType /\ o.name = devices[i].name /\ o.apps = devices[i].apps
        /\ o.retries = 0
    BY <2>2 DEF DeviceType
  <2>. HIDE DEF c, o, i
  <2>6. Sound([devices EXCEPT ![i] = c], players) /\ Sound([devices EXCEPT ![i] = o], players)
    BY <1>1, <2>2, <2>4, <2>5, SameAppsKeeps
  <2>7. Sound(devices', players) /\ devices' \in Seq(DeviceType)
    BY <2>3, <2>6 DEF Sound
  <2>8. CastTypeOK'
    BY <1>1, <2>1, <2>7 DEF CastTypeOK, outside
  <2>. QED BY <1>1, <1>2, <2>1, <2>7, <2>8 DEF CastInv
<1>10. ASSUME NEW d \in Devices, Reconnecting(d) PROVE CastInv'
  <2>1. UNCHANGED <<outside, connecting, strays, refreshed>>
    BY <1>10 DEF Reconnecting
  <2>2. PICK r : Attempt(r)
    BY <1>10, ReconnectingKeeps
  <2>3. players \in [DOMAIN players -> PlayerType]
    BY <1>1 DEF CastTypeOK
  <2>4. /\ Sound(devices', players') /\ players' \in [DOMAIN players' -> PlayerType]
        /\ \A p \in DOMAIN players' : p \in DOMAIN players /\ players'[p] = players[p]
    BY <1>1, <2>2, <2>3, TurnKeeps DEF Attempt
  <2>5. CastTypeOK'
    BY <1>1, <2>1, <2>4 DEF CastTypeOK, Sound, outside
  <2>. QED BY <1>2, <2>1, <2>4, <2>5 DEF CastInv
<1>. QED BY <1>3, <1>4, <1>5, <1>6, <1>7, <1>8, <1>9, <1>10 DEF Next

\* In every state of discovery, connections, polls and prunes the devices are named once and
\* given up properly, and the players covered by applications and tried in time.
THEOREM CastInvariant == Spec => []CastInv
<1>1. Init => CastInv
  BY CastInit
<1>2. CastInv /\ [Next]_vars => CastInv'
  BY CastStep
<1>. QED BY <1>1, <1>2, PTL DEF Spec

-----------------------------------------------------------------------------
(* What follows from it.                                                      *)

\* Every variable keeps its type: what the handlers, the polls and the events store.
THEOREM CastTypeCorrect == Spec => []CastTypeOK
<1>1. CastInv => CastTypeOK
  BY DEF CastInv
<1>. QED BY <1>1, CastInvariant, PTL

\* A device that failed too often in a row is no longer listed, unless disposing of one of
\* its applications threw in removeApplications().
THEOREM GivenUpIsRemovedAlways == Spec => []GivenUpIsRemoved
<1>1. CastInv => GivenUpIsRemoved
  <2>. SUFFICES ASSUME CastInv, NEW d \in ToSet(devices), d.retries >= GiveUp
                PROVE  \E a \in ToSet(d.apps) : ~a.controlled
    BY DEF GivenUpIsRemoved
  <2>1. devices \in Seq(DeviceType) /\ \A i \in 1..Len(devices) : GivenUp(devices[i])
    BY DEF CastInv, Sound
  <2>2. PICK i \in 1..Len(devices) : d = devices[i]
    BY <2>1 DEF ToSet
  <2>3. d \in DeviceType
    BY <2>1, <2>2
  <2>4. d.apps \in Seq(AppType)
    BY <2>3 DEF DeviceType
  <2>5. PICK k \in 1..Len(d.apps) : ~d.apps[k].controlled
    BY <2>1, <2>2 DEF GivenUp
  <2>. QED BY <2>4, <2>5 DEF ToSet
<1>. QED BY <1>1, CastInvariant, PTL

\* Turns of the second half take no player that was reported.
LEMMA ReportTakes ==
  ASSUME CastInv, NEW i \in 1..Len(Answers), NEW p \in Turns[i].gone
  PROVE  /\ p[1] = devices[i].name /\ p \notin Reporting
         /\ i \in 1..Len(devices) /\ Answers[i] = AllAnswered(devices[i])
         /\ Answers[i].name = devices[i].name /\ Len(Answers[i].apps) = Len(devices[i].apps)
         /\ Outlived(Answers[i], p)
<1>1. CastTypeOK /\ devices \in Seq(DeviceType) /\ Named(devices) /\ \A h \in 1..Len(devices) : GivenUp(devices[h])
  BY DEF CastInv, Sound
<1>2. i \in 1..Len(devices) /\ Answers[i] = AllAnswered(devices[i]) /\ Turns[i] = Pruned(Answers[i])
  BY <1>1 DEF Answers, Turns
<1>3. devices[i] \in DeviceType /\ GivenUp(devices[i])
  BY <1>1, <1>2
<1>4. /\ Answers[i] \in DeviceType /\ Answers[i].name = devices[i].name /\ GivenUp(Answers[i])
      /\ Len(Answers[i].apps) = Len(devices[i].apps)
  BY <1>2, <1>3, AllAnsweredKeeps
<1>5. Keeps(Answers[i], Pruned(Answers[i])) /\ Outlived(Answers[i], p)
  BY <1>2, <1>4, PrunedKeeps
<1>6. p[1] = devices[i].name
  BY <1>2, <1>4, <1>5 DEF Keeps
<1>7. ASSUME p \in Reporting PROVE FALSE
  <2>1. PICK h \in 1..Len(devices) : p[1] = devices[h].name /\ Reports(devices[h], p)
    BY <1>1, <1>7, ReportingReports
  <2>2. h = i
    BY <1>1, <1>2, <1>6, <2>1 DEF Named
  <2>3. PICK k \in 1..Len(devices[i].apps) : LET b == AllAnswered(devices[i]).apps[k] IN
          Player(devices[i].name, b) = p /\ Watched(b) /\ b.stale = Never /\ b.bad = Never
    BY <1>3, <2>1, <2>2, ReporterIsListed
  <2>. QED BY <1>2, <1>4, <1>5, <2>3 DEF Outlived
<1>. QED BY <1>2, <1>4, <1>5, <1>6, <1>7

\* pruneApplications() runs after the applications reported their players, and leaves
\* every player that one of them just reported.
THEOREM ReportedStaysAlways == Spec => ReportedStays
<1>1. ASSUME CastInv, Report PROVE Reporting \subseteq DOMAIN players'
  <2>1. PICK ps :
          /\ Sound(Answers, ps) /\ ps \in [DOMAIN ps -> PlayerType]
          /\ Reporting \subseteq DOMAIN ps
          /\ \A i \in 1..Len(Answers) : Keeps(Answers[i], Turns[i])
          /\ devices' = InTurn(Answers, Turns, ps).devices
          /\ players' = InTurn(Answers, Turns, ps).players
    BY <1>1, ReportTurns
  <2>. SUFFICES ASSUME NEW p \in Reporting, p \notin DOMAIN players' PROVE FALSE
    OBVIOUS
  <2>2. PICK i \in 1..Len(Answers) : p \in Turns[i].gone
    BY <2>1, TurnLoses DEF Sound
  <2>. QED BY <1>1, <2>2, ReportTakes
<1>2. CastInv /\ [Next]_vars => [Report => Reporting \subseteq DOMAIN players']_vars
  BY <1>1
<1>. QED BY <1>2, CastInvariant, PTL DEF Spec, ReportedStays

\* A device that is given up vouches for no player.
LEMMA NotSole ==
  ASSUME NEW p, NEW ds, NEW d, \A k \in 1..Len(ds) : ds[k].name = p[1] => ds[k] = d,
         ds \in Seq(DeviceType), d.retries >= GiveUp
  PROVE  ~Sole(p, ds)
<1>. SUFFICES ASSUME Sole(p, ds) PROVE FALSE
  OBVIOUS
<1>1. PICK e \in ToSet(ds) : e.name = p[1] /\ e.retries < GiveUp
  BY DEF Sole
<1>2. PICK k \in 1..Len(ds) : e = ds[k]
  BY DEF ToSet
<1>3. e = d /\ e.retries \in Nat
  <2>1. e \in DeviceType
    BY <1>2
  <2>. QED BY <1>1, <1>2, <2>1 DEF DeviceType
<1>. QED BY <1>1, <1>3, Limits

\* The device of a player lists one application of it only.
LEMMA SoleApplication ==
  ASSUME NEW p, NEW i \in 1..Len(devices), CastInv, p[1] = devices[i].name, Sole(p, devices),
         NEW j \in 1..Len(devices[i].apps), NEW k \in 1..Len(devices[i].apps),
         Player(devices[i].name, devices[i].apps[j]) = p,
         Player(devices[i].name, devices[i].apps[k]) = p
  PROVE  devices[i].apps[j] = devices[i].apps[k]
<1>1. devices \in Seq(DeviceType) /\ Named(devices)
  BY DEF CastInv, Sound
<1>2. PICK d \in ToSet(devices) :
        /\ d.name = p[1]
        /\ Cardinality({a \in ToSet(d.apps) : Player(d.name, a) = p}) <= 1
  BY DEF Sole
<1>3. PICK h \in 1..Len(devices) : d = devices[h]
  BY <1>1 DEF ToSet
<1>4. d = devices[i]
  BY <1>1, <1>2, <1>3 DEF Named
<1>5. d.apps \in Seq(AppType)
  <2>1. d \in DeviceType
    BY <1>1, <1>3
  <2>. QED BY <2>1 DEF DeviceType
<1>. DEFINE S == {a \in ToSet(d.apps) : Player(d.name, a) = p}
<1>6. d.apps[j] \in S /\ d.apps[k] \in S
  BY <1>4, <1>5 DEF ToSet
<1>7. IsFiniteSet(S)
  <2>1. IsFiniteSet(1..Len(d.apps))
    BY <1>5, FS_Interval
  <2>2. IsFiniteSet(ToSet(d.apps))
    <3>1. d.apps \in Surjection(1..Len(d.apps), ToSet(d.apps))
      BY <1>5 DEF Surjection, ToSet
    <3>. QED BY <2>1, <3>1, FS_Surjection
  <2>3. S \subseteq ToSet(d.apps)
    OBVIOUS
  <2>. HIDE DEF S
  <2>. QED BY <2>2, <2>3, FS_Subset
<1>8. Cardinality(S) <= 1
  BY <1>2
<1>9. ASSUME NEW x \in S, NEW y \in S, x # y PROVE FALSE
  <2>. HIDE DEF S
  <2>. DEFINE two == {x} \cup {y}
  <2>1. two \subseteq S /\ IsFiniteSet(two) /\ Cardinality(two) = 2
    <3>1. IsFiniteSet({x}) /\ Cardinality({x}) = 1
      BY FS_Singleton
    <3>2. y \notin {x}
      BY <1>9
    <3>3. IsFiniteSet(two) /\ Cardinality(two) = 1 + 1
      BY <3>1, <3>2, FS_AddElement
    <3>4. two \subseteq S
      OBVIOUS
    <3>. HIDE DEF two
    <3>. QED BY <3>3, <3>4
  <2>. HIDE DEF two
  <2>2. Cardinality(two) <= Cardinality(S) /\ Cardinality(S) \in Nat
    BY <1>7, <2>1, FS_Subset, FS_CardinalityType
  <2>. QED BY <1>8, <2>1, <2>2
<1>. HIDE DEF S
<1>. QED BY <1>4, <1>6, <1>9

\* What is silent for longer than an application is kept is settled when it was tried or
\* is not yet stale.
LEMMA LongSilentSettled ==
  ASSUME NEW q \in PlayerType, Tried(q, 1), q.heard >= Enough, q.age > AppGone
  PROVE  Settled(q)
  BY Limits DEF Tried, Settled, PlayerType

\* A player that goes at a poll was silent for longer than an application is kept.
LEMMA ReportLoses ==
  ASSUME CastInv, Report, NEW p \in DOMAIN players \ DOMAIN players',
         players[p].heard >= Enough, Sole(p, devices)
  PROVE  Settled(players[p])
<1>. DEFINE q == players[p]
<1>1. /\ q \in PlayerType /\ Tried(q, 1) /\ devices \in Seq(DeviceType)
      /\ \A i \in 1..Len(devices) : devices[i] \in DeviceType
  BY DEF CastInv, CastTypeOK, Report
<1>2. PICK ps :
        /\ Sound(Answers, ps) /\ ps \in [DOMAIN ps -> PlayerType]
        /\ \A x \in DOMAIN players : players[x].age <= DeadAfter => x \in DOMAIN ps
        /\ \A i \in 1..Len(Answers) : Keeps(Answers[i], Turns[i])
        /\ devices' = InTurn(Answers, Turns, ps).devices
        /\ players' = InTurn(Answers, Turns, ps).players
  BY ReportTurns
<1>0. q.age > DeadAfter => Settled(q)
  \* by then discovery was tried
  BY <1>1, Limits DEF Tried, Settled, PlayerType
<1>3. CASE p \notin DOMAIN ps
  BY <1>0, <1>1, <1>2, <1>3, Limits DEF PlayerType
<1>4. CASE p \in DOMAIN ps
  <2>1. PICK i \in 1..Len(Answers) : p \in Turns[i].gone
    BY <1>2, <1>4, TurnLoses DEF Sound
  <2>2. /\ p[1] = devices[i].name /\ i \in 1..Len(devices)
        /\ Answers[i] = AllAnswered(devices[i]) /\ Answers[i].name = devices[i].name
        /\ Len(Answers[i].apps) = Len(devices[i].apps) /\ Outlived(Answers[i], p)
    BY <2>1, ReportTakes
  <2>. DEFINE d == devices[i]
              e == Answers[i]
  <2>3. d \in DeviceType /\ e = AllAnswered(d) /\ e.name = d.name /\ Len(e.apps) = Len(d.apps)
    BY <1>1, <2>2
  <2>4. Covered(d, p, q)
    BY <2>2 DEF CastInv, Sound
  <2>. HIDE DEF d, e, q
  <2>5. /\ Covered(e, p, q) /\ e \in DeviceType
        /\ \A k \in 1..Len(d.apps) : e.apps[k] = Answered(d, d.apps[k])
    BY <1>1, <2>3, <2>4, AllAnsweredKeeps
  <2>6. PICK j \in 1..Len(e.apps) : /\ Player(e.name, e.apps[j]) = p
                                    /\ e.apps[j].stale > AppGone \/ e.apps[j].bad > AppGone
    BY <2>2 DEF Outlived, e
  <2>7. \A k \in 1..Len(d.apps) : Player(d.name, d.apps[k]) = Player(e.name, e.apps[k])
    <3>1. \A k \in 1..Len(d.apps) : d.apps[k] \in AppType
      BY <2>3 DEF DeviceType
    <3>2. ASSUME NEW a \in AppType PROVE Answered(d, a).id = a.id
      BY <3>2 DEF AppType, Answered
    <3>. QED BY <2>3, <2>5, <3>1, <3>2 DEF Player
  <2>8. Fresh(e.apps[j], q)
    <3>0. Len(e.apps) = Len(d.apps)
      BY <2>3
    <3>1. j \in 1..Len(d.apps) /\ Player(d.name, d.apps[j]) = p
      <4>1. j \in 1..Len(d.apps)
        BY <3>0
      <4>2. Player(e.name, e.apps[j]) = p
        BY <2>6
      <4>. QED BY <2>7, <4>1, <4>2
    <3>2. ASSUME NEW k \in 1..Len(e.apps), Vouches(e, e.apps[k], p, q)
          PROVE  Fresh(e.apps[j], q)
      <4>1. Player(e.name, e.apps[k]) = p /\ Fresh(e.apps[k], q)
        BY <3>2 DEF Vouches
      <4>2. k \in 1..Len(d.apps) /\ Player(d.name, d.apps[k]) = p
        BY <2>3, <2>7, <4>1
      <4>3. d.apps[j] = d.apps[k]
        BY <2>2, <3>1, <4>2, SoleApplication DEF d
      <4>4. e.apps[j] = e.apps[k]
        <5>1. e.apps[j] = Answered(d, d.apps[j]) /\ e.apps[k] = Answered(d, d.apps[k])
          BY <2>5, <3>1, <4>2
        <5>. QED BY <4>3, <5>1
      <4>. QED BY <4>1, <4>4
    <3>. QED BY <2>5, <2>6, <3>2 DEF Covered
  <2>9. q.age > AppGone \/ q.age > DeadAfter
    <3>. DEFINE x == e.apps[j].stale
                y == e.apps[j].bad
    <3>1. e.apps[j] \in AppType
      BY <2>5, <2>6 DEF DeviceType
    <3>2. x \in Ages /\ y \in Ages /\ q.age \in Nat
      BY <1>1, <3>1 DEF AppType, PlayerType, q
    <3>3. x > AppGone \/ y > AppGone
      BY <2>6
    <3>4. q.age > DeadAfter \/ (x <= q.age /\ y <= q.age)
      BY <2>8 DEF Fresh
    <3>. HIDE DEF x, y
    <3>. QED BY <3>2, <3>3, <3>4, Limits DEF Ages, Never
  <2>10. q.age > AppGone => Settled(q)
    BY <1>1, LongSilentSettled DEF q
  <2>. QED BY <1>0, <2>9, <2>10 DEF q
<1>. QED BY <1>3, <1>4

\* Whatever ends a player, the play that it heard was discovered, unless its device was
\* given up or listed its application twice, an exception ended the poll that discovered
\* it, or its application ended longer ago than AppGone and it was not stale yet.
THEOREM ListenIsKeptAlways == Spec => ListenIsKept
<1>1. ASSUME CastInv, Next, NEW p \in DOMAIN players \ DOMAIN players',
             players[p].heard >= Enough, Sole(p, devices), Sole(p, devices')
      PROVE  Settled(players[p])
  <2>1. CASE Report
    BY <1>1, <2>1, ReportLoses
  <2>2. CASE Refresh
    <3>1. PICK ds, ps, r :
            /\ Sound(ds, ps) /\ ps \in [DOMAIN ps -> PlayerType] /\ DOMAIN ps = DOMAIN players
            /\ \A i \in 1..Len(ds) : Keeps(ds[i], r[i])
            /\ \A i \in 1..Len(ds) : r[i].gone # {} => r[i].device.retries >= GiveUp
            /\ devices' = InTurn(ds, r, ps).devices
            /\ players' = InTurn(ds, r, ps).players
      BY <1>1, <2>2, RefreshTurns
    <3>2. PICK i \in 1..Len(ds) :
            /\ p \in r[i].gone
            /\ \A k \in 1..Len(devices') : devices'[k].name = p[1] => devices'[k] = r[i].device
      BY <1>1, <3>1, TurnLoses DEF Sound
    <3>3. r[i].device.retries >= GiveUp /\ devices' \in Seq(DeviceType)
      BY <3>1, <3>2, TurnKeeps DEF Sound
    <3>. QED BY <1>1, <3>2, <3>3, NotSole
  <2>3. ASSUME NEW d \in Devices, Reconnecting(d) PROVE FALSE
    <3>1. PICK r : Attempt(r)
      BY <1>1, <2>3, ReconnectingKeeps
    <3>2. Sound(devices, players) /\ players \in [DOMAIN players -> PlayerType]
      BY <1>1 DEF CastInv, CastTypeOK
    <3>3. PICK i \in 1..Len(devices) :
            /\ p \in r[i].gone
            /\ \A k \in 1..Len(devices') : devices'[k].name = p[1] => devices'[k] = r[i].device
      BY <1>1, <3>1, <3>2, TurnLoses DEF Sound, Attempt
    <3>4. r[i].device.retries >= GiveUp /\ devices' \in Seq(DeviceType)
      BY <3>1, <3>2, <3>3, TurnKeeps DEF Sound, Attempt
    <3>. QED BY <1>1, <3>3, <3>4, NotSole
  <2>4. CASE Change \/ \E d \in Devices : \/ DiscoverDevice(d) \/ Connected(d) \/ ConnectFails(d)
                                          \/ Closed(d) \/ Reconnect(d)
    <3>1. players' = players
      BY <2>4 DEF Change, DiscoverDevice, Connected, ConnectFails, Closed, Reconnect
    <3>. QED BY <1>1, <3>1
  <2>. QED BY <1>1, <2>1, <2>2, <2>3, <2>4 DEF Next
<1>2. ASSUME CastInv, [Next]_vars
      PROVE  [\A p \in DOMAIN players \ DOMAIN players' :
                players[p].heard >= Enough /\ Sole(p, devices) /\ Sole(p, devices)'
                  => Settled(players[p])]_vars
  BY <1>1, <1>2
<1>. QED BY <1>2, CastInvariant, PTL DEF Spec, ListenIsKept
=============================================================================
