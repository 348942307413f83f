--------------------------- MODULE RegistryProofs ---------------------------
(***************************************************************************)
(* Proofs about Registry: whatever reloads, rollbacks, shutdown and any     *)
(* number of concurrent administrators do to any set of data sources and    *)
(* groups, registered groups refer to registered data sources, no pool and  *)
(* no flush thread is leaked, and the heartbeat covers every pool while the *)
(* client runs.                                                             *)
(***************************************************************************)
EXTENDS Registry, TLAPS

\* The pool of a name carries the name.
Named(m) == \A n \in Leaves : m.leaf[n] # None => m.leaf[n][1] = n

\* A table whose groups refer to its data sources.
RefsOk(m) ==
  \A g \in Present(m) : m.group[g].refs \cup ({m.group[g].shadow} \ {None}) \subseteq PoolsOf(m)

\* Where an administrator works on a leaf, holds a pool that is in no table,
\* and works on a group.
HoldPcs == {"register", "close"}
LeafPcs == {"add", "remove"} \cup HoldPcs
GroupPcs == {"start", "resolve", "undo", "stop"}
Held == {t \in Admins : pc[t] \in HoldPcs}
HeldPools == {obj[t] : t \in Held}

\* What each administrator holds.
AdminInv ==
  \A t \in Admins :
    /\ pc[t] \in LeafPcs => name[t] \in Leaves
    /\ pc[t] \in {"addGroup", "removeGroup"} \cup GroupPcs => name[t] \in Groups
    /\ pc[t] \in HoldPcs => obj[t][1] = name[t]
    /\ pc[t] \in HoldPcs \cup GroupPcs => obj[t] \in Ids
    /\ pc[t] \notin HoldPcs \cup GroupPcs => obj[t] = None

\* What init, reload and shutdown hold at each of their steps.
PhaseInv ==
  /\ owner \in {"swap", "resolve", "rollback", "unwinding", "report", "joinReporter"} => state # "Closed"
  /\ owner \in {"closing", "closeReporter"} => state = "Closed"
  /\ owner = "swap" => config \in Configs
  /\ owner # "swap" => PoolsOf(next) = {} /\ next.buffers = {}
  /\ owner \in {"idle", "swap", "unwinding", "closing", "closeReporter"}
       => PoolsOf(old) = {} /\ old.buffers = {}

\* A pool is in one table, or held by one administrator.
OwnInv ==
  /\ PoolsOf(maps) \cap PoolsOf(next) = {} /\ PoolsOf(maps) \cap PoolsOf(old) = {}
  /\ PoolsOf(next) \cap PoolsOf(old) = {}
  /\ \A t \in Held : obj[t] \notin PoolsOf(maps) \cup PoolsOf(next) \cup PoolsOf(old)
  /\ \A t, u \in Held : obj[t] = obj[u] => t = u

\* These are the pools that exist.
OpenInv == open = PoolsOf(maps) \cup PoolsOf(next) \cup PoolsOf(old) \cup HeldPools

\* No group has the identity of a pool.
GroupIdInv ==
  /\ open \cap flushing = {}
  /\ \A g \in Groups : {maps.group[g].id, next.group[g].id, old.group[g].id} \cap open = {}
  /\ \A t \in Admins : pc[t] \in GroupPcs => obj[t] \notin open

\* A flush thread belongs to a table or to a call in progress.
FlushInv ==
  flushing \subseteq maps.buffers \cup next.buffers \cup old.buffers \cup {obj[t] : t \in Admins}

\* The heartbeat of a table runs, and has the pools that were to be attached.
Beaten(m) == {m.leaf[n] : n \in Leaves \ m.silent} \ {None}
Live(m) == /\ m.beat \in Beats /\ beat[m.beat] # "none" /\ ~ stopFlag[m.beat]
           /\ Beaten(m) \subseteq attached[m.beat]

\* Which tables have theirs.
BeatInv ==
  /\ state = "Running" /\ owner \in {"idle", "swap", "unwinding"} => Live(maps)
  /\ owner = "swap" => Live(next) /\ next.beat # maps.beat
  /\ \/ owner \in {"resolve", "rollback", "report", "joinReporter"}
     \/ owner \in {"stopBeat", "retire"} /\ state # "Closed"
     => Live(maps) /\ old.beat # maps.beat
  /\ owner \in {"resolve", "rollback"} /\ state = "Running" => Live(old)
  /\ owner = "unwinding" => old.beat # maps.beat
  /\ state = "Empty" /\ owner \in {"idle", "swap", "unwinding"} => maps.beat = NoName
  /\ state = "Empty" /\ owner \in {"resolve", "rollback"} => old.beat = NoName

\* The inductive invariant.
RegistryInv ==
  /\ TypeOK
  /\ Named(maps) /\ Named(next) /\ Named(old)
  /\ RefsOk(maps) /\ RefsOk(next) /\ RefsOk(old)
  /\ AdminInv /\ PhaseInv /\ OwnInv /\ OpenInv /\ GroupIdInv /\ FlushInv /\ BeatInv

-----------------------------------------------------------------------------
(* Identities. *)

\* The pools that were to be attached are pools of the table.
LEMMA BeatenPools == \A m : Beaten(m) \subseteq PoolsOf(m)
  BY DEF Beaten, PoolsOf

\* The identity of nothing is none of the identities.
LEMMA NoneIsNoId == None \notin Ids
  BY RegistryAssumption DEF None, Names

\* A new object has an identity of its name that nothing refers to.
LEMMA NewIsFresh ==
  ASSUME NEW n \in Names, FreshOf(n) # {}
  PROVE  /\ New(n) \in {n} \X Gens /\ New(n) \notin Used
         /\ New(n) \in Ids /\ New(n) # None
<1>1. New(n) \in FreshOf(n)
  BY DEF New
<1>2. New(n) \in {n} \X Gens /\ New(n) \notin Used
  BY <1>1 DEF FreshOf
<1> QED
  BY <1>2, NoneIsNoId, RegistryAssumption

\* What Used says of an identity that is free.
LEMMA UnusedId ==
  ASSUME NEW i, i \notin Used
  PROVE  /\ i \notin open /\ i \notin flushing
         /\ \A t \in Admins : obj[t] # i
         /\ i \notin PoolsOf(maps) /\ i \notin PoolsOf(next) /\ i \notin PoolsOf(old)
         /\ \A g \in Groups : maps.group[g].id # i /\ next.group[g].id # i /\ old.group[g].id # i
<1> DEFINE In(m) == PoolsOf(m) \cup {m.group[g].id : g \in Groups} \cup m.buffers
                    \cup UNION {m.group[g].refs \cup {m.group[g].shadow} : g \in Groups}
<1>1. i \notin open \cup flushing \cup {obj[t] : t \in Admins}
  BY DEF Used
<1>2. i \notin UNION {In(m) : m \in {maps, next, old}}
  BY DEF Used
<1>3. i \notin In(maps) /\ i \notin In(next) /\ i \notin In(old)
  <2> HIDE DEF In
  <2> QED BY <1>2
<1> QED
  BY <1>1, <1>3

-----------------------------------------------------------------------------
(* Tables. *)

GroupEntry == [id : Ids \cup {None}, refs : SUBSET Ids, shadow : Ids \cup {None}]

\* Everything in a table of leaves but None is a pool, and the other way round.
LEMMA PoolsMember ==
  ASSUME NEW m, NEW i
  PROVE  i \in PoolsOf(m) <=> i # None /\ \E n \in Leaves : i = m.leaf[n]
  BY DEF PoolsOf

\* The empty table.
LEMMA EmptyTable ==
  /\ Empty \in Tables /\ PoolsOf(Empty) = {} /\ Named(Empty) /\ RefsOk(Empty)
  /\ Empty.buffers = {} /\ Empty.beat = NoName
  /\ \A g \in Groups : Empty.group[g].id = None
  BY DEF Empty, Tables, PoolsOf, Named, RefsOk, Present, Nothing

\* The groups of the configuration are about data sources.
LEMMA MembersAreLeaves ==
  ASSUME NEW g \in Groups
  PROVE  MemberNames(g) \subseteq Leaves
<1>1. GroupDef[g] \in [primary : Leaves, replicas : SUBSET Leaves, candidates : SUBSET Leaves,
                       shadow : Leaves \cup {NoName}]
  BY RegistryAssumption
<1> QED
  BY <1>1 DEF MemberNames

\* A new group refers to pools of the table that it was validated against.
LEMMA NewGroupRefs ==
  ASSUME NEW g \in Groups, NEW leaf \in [Leaves -> Ids \cup {None}],
         ValidRefs(g, leaf), FreshOf(g) # {}
  PROVE  /\ NewGroup(g, leaf) \in GroupEntry
         /\ NewGroup(g, leaf).id = New(g) /\ NewGroup(g, leaf).shadow = None
         /\ NewGroup(g, leaf).refs \subseteq {leaf[n] : n \in Leaves} \ {None}
<1>1. New(g) \in Ids
  BY NewIsFresh DEF Names
<1>2. {leaf[n] : n \in MemberNames(g)} \subseteq {leaf[n] : n \in Leaves} \ {None}
  BY MembersAreLeaves DEF ValidRefs
<1>3. {leaf[n] : n \in MemberNames(g)} \subseteq Ids
  BY <1>2
<1> QED
  BY <1>1, <1>2, <1>3 DEF NewGroup, GroupEntry

\* Resolving shadows changes the shadows only, to registered pools.
LEMMA ResolvedTable ==
  ASSUME maps \in Tables, NEW ok \in BOOLEAN, ResolveShadows(ok)
  PROVE  /\ maps' \in Tables /\ maps'.leaf = maps.leaf /\ maps'.buffers = maps.buffers
         /\ maps'.beat = maps.beat /\ maps'.silent = maps.silent
         /\ \A g \in Groups : /\ maps'.group[g].id = maps.group[g].id
                              /\ maps'.group[g].refs = maps.group[g].refs
                              /\ \/ maps'.group[g].shadow = maps.group[g].shadow
                                 \/ maps'.group[g].shadow \in PoolsOf(maps)
<1> DEFINE good == {g \in Present(maps) : ShadowOk(g)}
<1>1. PICK done \in SUBSET good : maps' = Resolved(done)
  BY DEF ResolveShadows
<1> DEFINE group == [g \in Groups |->
                      IF g \in done /\ GroupDef[g].shadow # NoName
                      THEN [maps.group[g] EXCEPT !.shadow = maps.leaf[GroupDef[g].shadow]]
                      ELSE maps.group[g]]
<1>2. ASSUME NEW g \in Groups
      PROVE  /\ group[g] \in GroupEntry
             /\ group[g].id = maps.group[g].id /\ group[g].refs = maps.group[g].refs
             /\ group[g].shadow = maps.group[g].shadow \/ group[g].shadow \in PoolsOf(maps)
  <2>0. maps.group[g] \in GroupEntry
    BY DEF Tables, GroupEntry
  <2>1. CASE g \in done /\ GroupDef[g].shadow # NoName
    <3>1. ShadowOk(g)
      BY <2>1
    <3>2. GroupDef[g].shadow \in Leaves
      BY <2>1, RegistryAssumption
    <3>3. /\ maps.leaf[GroupDef[g].shadow] \in PoolsOf(maps)
          /\ maps.leaf[GroupDef[g].shadow] \in Ids \cup {None}
      BY <2>1, <3>1, <3>2 DEF ShadowOk, PoolsOf, Tables
    <3> QED
      BY <2>0, <2>1, <3>3 DEF GroupEntry
  <2>2. CASE ~ (g \in done /\ GroupDef[g].shadow # NoName)
    BY <2>0, <2>2
  <2> QED
    BY <2>1, <2>2
<1>3. maps' = [maps EXCEPT !.group = group]
  BY <1>1 DEF Resolved
<1>4. group \in [Groups -> GroupEntry]
  BY <1>2
<1> HIDE DEF group
<1>5. /\ maps'.group = group /\ maps'.leaf = maps.leaf /\ maps'.buffers = maps.buffers
      /\ maps'.beat = maps.beat /\ maps'.silent = maps.silent /\ maps' \in Tables
  BY <1>3, <1>4 DEF Tables, GroupEntry
<1> QED
  BY <1>2, <1>5

-----------------------------------------------------------------------------
(* Steps of init, reload and shutdown. *)

\* What Build makes: a table of fresh pools and groups, and its heartbeat.
LEMMA BuiltTable ==
  ASSUME TypeOK, NEW c \in Configs, Build(c)
  PROVE  /\ next' \in Tables /\ Named(next') /\ RefsOk(next')
         /\ \A i \in PoolsOf(next') \cup next'.buffers : i \notin Used /\ i \in Ids
         /\ PoolsOf(next') \cap next'.buffers = {}
         /\ \A g \in Groups : next'.group[g].id = None \/ next'.group[g].id \in next'.buffers
         /\ open' = open \cup PoolsOf(next') /\ flushing' = flushing \cup next'.buffers
         /\ \E R \in SUBSET Ids : replica' = replica \cup R
         /\ next'.beat \in FreshBeats /\ StartBeat(next'.beat, PoolsOf(next'))
<1> DEFINE leaf == [n \in Leaves |-> IF n \in c.leaves THEN New(n) ELSE None]
           pools == {New(n) : n \in c.leaves}
           buffers == {New(g) : g \in c.groups}
           group == [g \in Groups |-> IF g \in c.groups THEN NewGroup(g, leaf) ELSE Nothing]
           R == {New(n) : n \in c.leaves \cap UNION {GroupDef[g].replicas : g \in c.groups}}
<1>1. /\ c.leaves \subseteq Leaves /\ c.groups \subseteq Groups /\ c.leaves \cap c.groups = {}
  BY RegistryAssumption
<1>2. PICK h \in FreshBeats :
        /\ next' = [leaf |-> leaf, buffers |-> buffers, beat |-> h, group |-> group,
                   silent |-> {}]
        /\ StartBeat(h, pools)
  BY DEF Build
<1>3. /\ \A g \in c.groups : ValidRefs(g, leaf)
      /\ open' = open \cup pools /\ flushing' = flushing \cup buffers
      /\ replica' = replica \cup R
  BY DEF Build
<1>4. \A n \in c.leaves \cup c.groups : /\ New(n) \in {n} \X Gens /\ New(n) \notin Used
                                       /\ New(n) \in Ids /\ New(n) # None
  BY <1>1, NewIsFresh DEF Build, Names
<1>5. leaf \in [Leaves -> Ids \cup {None}] /\ \A n \in Leaves : leaf[n] # None => leaf[n][1] = n
  BY <1>1, <1>4
<1>6. {leaf[n] : n \in Leaves} \ {None} = pools
  BY <1>1, <1>4
<1>7. \A g \in c.groups : /\ NewGroup(g, leaf) \in GroupEntry
                         /\ NewGroup(g, leaf).id = New(g) /\ NewGroup(g, leaf).shadow = None
                         /\ NewGroup(g, leaf).refs \subseteq pools
  <2> HIDE DEF leaf, pools
  <2> QED BY <1>1, <1>3, <1>5, <1>6, NewGroupRefs DEF Build
<1>8. /\ group \in [Groups -> GroupEntry]
      /\ \A g \in Groups :
           \/ /\ g \in c.groups /\ group[g].id = New(g) /\ group[g].shadow = None
              /\ group[g].refs \subseteq pools
           \/ group[g].id = None
  <2> HIDE DEF leaf, pools
  <2> QED BY <1>1, <1>7 DEF Nothing, GroupEntry
<1>9. /\ pools \subseteq Ids /\ buffers \subseteq Ids /\ R \subseteq Ids
      /\ \A i \in pools \cup buffers : i \notin Used
      /\ pools \cap buffers = {}
  BY <1>1, <1>4
<1>10. h \in Beats
  BY DEF FreshBeats
<1>11. \A g \in c.groups : New(g) \in buffers
  OBVIOUS
<1> HIDE DEF leaf, pools, buffers, group, R
<1>12. /\ next'.leaf = leaf /\ next'.group = group /\ next'.buffers = buffers /\ next'.beat = h
       /\ next' \in Tables
  BY <1>2, <1>5, <1>8, <1>9, <1>10 DEF Tables, GroupEntry
<1>13. PoolsOf(next') = pools
  BY <1>6, <1>12 DEF PoolsOf
<1>14. Named(next')
  BY <1>5, <1>12 DEF Named
<1>15. RefsOk(next')
  BY <1>8, <1>12, <1>13 DEF RefsOk, Present
<1> QED
  BY <1>2, <1>3, <1>8, <1>9, <1>11, <1>12, <1>13, <1>14, <1>15

\* The tables are swapped.
LEMMA SwapKeeps ==
  ASSUME RegistryInv, Swap
  PROVE  RegistryInv'
<1>1. /\ owner = "swap" /\ owner' = "resolve" /\ old' = maps /\ maps' = next /\ next' = Empty
      /\ default' = config.default
      /\ UNCHANGED <<replica, flushing, state, config, pc, name, obj>>
      /\ UNCHANGED <<beat, stopFlag, attached, reporter, reporting, open>>
  BY DEF Swap, adminVars, backgroundVars, beatVars, reporterVars
<1>2. TypeOK'
  <2>1. default' \in Names
    BY <1>1, RegistryAssumption DEF RegistryInv, PhaseInv
  <2> QED
    BY <1>1, <2>1, EmptyTable DEF RegistryInv, TypeOK, BackgroundTypeOK
<1>3. Named(maps)' /\ Named(next)' /\ Named(old)' /\ RefsOk(maps)' /\ RefsOk(next)' /\ RefsOk(old)'
  BY <1>1, EmptyTable DEF RegistryInv
<1>4. AdminInv'
  BY <1>1 DEF RegistryInv, AdminInv
<1>5. PhaseInv'
  BY <1>1, EmptyTable DEF RegistryInv, PhaseInv
<1>6. OwnInv' /\ OpenInv'
  BY <1>1, EmptyTable DEF RegistryInv, PhaseInv, OwnInv, OpenInv, Held, HeldPools
<1>7. GroupIdInv' /\ FlushInv'
  BY <1>1, EmptyTable, NoneIsNoId
  DEF RegistryInv, PhaseInv, GroupIdInv, FlushInv, TypeOK, BackgroundTypeOK
<1>8. BeatInv'
  BY <1>1 DEF RegistryInv, BeatInv, Live, PhaseInv
<1> QED
  BY <1>2, <1>3, <1>4, <1>5, <1>6, <1>7, <1>8 DEF RegistryInv

\* Everything is built; nothing that is registered is touched.
LEMMA BuildKeeps ==
  ASSUME RegistryInv, NEW c \in Configs, Build(c)
  PROVE  RegistryInv'
<1>1. /\ owner = "idle" /\ owner' = "swap" /\ state \in {"Empty", "Running"} /\ config' = c
      /\ UNCHANGED <<maps, default, state, old, pc, name, obj, reporter, reporting>>
  BY DEF Build, adminVars, reporterVars
<1>0. /\ next' \in Tables /\ Named(next') /\ RefsOk(next')
      /\ \A i \in PoolsOf(next') \cup next'.buffers : i \notin Used /\ i \in Ids
      /\ PoolsOf(next') \cap next'.buffers = {}
      /\ \A g \in Groups : next'.group[g].id = None \/ next'.group[g].id \in next'.buffers
      /\ open' = open \cup PoolsOf(next') /\ flushing' = flushing \cup next'.buffers
      /\ \E R \in SUBSET Ids : replica' = replica \cup R
      /\ next'.beat \in FreshBeats /\ StartBeat(next'.beat, PoolsOf(next'))
  BY BuiltTable DEF RegistryInv
<1>2. TypeOK'
  BY <1>0, <1>1 DEF RegistryInv, TypeOK, BackgroundTypeOK, StartBeat, FreshBeats
<1>3. Named(maps)' /\ Named(next)' /\ Named(old)' /\ RefsOk(maps)' /\ RefsOk(next)' /\ RefsOk(old)'
  BY <1>0, <1>1 DEF RegistryInv
<1>4. AdminInv'
  BY <1>1 DEF RegistryInv, AdminInv
<1>5. PhaseInv'
  BY <1>1 DEF RegistryInv, PhaseInv
<1>6. OwnInv' /\ OpenInv'
  BY <1>0, <1>1, UnusedId DEF RegistryInv, PhaseInv, OwnInv, OpenInv, Held, HeldPools
<1>7. GroupIdInv' /\ FlushInv'
  BY <1>0, <1>1, UnusedId, NoneIsNoId
  DEF RegistryInv, PhaseInv, GroupIdInv, FlushInv, TypeOK, BackgroundTypeOK
<1>8. BeatInv'
  <2>1. Beaten(next') \subseteq PoolsOf(next')
    BY BeatenPools
  <2> QED
    BY <1>0, <1>1, <2>1, RegistryAssumption
    DEF RegistryInv, BeatInv, Live, FreshBeats, StartBeat, TypeOK, BackgroundTypeOK
<1> QED
  BY <1>2, <1>3, <1>4, <1>5, <1>6, <1>7, <1>8 DEF RegistryInv

\* A failed init puts the old table back and closes the pools of the new one.
LEMMA RollbackKeeps ==
  ASSUME RegistryInv, Rollback
  PROVE  RegistryInv'
<1>1. /\ owner = "rollback" /\ owner' = "unwinding"
      /\ maps' = old /\ old' = [Empty EXCEPT !.beat = maps.beat]
      /\ open' = open \ PoolsOf(maps)
      /\ attached' = [h \in Beats |-> attached[h] \ PoolsOf(maps)]
      /\ stopFlag' = [h \in Beats |-> stopFlag[h] \/ h = maps.beat]
      /\ replica' \subseteq replica
      /\ flushing' = flushing \ (maps.buffers \ {obj[t] : t \in Admins})
      /\ UNCHANGED <<default, state, config, next, pc, name, obj, beat, reporter, reporting>>
  BY DEF Rollback, ClosePools, StopBeats, adminVars, reporterVars
<1>0. /\ old' \in Tables /\ PoolsOf(old') = {} /\ Named(old') /\ RefsOk(old')
      /\ old'.buffers = {} /\ old'.beat = maps.beat
      /\ \A g \in Groups : old'.group[g].id = None
  <2>1. maps.beat \in Beats \cup {NoName}
    BY DEF RegistryInv, TypeOK, Tables
  <2> QED
    BY <1>1, <2>1 DEF Empty, Tables, PoolsOf, Named, RefsOk, Present, Nothing
<1>2. TypeOK'
  BY <1>0, <1>1 DEF RegistryInv, TypeOK, BackgroundTypeOK
<1>3. Named(maps)' /\ Named(next)' /\ Named(old)' /\ RefsOk(maps)' /\ RefsOk(next)' /\ RefsOk(old)'
  BY <1>0, <1>1 DEF RegistryInv
<1>4. AdminInv'
  BY <1>1 DEF RegistryInv, AdminInv
<1>5. PhaseInv'
  BY <1>0, <1>1 DEF RegistryInv, PhaseInv
<1>6. OwnInv' /\ OpenInv'
  BY <1>0, <1>1 DEF RegistryInv, PhaseInv, OwnInv, OpenInv, Held, HeldPools
<1>7. GroupIdInv' /\ FlushInv'
  BY <1>0, <1>1, NoneIsNoId
  DEF RegistryInv, PhaseInv, GroupIdInv, FlushInv, TypeOK, BackgroundTypeOK
<1>8. BeatInv'
  <2>1. Beaten(old) \subseteq PoolsOf(old)
    BY BeatenPools
  <2> QED
    BY <1>0, <1>1, <2>1, RegistryAssumption
    DEF RegistryInv, PhaseInv, OwnInv, BeatInv, Live, TypeOK, BackgroundTypeOK
<1> QED
  BY <1>2, <1>3, <1>4, <1>5, <1>6, <1>7, <1>8 DEF RegistryInv

\* The section of shutdown takes the table out.
LEMMA TakeOutKeeps ==
  ASSUME RegistryInv, TakeOut
  PROVE  RegistryInv'
<1>1. /\ owner = "closeReporter" /\ owner' = "stopBeat"
      /\ old' = maps /\ maps' = Empty /\ default' = NoName
      /\ UNCHANGED <<replica, flushing, state, config, next, pc, name, obj>>
      /\ UNCHANGED <<beat, stopFlag, attached, reporter, reporting, open>>
  BY DEF TakeOut, adminVars, backgroundVars, beatVars, reporterVars
<1>2. TypeOK'
  BY <1>1, EmptyTable DEF RegistryInv, TypeOK, BackgroundTypeOK
<1>3. Named(maps)' /\ Named(next)' /\ Named(old)' /\ RefsOk(maps)' /\ RefsOk(next)' /\ RefsOk(old)'
  BY <1>1, EmptyTable DEF RegistryInv
<1>4. AdminInv'
  BY <1>1 DEF RegistryInv, AdminInv
<1>5. PhaseInv'
  BY <1>1 DEF RegistryInv, PhaseInv
<1>6. OwnInv' /\ OpenInv'
  BY <1>1, EmptyTable DEF RegistryInv, PhaseInv, OwnInv, OpenInv, Held, HeldPools
<1>7. GroupIdInv' /\ FlushInv'
  BY <1>1, EmptyTable, NoneIsNoId
  DEF RegistryInv, PhaseInv, GroupIdInv, FlushInv, TypeOK, BackgroundTypeOK
<1>8. BeatInv'
  BY <1>1 DEF RegistryInv, PhaseInv, BeatInv
<1> QED
  BY <1>2, <1>3, <1>4, <1>5, <1>6, <1>7, <1>8 DEF RegistryInv

\* The old table goes away once its heartbeat is joined.
LEMMA RetireKeeps ==
  ASSUME RegistryInv, Retire
  PROVE  RegistryInv'
<1>1. /\ owner = "retire" /\ owner' = "idle" /\ old' = Empty /\ config' = NoName
      /\ state' = IF state = "Empty" THEN "Running" ELSE state
      /\ beat' = [b \in Beats |-> IF b = old.beat THEN "none" ELSE beat[b]]
      /\ stopFlag' = [b \in Beats |-> b # old.beat /\ stopFlag[b]]
      /\ attached' = [b \in Beats |-> IF b = old.beat THEN {} ELSE attached[b] \ PoolsOf(old)]
      /\ open' = open \ PoolsOf(old)
      /\ flushing' = flushing \ old.buffers /\ replica' \subseteq replica
      /\ UNCHANGED <<maps, default, next, pc, name, obj, reporter, reporting>>
  BY DEF Retire, Destroyed, adminVars, reporterVars
<1>2. TypeOK'
  BY <1>1, EmptyTable DEF RegistryInv, TypeOK, BackgroundTypeOK
<1>3. Named(maps)' /\ Named(next)' /\ Named(old)' /\ RefsOk(maps)' /\ RefsOk(next)' /\ RefsOk(old)'
  BY <1>1, EmptyTable DEF RegistryInv
<1>4. AdminInv'
  BY <1>1 DEF RegistryInv, AdminInv
<1>5. PhaseInv'
  BY <1>1, EmptyTable DEF RegistryInv, PhaseInv
<1>6. OwnInv' /\ OpenInv'
  BY <1>1, EmptyTable DEF RegistryInv, PhaseInv, OwnInv, OpenInv, Held, HeldPools
<1>7. GroupIdInv' /\ FlushInv'
  BY <1>1, EmptyTable, NoneIsNoId
  DEF RegistryInv, PhaseInv, GroupIdInv, FlushInv, TypeOK, BackgroundTypeOK
<1>8. BeatInv'
  <2>1. Beaten(maps) \subseteq PoolsOf(maps)
    BY BeatenPools
  <2> QED
    BY <1>1, <2>1 DEF RegistryInv, OwnInv, BeatInv, Live, TypeOK, BackgroundTypeOK
<1> QED
  BY <1>2, <1>3, <1>4, <1>5, <1>6, <1>7, <1>8 DEF RegistryInv

\* The failed init returns.
LEMMA UnwoundKeeps ==
  ASSUME RegistryInv, Unwound
  PROVE  RegistryInv'
<1>1. /\ owner = "unwinding" /\ owner' = "idle" /\ old' = Empty /\ config' = NoName
      /\ beat' = [b \in Beats |-> IF b = old.beat THEN "none" ELSE beat[b]]
      /\ stopFlag' = [b \in Beats |-> b # old.beat /\ stopFlag[b]]
      /\ attached' = [b \in Beats |-> IF b = old.beat THEN {} ELSE attached[b] \ {}]
      /\ UNCHANGED <<maps, default, replica, flushing, state, next, pc, name, obj, reporter, reporting>>
      /\ open' = open \ {}
  BY DEF Unwound, Destroyed, adminVars, reporterVars, tables
<1>2. TypeOK'
  BY <1>1, EmptyTable DEF RegistryInv, TypeOK, BackgroundTypeOK
<1>3. Named(maps)' /\ Named(next)' /\ Named(old)' /\ RefsOk(maps)' /\ RefsOk(next)' /\ RefsOk(old)'
  BY <1>1, EmptyTable DEF RegistryInv
<1>4. AdminInv'
  BY <1>1 DEF RegistryInv, AdminInv
<1>5. PhaseInv'
  BY <1>1, EmptyTable DEF RegistryInv, PhaseInv
<1>6. OwnInv' /\ OpenInv'
  BY <1>1, EmptyTable DEF RegistryInv, PhaseInv, OwnInv, OpenInv, Held, HeldPools
<1>7. GroupIdInv' /\ FlushInv'
  BY <1>1, EmptyTable, NoneIsNoId
  DEF RegistryInv, PhaseInv, GroupIdInv, FlushInv, TypeOK, BackgroundTypeOK
<1>8. BeatInv'
  BY <1>1 DEF RegistryInv, BeatInv, Live, PhaseInv, TypeOK, BackgroundTypeOK
<1> QED
  BY <1>2, <1>3, <1>4, <1>5, <1>6, <1>7, <1>8 DEF RegistryInv

\* The reporter is stopped and started, shutdown begins, the old heartbeat is told
\* to stop, and a step of a background thread or none.
LEMMA QuietKeeps ==
  ASSUME RegistryInv,
         StopReporter \/ StartReporter \/ Shutdown \/ StopBeat
         \/ (\E h \in Beats : BeatStep(h)) \/ ReporterStep \/ UNCHANGED vars
  PROVE  RegistryInv'
<1>1. UNCHANGED <<maps, default, replica, flushing, config, next, old, pc, name, obj, attached, open>>
  BY DEF StopReporter, StartReporter, Shutdown, StopBeat, BeatStep, BeatLoop, ReporterStep,
     ReporterWait, ReporterWrite, vars, tables, ownerVars, adminVars, backgroundVars, beatVars,
     reporterVars
<1>11. reporting' \in BOOLEAN
  BY RegistryAssumption, Zenon DEF RegistryInv, TypeOK, BackgroundTypeOK, StopReporter, StartReporter,
     Shutdown, StopBeat, BeatStep, BeatLoop, ReporterStep, ReporterWait, ReporterWrite, vars,
     tables, ownerVars, adminVars, backgroundVars, beatVars, reporterVars
<1>0. /\ reporter' \in {"none", "wait", "write"}
      /\ beat' \in [Beats -> {"none", "loop", "done"}]
      /\ \A h \in Beats : beat[h] # "none" => beat'[h] # "none"
  BY DEF RegistryInv, TypeOK, BackgroundTypeOK, StopReporter, StartReporter, Shutdown, StopBeat, BeatStep,
     BeatLoop, ReporterStep, ReporterWait, ReporterWrite, vars, tables, ownerVars, adminVars,
     backgroundVars, beatVars, reporterVars
<1>9. /\ stopFlag' \in [Beats -> BOOLEAN]
      /\ stopFlag' = stopFlag \/ (owner = "stopBeat" /\ \A h \in Beats : h # old.beat => stopFlag'[h] = stopFlag[h])
  BY DEF RegistryInv, TypeOK, BackgroundTypeOK, StopReporter, StartReporter, Shutdown, StopBeat, BeatStep,
     BeatLoop, ReporterStep, ReporterWait, ReporterWrite, vars, tables, ownerVars, adminVars,
     backgroundVars, beatVars, reporterVars, StopBeats
<1>10. \/ UNCHANGED <<owner, state>>
       \/ owner = "report" /\ owner' = "joinReporter" /\ state' = state
       \/ owner = "closing" /\ owner' = "closeReporter" /\ state' = state
       \/ owner = "joinReporter" /\ owner' = "stopBeat" /\ state' = state
       \/ owner = "stopBeat" /\ owner' = "retire" /\ state' = state
       \/ owner = "idle" /\ owner' \in {"closing", "idle"} /\ state' = "Closed"
  BY DEF StopReporter, StartReporter, Shutdown, StopBeat, BeatStep, ReporterStep, vars, ownerVars
<1>2. TypeOK'
  BY <1>0, <1>1, <1>9, <1>10, <1>11 DEF RegistryInv, TypeOK, BackgroundTypeOK
<1>3. Named(maps)' /\ Named(next)' /\ Named(old)' /\ RefsOk(maps)' /\ RefsOk(next)' /\ RefsOk(old)'
  BY <1>1 DEF RegistryInv
<1>4. AdminInv'
  BY <1>1 DEF RegistryInv, AdminInv
<1>5. PhaseInv'
  BY <1>1, <1>10 DEF RegistryInv, PhaseInv
<1>6. OwnInv' /\ OpenInv'
  BY <1>1 DEF RegistryInv, OwnInv, OpenInv, Held, HeldPools
<1>7. GroupIdInv' /\ FlushInv'
  BY <1>1 DEF RegistryInv, GroupIdInv, FlushInv
<1>8. BeatInv'
  BY <1>0, <1>1, <1>9, <1>10 DEF RegistryInv, PhaseInv, BeatInv, Live
<1> QED
  BY <1>2, <1>3, <1>4, <1>5, <1>6, <1>7, <1>8 DEF RegistryInv

-----------------------------------------------------------------------------
(* Steps of the administrators, and the shadows. *)

\* Shadows are resolved, by init.
LEMMA ResolveKeeps ==
  ASSUME RegistryInv, Resolve
  PROVE  RegistryInv'
<1>1. /\ owner = "resolve" /\ owner' \in {"report", "rollback"}
      /\ UNCHANGED <<default, replica, flushing, state, config, next, old, pc, name, obj>>
      /\ UNCHANGED <<beat, stopFlag, attached, reporter, reporting, open>>
  BY DEF Resolve, adminVars, backgroundVars, beatVars, reporterVars
<1>0. /\ maps' \in Tables /\ maps'.leaf = maps.leaf /\ maps'.buffers = maps.buffers
      /\ maps'.beat = maps.beat /\ maps'.silent = maps.silent
      /\ \A g \in Groups : /\ maps'.group[g].id = maps.group[g].id
                           /\ maps'.group[g].refs = maps.group[g].refs
                           /\ \/ maps'.group[g].shadow = maps.group[g].shadow
                              \/ maps'.group[g].shadow \in PoolsOf(maps)
  BY ResolvedTable DEF Resolve, RegistryInv, TypeOK
<1>9. PoolsOf(maps') = PoolsOf(maps)
  BY <1>0 DEF PoolsOf
<1>2. TypeOK'
  BY <1>0, <1>1 DEF RegistryInv, TypeOK, BackgroundTypeOK
<1>3. Named(maps)' /\ Named(next)' /\ Named(old)' /\ RefsOk(maps)' /\ RefsOk(next)' /\ RefsOk(old)'
  BY <1>0, <1>1, <1>9 DEF RegistryInv, Named, RefsOk, Present
<1>4. AdminInv'
  BY <1>1 DEF RegistryInv, AdminInv
<1>5. PhaseInv'
  BY <1>1 DEF RegistryInv, PhaseInv
<1>6. OwnInv' /\ OpenInv'
  BY <1>1, <1>9 DEF RegistryInv, OwnInv, OpenInv, Held, HeldPools
<1>7. GroupIdInv' /\ FlushInv'
  BY <1>0, <1>1 DEF RegistryInv, GroupIdInv, FlushInv
<1>8. BeatInv'
  <2>1. Beaten(maps') = Beaten(maps)
    BY <1>0 DEF Beaten
  <2> QED
    BY <1>0, <1>1, <2>1 DEF RegistryInv, BeatInv, Live
<1> QED
  BY <1>2, <1>3, <1>4, <1>5, <1>6, <1>7, <1>8 DEF RegistryInv

\* A call that holds nothing flushing lets go of it, or takes something else.
LEMMA FlushKept ==
  ASSUME FlushInv, NEW t \in Admins, flushing' \subseteq flushing,
         maps'.buffers = maps.buffers, next' = next, old' = old,
         \A u \in Admins : u = t \/ obj'[u] = obj[u],
         obj[t] \notin flushing' \/ obj'[t] = obj[t]
  PROVE  FlushInv'
<1> SUFFICES ASSUME NEW i \in flushing'
             PROVE  i \in maps'.buffers \cup next'.buffers \cup old'.buffers \cup {obj'[u] : u \in Admins}
  BY DEF FlushInv
<1>1. CASE i \in maps.buffers \cup next.buffers \cup old.buffers
  BY <1>1
<1>2. CASE \E u \in Admins : i = obj[u]
  <2>1. PICK u \in Admins : i = obj[u]
    BY <1>2
  <2>2. obj'[u] = i
    BY <2>1
  <2> QED
    BY <2>2
<1> QED
  BY <1>1, <1>2 DEF FlushInv

\* A call begins.
LEMMA RequestKeeps ==
  ASSUME RegistryInv, NEW t \in Admins, NEW op \in Operations, NEW n \in Names, Request(t, op, n)
  PROVE  RegistryInv'
<1>1. /\ pc[t] = "idle" /\ pc' = [pc EXCEPT ![t] = op] /\ name' = [name EXCEPT ![t] = n]
      /\ n \in IF op \in {"add", "remove"} THEN Leaves ELSE Groups
      /\ UNCHANGED <<maps, default, replica, flushing, state, owner, config, next, old, obj>>
      /\ UNCHANGED <<beat, stopFlag, attached, reporter, reporting, open>>
  BY DEF Request, tables, ownerVars, backgroundVars, beatVars, reporterVars
<1>2. TypeOK'
  BY <1>1 DEF RegistryInv, TypeOK, BackgroundTypeOK, Operations
<1>3. Named(maps)' /\ Named(next)' /\ Named(old)' /\ RefsOk(maps)' /\ RefsOk(next)' /\ RefsOk(old)'
  BY <1>1
  DEF RegistryInv, Named, RefsOk, Present
<1>4. AdminInv'
  BY <1>1 DEF RegistryInv, AdminInv, TypeOK, HoldPcs, LeafPcs, GroupPcs, Operations
<1>5. PhaseInv'
  BY <1>1 DEF RegistryInv, PhaseInv
<1>6. OwnInv' /\ OpenInv'
  BY <1>1
  DEF RegistryInv, OwnInv, OpenInv, Held, HeldPools, HoldPcs, AdminInv, TypeOK, Operations
<1>7. GroupIdInv' /\ FlushInv'
  <2>1. GroupIdInv'
    BY <1>1 DEF RegistryInv, GroupIdInv, GroupPcs, Operations, TypeOK
  <2>2. FlushInv'
    BY <1>1 DEF RegistryInv, FlushInv
  <2> QED
    BY <2>1, <2>2
<1>8. BeatInv'
  BY <1>1 DEF RegistryInv, BeatInv, Live, OwnInv, Held, TypeOK, BackgroundTypeOK
<1> QED
  BY <1>2, <1>3, <1>4, <1>5, <1>6, <1>7, <1>8 DEF RegistryInv

\* A pool is built for a name that is free.
LEMMA AddBuildKeeps ==
  ASSUME RegistryInv, NEW t \in Admins, AddBuild(t)
  PROVE  RegistryInv'
<1>1. /\ pc[t] = "add"
      /\ UNCHANGED <<maps, default, replica, flushing, state, owner, config, next, old>>
      /\ UNCHANGED <<beat, stopFlag, attached, reporter, reporting>>
      /\ \/ /\ pc' = [pc EXCEPT ![t] = "idle"] /\ obj' = [obj EXCEPT ![t] = None]
            /\ name' = [name EXCEPT ![t] = NoName] /\ open' = open
         \/ /\ pc' = [pc EXCEPT ![t] = "register"] /\ obj' = [obj EXCEPT ![t] = New(name[t])]
            /\ name' = name /\ open' = open \cup {New(name[t])} /\ FreshOf(name[t]) # {}
  BY DEF AddBuild, Goes, tables, ownerVars, beatVars, reporterVars
<1>0. name[t] \in Leaves
  BY <1>1 DEF RegistryInv, AdminInv, LeafPcs
<1>9. FreshOf(name[t]) # {} => /\ New(name[t]) \in Ids /\ New(name[t])[1] = name[t]
                              /\ New(name[t]) \notin Used
  BY <1>0, NewIsFresh DEF Names
<1>2. TypeOK'
  BY <1>1, <1>9 DEF RegistryInv, TypeOK, BackgroundTypeOK, Operations
<1>3. Named(maps)' /\ Named(next)' /\ Named(old)' /\ RefsOk(maps)' /\ RefsOk(next)' /\ RefsOk(old)'
  BY <1>1
  DEF RegistryInv, Named, RefsOk, Present
<1>4. AdminInv'
  BY <1>1, <1>9 DEF RegistryInv, AdminInv, TypeOK, HoldPcs, LeafPcs, GroupPcs, Operations
<1>5. PhaseInv'
  BY <1>1, <1>0 DEF RegistryInv, PhaseInv
<1>6. OwnInv' /\ OpenInv'
  BY <1>1, <1>9, UnusedId
  DEF RegistryInv, OwnInv, OpenInv, Held, HeldPools, HoldPcs, AdminInv, TypeOK
<1>7. GroupIdInv' /\ FlushInv'
  <2>0. obj[t] = None /\ None \notin flushing
    BY <1>1, NoneIsNoId DEF RegistryInv, AdminInv, HoldPcs, GroupPcs, TypeOK
  <2>1. GroupIdInv'
    BY <1>1, <1>9, UnusedId DEF RegistryInv, GroupIdInv, GroupPcs, TypeOK
  <2>2. FlushInv'
    BY <1>1, <2>0, FlushKept DEF RegistryInv, TypeOK
  <2> QED
    BY <2>1, <2>2
<1>8. BeatInv'
  BY <1>1 DEF RegistryInv, BeatInv, Live, OwnInv, Held, TypeOK, BackgroundTypeOK
<1> QED
  BY <1>2, <1>3, <1>4, <1>5, <1>6, <1>7, <1>8 DEF RegistryInv

\* It is registered, or shut down again.
LEMMA AddRegisterKeeps ==
  ASSUME RegistryInv, NEW t \in Admins, AddRegister(t)
  PROVE  RegistryInv'
<1>1. /\ pc[t] = "register" /\ pc' = [pc EXCEPT ![t] = "idle"]
      /\ obj' = [obj EXCEPT ![t] = None] /\ name' = [name EXCEPT ![t] = NoName]
      /\ UNCHANGED <<default, replica, flushing, state, owner, config, next, old>>
      /\ UNCHANGED <<beat, stopFlag, reporter, reporting>>
      /\ \/ /\ maps' = maps /\ open' = open \ {obj[t]}
            /\ attached' = [h \in Beats |-> attached[h] \ {obj[t]}]
         \/ /\ ~ Registered(name[t]) /\ open' = open
            /\ \/ /\ maps' = Added(t, {})
                  /\ attached' = [h \in Beats |->
                        attached[h] \cup (IF h = maps.beat THEN {obj[t]} ELSE {})]
               \/ maps' = Added(t, {name[t]}) /\ attached' = attached
  BY DEF AddRegister, Goes, ClosePools, ownerVars, reporterVars
<1>0. /\ name[t] \in Leaves /\ obj[t] \in Ids /\ obj[t][1] = name[t] /\ t \in Held
      /\ maps \in Tables /\ maps.leaf \in [Leaves -> Ids \cup {None}]
  BY <1>1 DEF RegistryInv, AdminInv, LeafPcs, HoldPcs, Held, TypeOK, Tables
<1>9. /\ maps' \in Tables /\ maps'.group = maps.group /\ maps'.buffers = maps.buffers
      /\ maps'.beat = maps.beat /\ Named(maps')
      /\ \/ /\ maps' = maps /\ open' = open \ {obj[t]}
            /\ attached' = [h \in Beats |-> attached[h] \ {obj[t]}]
         \/ /\ PoolsOf(maps') = PoolsOf(maps) \cup {obj[t]} /\ open' = open
            /\ \/ /\ Beaten(maps') \subseteq Beaten(maps) \cup {obj[t]}
                  /\ attached' = [h \in Beats |->
                        attached[h] \cup (IF h = maps.beat THEN {obj[t]} ELSE {})]
               \/ Beaten(maps') \subseteq Beaten(maps) /\ attached' = attached
  <2>1. CASE maps' = maps /\ open' = open \ {obj[t]}
             /\ attached' = [h \in Beats |-> attached[h] \ {obj[t]}]
    BY <2>1, <1>0 DEF RegistryInv
  <2>2. ASSUME ~ Registered(name[t]), NEW quiet \in SUBSET {name[t]}, maps' = Added(t, quiet)
        PROVE  /\ maps' \in Tables /\ maps'.group = maps.group /\ maps'.buffers = maps.buffers
               /\ maps'.beat = maps.beat /\ Named(maps')
               /\ PoolsOf(maps') = PoolsOf(maps) \cup {obj[t]}
               /\ Beaten(maps') \subseteq Beaten(maps) \cup {obj[t]}
               /\ quiet = {name[t]} => Beaten(maps') \subseteq Beaten(maps)
    <3>1. /\ maps' = [maps EXCEPT !.leaf = [maps.leaf EXCEPT ![name[t]] = obj[t]],
                                  !.silent = maps.silent \cup quiet]
          /\ maps.leaf[name[t]] = None
      BY <1>0, <2>2 DEF Registered, Added, Tables
    <3>2. /\ maps' \in Tables /\ maps'.group = maps.group /\ maps'.buffers = maps.buffers
          /\ maps'.beat = maps.beat /\ maps'.leaf = [maps.leaf EXCEPT ![name[t]] = obj[t]]
          /\ maps'.silent = maps.silent \cup quiet
      BY <1>0, <3>1 DEF Tables
    <3>3. PoolsOf(maps') = PoolsOf(maps) \cup {obj[t]}
      BY <1>0, <3>1, <3>2, NoneIsNoId DEF PoolsOf
    <3>4. Named(maps')
      BY <1>0, <3>2 DEF RegistryInv, Named
    <3>5. Beaten(maps') \subseteq Beaten(maps) \cup {obj[t]}
      BY <1>0, <3>2 DEF Beaten
    <3>6. quiet = {name[t]} => Beaten(maps') \subseteq Beaten(maps)
      BY <1>0, <3>2 DEF Beaten
    <3> QED
      BY <3>2, <3>3, <3>4, <3>5, <3>6
  <2>3. CASE /\ ~ Registered(name[t]) /\ maps' = Added(t, {}) /\ open' = open
             /\ attached' = [h \in Beats |->
                   attached[h] \cup (IF h = maps.beat THEN {obj[t]} ELSE {})]
    BY <2>2, <2>3
  <2>4. CASE /\ ~ Registered(name[t]) /\ maps' = Added(t, {name[t]})
             /\ attached' = attached /\ open' = open
    BY <2>2, <2>4
  <2> QED
    BY <1>1, <2>1, <2>3, <2>4
<1>2. TypeOK'
  <2>1. attached' \in [Beats -> SUBSET Ids] /\ open' \subseteq Ids
    BY <1>0, <1>9 DEF RegistryInv, TypeOK, BackgroundTypeOK
  <2> QED
    BY <1>1, <1>9, <2>1 DEF RegistryInv, TypeOK, BackgroundTypeOK
<1>3. Named(maps)' /\ Named(next)' /\ Named(old)' /\ RefsOk(maps)' /\ RefsOk(next)' /\ RefsOk(old)'
  <2>1. PoolsOf(maps) \subseteq PoolsOf(maps')
    BY <1>9
  <2> QED
    BY <1>1, <1>9, <2>1 DEF RegistryInv, Named, RefsOk, Present
<1>4. AdminInv'
  BY <1>1 DEF RegistryInv, AdminInv, TypeOK, HoldPcs, LeafPcs, GroupPcs, Operations
<1>5. PhaseInv'
  BY <1>1 DEF RegistryInv, PhaseInv
<1>6. OwnInv' /\ OpenInv'
  <2>1. Held' = Held \ {t} /\ \A u \in Held \ {t} : obj'[u] = obj[u]
    BY <1>1 DEF Held, HoldPcs, RegistryInv, TypeOK
  <2>2. HeldPools' = HeldPools \ {obj[t]}
    BY <1>0, <2>1 DEF HeldPools, RegistryInv, OwnInv
  <2>3. OwnInv'
    BY <1>0, <1>1, <1>9, <2>1 DEF RegistryInv, OwnInv
  <2>4. obj[t] \in HeldPools /\ \A i \in HeldPools : i \notin PoolsOf(maps) \cup PoolsOf(next) \cup PoolsOf(old)
    BY <1>0 DEF RegistryInv, OwnInv, HeldPools
  <2>5. OpenInv'
    BY <1>1, <1>9, <2>2, <2>4 DEF RegistryInv, OpenInv
  <2> QED
    BY <2>3, <2>5
<1>7. GroupIdInv' /\ FlushInv'
  <2>0. obj[t] \in open
    BY <1>0 DEF RegistryInv, OpenInv, HeldPools
  <2>1. GroupIdInv'
    BY <1>1, <1>9 DEF RegistryInv, GroupIdInv, GroupPcs, TypeOK
  <2>2. FlushInv'
    BY <1>1, <1>9, <2>0, FlushKept DEF RegistryInv, GroupIdInv, TypeOK
  <2> QED
    BY <2>1, <2>2
<1>8. BeatInv'
  <2>1. /\ Beaten(maps) \subseteq PoolsOf(maps) /\ Beaten(next) \subseteq PoolsOf(next)
        /\ Beaten(old) \subseteq PoolsOf(old)
    BY BeatenPools
  <2> QED
    BY <1>0, <1>1, <1>9, <2>1 DEF RegistryInv, BeatInv, Live, OwnInv, TypeOK, BackgroundTypeOK
<1> QED
  BY <1>2, <1>3, <1>4, <1>5, <1>6, <1>7, <1>8 DEF RegistryInv

\* A pool that no group refers to is taken out; what cannot be removed stays.
LEMMA RemoveTakeOutKeeps ==
  ASSUME RegistryInv, NEW t \in Admins, RemoveTakeOut(t)
  PROVE  RegistryInv'
<1>1. /\ pc[t] = "remove"
      /\ UNCHANGED <<default, replica, flushing, state, owner, config, next, old>>
      /\ UNCHANGED <<beat, stopFlag, attached, reporter, reporting, open>>
  BY DEF RemoveTakeOut, ownerVars, backgroundVars, beatVars, reporterVars
<1>0. /\ name[t] \in Leaves /\ maps \in Tables /\ maps.leaf \in [Leaves -> Ids \cup {None}]
      /\ Named(maps) /\ t \notin Held /\ obj[t] = None /\ None \notin flushing
  BY <1>1, NoneIsNoId DEF RegistryInv, AdminInv, LeafPcs, GroupPcs, HoldPcs, Held, TypeOK, Tables
<1>10. CASE /\ maps' = maps /\ pc' = [pc EXCEPT ![t] = "idle"] /\ obj' = [obj EXCEPT ![t] = None]
            /\ name' = [name EXCEPT ![t] = NoName]
  <2>1. Held' = Held /\ obj' = obj
    BY <1>0, <1>1, <1>10 DEF Held, HoldPcs, RegistryInv, TypeOK
  <2>2. TypeOK'
    BY <1>1, <1>10 DEF RegistryInv, TypeOK, BackgroundTypeOK
  <2>3. AdminInv'
    BY <1>1, <1>10 DEF RegistryInv, AdminInv, TypeOK, HoldPcs, LeafPcs, GroupPcs
  <2>4. OwnInv' /\ OpenInv' /\ PhaseInv' /\ FlushInv' /\ BeatInv'
    BY <1>1, <1>10, <2>1 DEF RegistryInv, OwnInv, OpenInv, HeldPools, PhaseInv, FlushInv, BeatInv, Live
  <2>5. GroupIdInv'
    BY <1>1, <1>10, <2>1 DEF RegistryInv, GroupIdInv, GroupPcs, TypeOK
  <2> QED
    BY <1>1, <1>10, <2>2, <2>3, <2>4, <2>5 DEF RegistryInv
<1>11. CASE /\ Removable(name[t])
            /\ maps' = [maps EXCEPT !.leaf[name[t]] = None, !.silent = @ \ {name[t]}]
            /\ pc' = [pc EXCEPT ![t] = "close"] /\ obj' = [obj EXCEPT ![t] = maps.leaf[name[t]]]
            /\ name' = name
  <2> DEFINE i == maps.leaf[name[t]]
  <2>0. /\ maps' \in Tables /\ maps'.group = maps.group /\ maps'.buffers = maps.buffers
        /\ maps'.beat = maps.beat /\ maps'.leaf = [maps.leaf EXCEPT ![name[t]] = None]
        /\ maps'.silent = maps.silent \ {name[t]}
    <3>1. maps' = [maps EXCEPT !.leaf = [maps.leaf EXCEPT ![name[t]] = None],
                               !.silent = maps.silent \ {name[t]}]
      BY <1>0, <1>11 DEF Tables
    <3> QED
      BY <1>0, <3>1 DEF Tables
  <2>1. i # None => i \in PoolsOf(maps) /\ i \in Ids /\ i[1] = name[t]
    BY <1>0 DEF PoolsOf, Named
  <2>2. PoolsOf(maps') = PoolsOf(maps) \ {i}
    BY <1>0, <2>0 DEF PoolsOf, Named
  <2>3. \A g \in Groups : i \notin maps.group[g].refs \cup {maps.group[g].shadow}
    BY <1>11 DEF Removable
  <2>4. i # None
    BY <1>0, <1>11, RegistryAssumption DEF Removable, Registered
  <2> HIDE DEF i
  <2>5. TypeOK'
    BY <1>1, <1>11, <2>0, <2>1, <2>4 DEF i, RegistryInv, TypeOK, BackgroundTypeOK
  <2>6. Named(maps)'
    BY <1>0, <2>0 DEF Named
  <2>7. RefsOk(maps)'
    BY <2>0, <2>2, <2>3 DEF RegistryInv, RefsOk, Present
  <2>8. AdminInv'
    BY <1>0, <1>1, <1>11, <2>1, <2>4
    DEF i, RegistryInv, AdminInv, TypeOK, HoldPcs, LeafPcs, GroupPcs
  <2>9. /\ Held' = Held \cup {t} /\ obj'[t] = i /\ \A u \in Held : obj'[u] = obj[u] /\ u # t
        /\ \A u \in Admins : u # t => obj'[u] = obj[u]
    BY <1>0, <1>11 DEF Held, HoldPcs, RegistryInv, TypeOK, i
  <2>10. OwnInv'
    BY <1>1, <2>1, <2>2, <2>4, <2>9 DEF RegistryInv, OwnInv
  <2>11. HeldPools' = HeldPools \cup {i}
    BY <2>9 DEF HeldPools
  <2>12. OpenInv'
    BY <1>1, <2>1, <2>2, <2>4, <2>11 DEF RegistryInv, OpenInv
  <2>13. GroupIdInv'
    BY <1>1, <1>11, <2>0 DEF RegistryInv, GroupIdInv, GroupPcs, TypeOK
  <2>14. FlushInv'
    BY <1>0, <1>1, <2>0, <2>9, FlushKept DEF RegistryInv
  <2>15. PhaseInv'
    BY <1>1 DEF RegistryInv, PhaseInv
  <2>16. BeatInv'
    <3>1. Beaten(maps') \subseteq Beaten(maps)
      BY <1>0, <2>0 DEF Beaten
    <3> QED
      BY <1>1, <2>0, <3>1 DEF RegistryInv, BeatInv, Live
  <2> QED
    BY <1>1, <2>5, <2>6, <2>7, <2>8, <2>10, <2>12, <2>13, <2>14, <2>15, <2>16 DEF RegistryInv
<1> QED
  BY <1>10, <1>11 DEF RemoveTakeOut, Goes

\* The pool that was taken out is shut down.
LEMMA RemoveCloseKeeps ==
  ASSUME RegistryInv, NEW t \in Admins, RemoveClose(t)
  PROVE  RegistryInv'
<1>1. /\ pc[t] = "close" /\ pc' = [pc EXCEPT ![t] = "idle"]
      /\ obj' = [obj EXCEPT ![t] = None] /\ name' = [name EXCEPT ![t] = NoName]
      /\ open' = open \ {obj[t]} /\ attached' = [h \in Beats |-> attached[h] \ {obj[t]}]
      /\ replica' = replica \ {obj[t]}
      /\ UNCHANGED <<maps, default, flushing, state, owner, config, next, old>>
      /\ UNCHANGED <<beat, stopFlag, reporter, reporting>>
  BY DEF RemoveClose, Goes, ClosePools, ownerVars, reporterVars
<1>0. t \in Held
  BY <1>1 DEF Held, HoldPcs
<1>2. TypeOK'
  BY <1>1 DEF RegistryInv, TypeOK, BackgroundTypeOK
<1>3. Named(maps)' /\ Named(next)' /\ Named(old)' /\ RefsOk(maps)' /\ RefsOk(next)' /\ RefsOk(old)'
  BY <1>1 DEF RegistryInv
<1>4. AdminInv'
  BY <1>1 DEF RegistryInv, AdminInv, TypeOK, HoldPcs, LeafPcs, GroupPcs
<1>5. PhaseInv'
  BY <1>1 DEF RegistryInv, PhaseInv
<1>6. OwnInv' /\ OpenInv'
  <2>1. Held' = Held \ {t} /\ \A u \in Held \ {t} : obj'[u] = obj[u]
    BY <1>1 DEF Held, HoldPcs, RegistryInv, TypeOK
  <2>2. HeldPools' = HeldPools \ {obj[t]}
    BY <1>0, <2>1 DEF HeldPools, RegistryInv, OwnInv
  <2>3. OwnInv'
    BY <1>1, <2>1 DEF RegistryInv, OwnInv
  <2>4. obj[t] \notin PoolsOf(maps) \cup PoolsOf(next) \cup PoolsOf(old)
    BY <1>0 DEF RegistryInv, OwnInv
  <2>5. OpenInv'
    BY <1>1, <2>2, <2>4 DEF RegistryInv, OpenInv
  <2> QED
    BY <2>3, <2>5
<1>7. GroupIdInv' /\ FlushInv'
  <2>0. obj[t] \in open
    BY <1>0 DEF RegistryInv, OpenInv, HeldPools
  <2>1. GroupIdInv'
    BY <1>1 DEF RegistryInv, GroupIdInv, GroupPcs, TypeOK
  <2>2. FlushInv'
    BY <1>1, <2>0, FlushKept DEF RegistryInv, GroupIdInv, TypeOK
  <2> QED
    BY <2>1, <2>2
<1>8. BeatInv'
  <2>1. /\ Beaten(maps) \subseteq PoolsOf(maps) /\ Beaten(next) \subseteq PoolsOf(next)
        /\ Beaten(old) \subseteq PoolsOf(old)
    BY BeatenPools
  <2> QED
    BY <1>0, <1>1, <2>1 DEF RegistryInv, BeatInv, Live, OwnInv, TypeOK, BackgroundTypeOK
<1> QED
  BY <1>2, <1>3, <1>4, <1>5, <1>6, <1>7, <1>8 DEF RegistryInv

\* A step of a call about a group leaves the pools, their owners and the
\* heartbeat alone.
LEMMA GroupStill ==
  ASSUME RegistryInv, NEW t \in Admins, pc[t] \notin HoldPcs,
         NEW where, where \notin HoldPcs, NEW i,
         pc' = [pc EXCEPT ![t] = where], obj' = [obj EXCEPT ![t] = i],
         maps'.leaf = maps.leaf, maps'.beat = maps.beat, maps'.silent = maps.silent,
         UNCHANGED <<state, owner, config, next, old, beat, stopFlag, attached, open>>
  PROVE  /\ PoolsOf(maps') = PoolsOf(maps)
         /\ Named(maps)' /\ Named(next)' /\ Named(old)' /\ RefsOk(next)' /\ RefsOk(old)'
         /\ PhaseInv' /\ OwnInv' /\ OpenInv' /\ BeatInv'
<1>1. PoolsOf(maps') = PoolsOf(maps)
  BY DEF PoolsOf
<1>2. Named(maps)' /\ Named(next)' /\ Named(old)' /\ RefsOk(next)' /\ RefsOk(old)'
  BY DEF RegistryInv, Named
<1>3. Held' = Held /\ \A u \in Held : obj'[u] = obj[u]
  BY DEF Held, RegistryInv, TypeOK
<1>4. HeldPools' = HeldPools
  BY <1>3 DEF HeldPools
<1>5. PhaseInv'
  BY DEF RegistryInv, PhaseInv
<1>6. OwnInv' /\ OpenInv'
  BY <1>1, <1>3, <1>4 DEF RegistryInv, OwnInv, OpenInv
<1>7. BeatInv'
  <2>1. Beaten(maps') = Beaten(maps)
    BY DEF Beaten
  <2> QED
    BY <2>1 DEF RegistryInv, BeatInv, Live
<1> QED
  BY <1>1, <1>2, <1>5, <1>6, <1>7

\* A group is published with references that were validated in the same section.
LEMMA GroupPublishKeeps ==
  ASSUME RegistryInv, NEW t \in Admins, GroupPublish(t)
  PROVE  RegistryInv'
<1> DEFINE g == name[t]
<1>1. /\ pc[t] = "addGroup"
      /\ UNCHANGED <<default, flushing, state, owner, config, next, old>>
      /\ UNCHANGED <<beat, stopFlag, attached, reporter, reporting, open>>
  BY DEF GroupPublish, ownerVars, backgroundVars, beatVars, reporterVars
<1>2. /\ g \in Groups /\ maps \in Tables /\ maps.leaf \in [Leaves -> Ids \cup {None}]
      /\ maps.group \in [Groups -> GroupEntry] /\ maps.buffers \subseteq Ids
      /\ pc[t] \notin HoldPcs /\ obj[t] = None /\ None \notin flushing /\ None \notin open
  BY <1>1, NoneIsNoId DEF RegistryInv, AdminInv, GroupPcs, HoldPcs, TypeOK, BackgroundTypeOK, Tables, GroupEntry
<1>3. CASE /\ pc' = [pc EXCEPT ![t] = "idle"] /\ obj' = [obj EXCEPT ![t] = None]
           /\ name' = [name EXCEPT ![t] = NoName] /\ UNCHANGED <<maps, replica>>
  <2>1. TypeOK'
    BY <1>1, <1>3 DEF RegistryInv, TypeOK, BackgroundTypeOK
  <2>2. AdminInv'
    BY <1>1, <1>3 DEF RegistryInv, AdminInv, TypeOK, HoldPcs, LeafPcs, GroupPcs
  <2>3. GroupIdInv'
    BY <1>1, <1>3 DEF RegistryInv, GroupIdInv, GroupPcs, TypeOK
  <2>4. FlushInv'
    BY <1>1, <1>2, <1>3, FlushKept DEF RegistryInv, TypeOK
  <2>5. "idle" \notin HoldPcs
    BY DEF HoldPcs
  <2> QED
    BY <1>1, <1>2, <1>3, <2>1, <2>2, <2>3, <2>4, <2>5, GroupStill DEF RegistryInv
<1>4. CASE /\ ValidRefs(g, maps.leaf) /\ FreshOf(g) # {}
           /\ maps' = [maps EXCEPT !.group[g] = NewGroup(g, maps.leaf), !.buffers = @ \cup {New(g)}]
           /\ replica' = replica \cup {maps.leaf[n] : n \in GroupDef[g].replicas}
           /\ pc' = [pc EXCEPT ![t] = "start"] /\ obj' = [obj EXCEPT ![t] = New(g)] /\ name' = name
  <2>1. New(g) \in Ids /\ New(g) \notin Used
    BY <1>2, <1>4, NewIsFresh DEF Names
  <2>2. /\ NewGroup(g, maps.leaf) \in GroupEntry
        /\ NewGroup(g, maps.leaf).id = New(g) /\ NewGroup(g, maps.leaf).shadow = None
        /\ NewGroup(g, maps.leaf).refs \subseteq PoolsOf(maps)
    BY <1>2, <1>4, NewGroupRefs DEF PoolsOf
  <2>3. /\ maps'.leaf = maps.leaf /\ maps'.beat = maps.beat /\ maps'.silent = maps.silent
        /\ maps'.group = [maps.group EXCEPT ![g] = NewGroup(g, maps.leaf)]
        /\ maps'.buffers = maps.buffers \cup {New(g)}
        /\ maps' \in Tables
    <3>1. maps' = [maps EXCEPT !.group = [maps.group EXCEPT ![g] = NewGroup(g, maps.leaf)],
                               !.buffers = maps.buffers \cup {New(g)}]
      BY <1>2, <1>4 DEF Tables
    <3> QED
      BY <1>2, <2>1, <2>2, <3>1 DEF Tables, GroupEntry
  <2>4. {maps.leaf[n] : n \in GroupDef[g].replicas} \subseteq Ids
    BY <1>2, <1>4, MembersAreLeaves DEF ValidRefs, MemberNames
  <2>5. TypeOK'
    BY <1>1, <1>4, <2>1, <2>3, <2>4 DEF RegistryInv, TypeOK, BackgroundTypeOK
  <2>6. AdminInv'
    BY <1>1, <1>2, <1>4, <2>1 DEF RegistryInv, AdminInv, TypeOK, HoldPcs, LeafPcs, GroupPcs
  <2>7. GroupIdInv'
    BY <1>1, <1>2, <1>4, <2>1, <2>2, <2>3, UnusedId DEF RegistryInv, GroupIdInv, TypeOK
  <2>8. FlushInv'
    <3>1. \A u \in Admins : u # t => obj'[u] = obj[u]
      BY <1>4 DEF RegistryInv, TypeOK
    <3> QED
      BY <1>1, <1>2, <2>3, <3>1 DEF RegistryInv, FlushInv
  <2>9. "start" \notin HoldPcs
    BY DEF HoldPcs
  <2>10. /\ PoolsOf(maps') = PoolsOf(maps)
         /\ Named(maps)' /\ Named(next)' /\ Named(old)' /\ RefsOk(next)' /\ RefsOk(old)'
         /\ PhaseInv' /\ OwnInv' /\ OpenInv' /\ BeatInv'
    BY <1>1, <1>2, <1>4, <2>3, <2>9, GroupStill
  <2>11. RefsOk(maps)'
    BY <1>2, <2>2, <2>3, <2>10 DEF RegistryInv, RefsOk, Present
  <2> QED
    BY <2>5, <2>6, <2>7, <2>8, <2>10, <2>11 DEF RegistryInv
<1> QED
  BY <1>3, <1>4 DEF GroupPublish, Goes

\* The thread of the buffer is started, or the group is to be undone.
LEMMA GroupStartKeeps ==
  ASSUME RegistryInv, NEW t \in Admins, GroupStart(t)
  PROVE  RegistryInv'
<1>1. /\ pc[t] = "start" /\ obj' = [obj EXCEPT ![t] = obj[t]] /\ name' = name
      /\ \E where \in {"resolve", "undo"} : pc' = [pc EXCEPT ![t] = where]
      /\ flushing' \in {flushing, flushing \cup {obj[t]}}
      /\ UNCHANGED <<maps, default, replica, state, owner, config, next, old>>
      /\ UNCHANGED <<beat, stopFlag, attached, reporter, reporting, open>>
  BY DEF GroupStart, Goes, ownerVars, backgroundVars, beatVars, reporterVars
<1>2. obj' = obj /\ obj[t] \notin open /\ pc[t] \notin HoldPcs
  BY <1>1 DEF RegistryInv, TypeOK, GroupIdInv, GroupPcs, HoldPcs
<1>3. obj[t] \in Ids
  BY <1>1 DEF RegistryInv, AdminInv, GroupPcs
<1>4. TypeOK'
  BY <1>1, <1>2, <1>3 DEF RegistryInv, TypeOK, BackgroundTypeOK
<1>5. AdminInv'
  BY <1>1, <1>2, <1>3 DEF RegistryInv, AdminInv, TypeOK, HoldPcs, LeafPcs, GroupPcs
<1>6. GroupIdInv'
  BY <1>1, <1>2 DEF RegistryInv, GroupIdInv, GroupPcs, TypeOK
<1>7. FlushInv'
  BY <1>1, <1>2 DEF RegistryInv, FlushInv
<1>8. /\ PoolsOf(maps') = PoolsOf(maps)
      /\ Named(maps)' /\ Named(next)' /\ Named(old)' /\ RefsOk(next)' /\ RefsOk(old)'
      /\ PhaseInv' /\ OwnInv' /\ OpenInv' /\ BeatInv'
  <2>1. PICK where \in {"resolve", "undo"} : pc' = [pc EXCEPT ![t] = where]
    BY <1>1
  <2>2. where \notin HoldPcs
    BY DEF HoldPcs
  <2> QED
    BY <1>1, <1>2, <2>1, <2>2, GroupStill
<1>9. RefsOk(maps)'
  BY <1>1 DEF RegistryInv
<1> QED
  BY <1>4, <1>5, <1>6, <1>7, <1>8, <1>9 DEF RegistryInv

\* Shadows are resolved, by addGroup; a buffer that has lost its table is stopped.
LEMMA GroupResolveKeeps ==
  ASSUME RegistryInv, NEW t \in Admins, GroupResolve(t)
  PROVE  RegistryInv'
<1>1. /\ pc[t] = "resolve"
      /\ UNCHANGED <<default, replica, state, owner, config, next, old>>
      /\ UNCHANGED <<beat, stopFlag, attached, reporter, reporting, open>>
      /\ \/ /\ pc' = [pc EXCEPT ![t] = "idle"] /\ obj' = [obj EXCEPT ![t] = None]
            /\ name' = [name EXCEPT ![t] = NoName]
            /\ flushing' = flushing \ ({obj[t]} \ (maps.buffers \cup old.buffers))
         \/ /\ pc' = [pc EXCEPT ![t] = "undo"] /\ obj' = [obj EXCEPT ![t] = obj[t]]
            /\ name' = name /\ flushing' = flushing
  BY DEF GroupResolve, Goes, ownerVars, backgroundVars, beatVars, reporterVars
<1>2. /\ maps' \in Tables /\ maps'.leaf = maps.leaf /\ maps'.buffers = maps.buffers
      /\ maps'.beat = maps.beat /\ maps'.silent = maps.silent
      /\ \A g \in Groups : /\ maps'.group[g].id = maps.group[g].id
                           /\ maps'.group[g].refs = maps.group[g].refs
                           /\ \/ maps'.group[g].shadow = maps.group[g].shadow
                              \/ maps'.group[g].shadow \in PoolsOf(maps)
  BY ResolvedTable DEF GroupResolve, RegistryInv, TypeOK
<1>3. name[t] \in Groups /\ obj[t] \in Ids /\ pc[t] \notin HoldPcs
  BY <1>1 DEF RegistryInv, AdminInv, GroupPcs, HoldPcs
<1>4. TypeOK'
  BY <1>1, <1>2, <1>3 DEF RegistryInv, TypeOK, BackgroundTypeOK
<1>5. AdminInv'
  BY <1>1, <1>3 DEF RegistryInv, AdminInv, TypeOK, HoldPcs, LeafPcs, GroupPcs
<1>6. GroupIdInv'
  BY <1>1, <1>2 DEF RegistryInv, GroupIdInv, GroupPcs, TypeOK
<1>7. FlushInv'
  <2>1. \A u \in Admins : u # t => obj'[u] = obj[u]
    BY <1>1 DEF RegistryInv, TypeOK
  <2>2. obj'[t] = obj[t] \/ obj[t] \notin flushing' \/ obj[t] \in maps.buffers \cup old.buffers
    BY <1>1 DEF RegistryInv, TypeOK
  <2>3. flushing' \subseteq flushing
    BY <1>1
  <2> QED
    BY <1>1, <1>2, <2>1, <2>2, <2>3 DEF RegistryInv, FlushInv
<1>8. /\ PoolsOf(maps') = PoolsOf(maps)
      /\ Named(maps)' /\ Named(next)' /\ Named(old)' /\ RefsOk(next)' /\ RefsOk(old)'
      /\ PhaseInv' /\ OwnInv' /\ OpenInv' /\ BeatInv'
  <2>1. "idle" \notin HoldPcs /\ "undo" \notin HoldPcs
    BY DEF HoldPcs
  <2> QED
    BY <1>1, <1>2, <1>3, <2>1, GroupStill
<1>9. RefsOk(maps)'
  BY <1>2, <1>8 DEF RegistryInv, RefsOk, Present
<1> QED
  BY <1>4, <1>5, <1>6, <1>7, <1>8, <1>9 DEF RegistryInv

\* A group is erased from the table.
LEMMA ErasedGroup ==
  ASSUME maps \in Tables, NEW g \in Groups, NEW b,
         maps' = [maps EXCEPT !.group[g] = Nothing, !.buffers = @ \ {b}]
  PROVE  /\ maps' \in Tables /\ maps'.leaf = maps.leaf /\ maps'.beat = maps.beat /\ maps'.silent = maps.silent
         /\ maps'.buffers = maps.buffers \ {b}
         /\ maps'.group = [maps.group EXCEPT ![g] = Nothing]
<1>1. /\ maps.group \in [Groups -> GroupEntry] /\ Nothing \in GroupEntry
  BY DEF Tables, GroupEntry, Nothing
<1>2. maps' = [maps EXCEPT !.group = [maps.group EXCEPT ![g] = Nothing],
                           !.buffers = maps.buffers \ {b}]
  BY DEF Tables
<1>3. /\ maps'.leaf = maps.leaf /\ maps'.beat = maps.beat /\ maps'.silent = maps.silent
      /\ maps'.buffers = maps.buffers \ {b}
      /\ maps'.group = [maps.group EXCEPT ![g] = Nothing]
  BY <1>2 DEF Tables
<1>4. maps' \in Tables
  <2>1. /\ [maps.group EXCEPT ![g] = Nothing] \in [Groups -> GroupEntry]
        /\ maps.buffers \ {b} \subseteq Ids
    BY <1>1 DEF Tables
  <2> QED
    BY <1>2, <2>1 DEF Tables, GroupEntry
<1> QED
  BY <1>3, <1>4

\* Of a table without it the other groups still refer to the pools.
LEMMA ErasedRefs ==
  ASSUME RefsOk(maps), maps \in Tables, NEW g \in Groups,
         maps'.group = [maps.group EXCEPT ![g] = Nothing], PoolsOf(maps') = PoolsOf(maps)
  PROVE  RefsOk(maps)'
<1>1. \A h \in Groups : maps'.group[h] = IF h = g THEN Nothing ELSE maps.group[h]
  BY DEF Tables
<1> QED
  BY <1>1 DEF RefsOk, Present, Nothing

\* A group that could not be completed is erased, and its buffer stopped.
LEMMA GroupUndoKeeps ==
  ASSUME RegistryInv, NEW t \in Admins, GroupUndo(t)
  PROVE  RegistryInv'
<1>1. /\ pc[t] = "undo" /\ pc' = [pc EXCEPT ![t] = "idle"]
      /\ obj' = [obj EXCEPT ![t] = None] /\ name' = [name EXCEPT ![t] = NoName]
      /\ maps' = [maps EXCEPT !.group[name[t]] = Nothing, !.buffers = @ \ {obj[t]}]
      /\ flushing' = flushing \ {obj[t]}
      /\ UNCHANGED <<default, replica, state, owner, config, next, old>>
      /\ UNCHANGED <<beat, stopFlag, attached, reporter, reporting, open>>
  BY DEF GroupUndo, Goes, ownerVars, backgroundVars, beatVars, reporterVars
<1>3. /\ name[t] \in Groups /\ maps \in Tables /\ pc[t] \notin HoldPcs
      /\ None \notin open /\ "idle" \notin HoldPcs
  BY <1>1, NoneIsNoId DEF RegistryInv, AdminInv, GroupPcs, HoldPcs, TypeOK, BackgroundTypeOK
<1>2. /\ maps' \in Tables /\ maps'.leaf = maps.leaf /\ maps'.beat = maps.beat /\ maps'.silent = maps.silent
      /\ maps'.buffers = maps.buffers \ {obj[t]}
      /\ maps'.group = [maps.group EXCEPT ![name[t]] = Nothing]
  BY <1>1, <1>3, ErasedGroup
<1>4. TypeOK'
  BY <1>1, <1>2 DEF RegistryInv, TypeOK, BackgroundTypeOK
<1>5. AdminInv'
  BY <1>1 DEF RegistryInv, AdminInv, TypeOK, HoldPcs, LeafPcs, GroupPcs
<1>6. GroupIdInv'
  BY <1>1, <1>2, <1>3 DEF RegistryInv, GroupIdInv, GroupPcs, TypeOK, Nothing, Tables
<1>7. FlushInv'
  <2>1. \A u \in Admins : u # t => obj'[u] = obj[u]
    BY <1>1 DEF RegistryInv, TypeOK
  <2> QED
    BY <1>1, <1>2, <2>1 DEF RegistryInv, FlushInv
<1>8. /\ PoolsOf(maps') = PoolsOf(maps)
      /\ Named(maps)' /\ Named(next)' /\ Named(old)' /\ RefsOk(next)' /\ RefsOk(old)'
      /\ PhaseInv' /\ OwnInv' /\ OpenInv' /\ BeatInv'
  BY <1>1, <1>2, <1>3, GroupStill
<1>9. RefsOk(maps)'
  BY <1>2, <1>3, <1>8, ErasedRefs DEF RegistryInv
<1> QED
  BY <1>4, <1>5, <1>6, <1>7, <1>8, <1>9 DEF RegistryInv

\* removeGroup takes a group out; its buffer is still flushing.
LEMMA GroupTakeOutKeeps ==
  ASSUME RegistryInv, NEW t \in Admins, GroupTakeOut(t)
  PROVE  RegistryInv'
<1> DEFINE g == name[t]
           rest == [maps EXCEPT !.group[g] = Nothing, !.buffers = @ \ {maps.group[g].id}]
<1>1. /\ pc[t] = "removeGroup"
      /\ UNCHANGED <<default, flushing, state, owner, config, next, old>>
      /\ UNCHANGED <<beat, stopFlag, attached, reporter, reporting, open>>
  BY DEF GroupTakeOut, ownerVars, backgroundVars, beatVars, reporterVars
<1>2. /\ g \in Groups /\ maps \in Tables /\ pc[t] \notin HoldPcs /\ obj[t] = None
      /\ None \notin flushing /\ None \notin open /\ "idle" \notin HoldPcs /\ "stop" \notin HoldPcs
  BY <1>1, NoneIsNoId DEF RegistryInv, AdminInv, GroupPcs, HoldPcs, TypeOK, BackgroundTypeOK
<1>3. CASE /\ pc' = [pc EXCEPT ![t] = "idle"] /\ obj' = [obj EXCEPT ![t] = None]
           /\ name' = [name EXCEPT ![t] = NoName] /\ UNCHANGED <<maps, replica>>
  <2>1. TypeOK'
    BY <1>1, <1>3 DEF RegistryInv, TypeOK, BackgroundTypeOK
  <2>2. AdminInv'
    BY <1>1, <1>3 DEF RegistryInv, AdminInv, TypeOK, HoldPcs, LeafPcs, GroupPcs
  <2>3. GroupIdInv'
    BY <1>1, <1>3 DEF RegistryInv, GroupIdInv, GroupPcs, TypeOK
  <2>4. FlushInv'
    BY <1>1, <1>2, <1>3, FlushKept DEF RegistryInv, TypeOK
  <2> QED
    BY <1>1, <1>2, <1>3, <2>1, <2>2, <2>3, <2>4, GroupStill DEF RegistryInv
<1>4. CASE /\ Registered(g) /\ maps' = rest
           /\ replica' = (replica \ PoolsOf(maps)) \cup ReplicasOf(rest)
           /\ pc' = [pc EXCEPT ![t] = "stop"] /\ obj' = [obj EXCEPT ![t] = maps.group[g].id]
           /\ name' = name
  <2>1. /\ maps' \in Tables /\ maps'.leaf = maps.leaf /\ maps'.beat = maps.beat /\ maps'.silent = maps.silent
        /\ maps'.buffers = maps.buffers \ {maps.group[g].id}
        /\ maps'.group = [maps.group EXCEPT ![g] = Nothing]
    BY <1>2, <1>4, ErasedGroup
  <2>2. maps.group[g].id \in Ids
    BY <1>2, <1>4, RegistryAssumption DEF Registered, Tables
  <2>3. ReplicasOf(maps') \subseteq Ids
    BY <2>1 DEF ReplicasOf, Present, Tables
  <2>4. TypeOK'
    <3>1. replica' \subseteq Ids
      BY <1>4, <2>3 DEF RegistryInv, TypeOK
    <3> HIDE DEF rest
    <3> QED
      BY <1>1, <1>4, <2>1, <2>2, <3>1 DEF RegistryInv, TypeOK, BackgroundTypeOK
  <2>5. AdminInv'
    BY <1>1, <1>2, <1>4, <2>2 DEF RegistryInv, AdminInv, TypeOK, HoldPcs, LeafPcs, GroupPcs
  <2>6. maps.group[g].id \notin open
    BY <1>2 DEF RegistryInv, GroupIdInv
  <2>7. GroupIdInv'
    <3> HIDE DEF rest
    <3>1. \A h \in Groups : maps'.group[h].id \in {maps.group[h].id, None}
      BY <1>2, <2>1 DEF Tables, Nothing
    <3> QED
      BY <1>1, <1>2, <1>4, <2>6, <3>1 DEF RegistryInv, GroupIdInv, TypeOK
  <2>8. FlushInv'
    <3>1. /\ \A u \in Admins : u # t => obj'[u] = obj[u]
          /\ obj'[t] = maps.group[g].id
      BY <1>4 DEF RegistryInv, TypeOK
    <3> QED
      BY <1>1, <1>2, <2>1, <3>1 DEF RegistryInv, FlushInv
  <2>9. /\ PoolsOf(maps') = PoolsOf(maps)
        /\ Named(maps)' /\ Named(next)' /\ Named(old)' /\ RefsOk(next)' /\ RefsOk(old)'
        /\ PhaseInv' /\ OwnInv' /\ OpenInv' /\ BeatInv'
    BY <1>1, <1>2, <1>4, <2>1, GroupStill
  <2>10. RefsOk(maps)'
    BY <1>2, <2>1, <2>9, ErasedRefs DEF RegistryInv
  <2> QED
    BY <2>4, <2>5, <2>7, <2>8, <2>9, <2>10 DEF RegistryInv
<1> QED
  BY <1>3, <1>4 DEF GroupTakeOut, Goes

\* Its buffer is stopped.
LEMMA GroupStopKeeps ==
  ASSUME RegistryInv, NEW t \in Admins, GroupStop(t)
  PROVE  RegistryInv'
<1>1. /\ pc[t] = "stop" /\ pc' = [pc EXCEPT ![t] = "idle"]
      /\ obj' = [obj EXCEPT ![t] = None] /\ name' = [name EXCEPT ![t] = NoName]
      /\ flushing' = flushing \ {obj[t]}
      /\ UNCHANGED <<maps, default, replica, state, owner, config, next, old>>
      /\ UNCHANGED <<beat, stopFlag, attached, reporter, reporting, open>>
  BY DEF GroupStop, Goes, ownerVars, backgroundVars, beatVars, reporterVars
<1>2. "idle" \notin HoldPcs /\ pc[t] \notin HoldPcs
  BY <1>1 DEF HoldPcs
<1>3. TypeOK'
  BY <1>1 DEF RegistryInv, TypeOK, BackgroundTypeOK
<1>4. AdminInv'
  BY <1>1 DEF RegistryInv, AdminInv, TypeOK, HoldPcs, LeafPcs, GroupPcs
<1>5. GroupIdInv'
  BY <1>1 DEF RegistryInv, GroupIdInv, GroupPcs, TypeOK
<1>6. FlushInv'
  BY <1>1, FlushKept DEF RegistryInv, TypeOK
<1>7. RefsOk(maps)'
  BY <1>1 DEF RegistryInv
<1> QED
  BY <1>1, <1>2, <1>3, <1>4, <1>5, <1>6, <1>7, GroupStill DEF RegistryInv

-----------------------------------------------------------------------------
(* The theorems. *)

\* The initial state satisfies the invariant.
LEMMA RegistryInit == Init => RegistryInv
<1> SUFFICES ASSUME Init PROVE RegistryInv
  OBVIOUS
<1>1. TypeOK
  BY EmptyTable DEF Init, BackgroundInit, TypeOK, BackgroundTypeOK
<1>2. /\ Named(maps) /\ Named(next) /\ Named(old) /\ RefsOk(maps) /\ RefsOk(next) /\ RefsOk(old)
      /\ PhaseInv
  BY EmptyTable DEF Init, PhaseInv
<1>3. Held = {}
  BY DEF Init, Held, HoldPcs
<1>4. AdminInv /\ OwnInv
  BY <1>3, EmptyTable DEF Init, AdminInv, OwnInv, LeafPcs, HoldPcs, GroupPcs
<1>5. OpenInv
  BY <1>3, EmptyTable DEF Init, BackgroundInit, OpenInv, HeldPools
<1>6. GroupIdInv /\ FlushInv
  BY EmptyTable DEF Init, BackgroundInit, GroupIdInv, FlushInv, GroupPcs
<1>7. BeatInv
  BY EmptyTable DEF Init, BeatInv
<1> QED
  BY <1>1, <1>2, <1>4, <1>5, <1>6, <1>7 DEF RegistryInv

\* The invariant is inductive.
LEMMA RegistryStep == RegistryInv /\ [Next]_vars => RegistryInv'
<1> SUFFICES ASSUME RegistryInv, [Next]_vars PROVE RegistryInv'
  OBVIOUS
<1>1. CASE OwnerStep
  BY <1>1, SwapKeeps, ResolveKeeps, RollbackKeeps, UnwoundKeeps, QuietKeeps, TakeOutKeeps, RetireKeeps
  DEF OwnerStep
<1>2. ASSUME NEW t \in Admins, AdminStep(t) PROVE RegistryInv'
  BY <1>2, AddBuildKeeps, AddRegisterKeeps, RemoveTakeOutKeeps, RemoveCloseKeeps,
     GroupPublishKeeps, GroupStartKeeps, GroupResolveKeeps, GroupUndoKeeps, GroupTakeOutKeeps,
     GroupStopKeeps
  DEF AdminStep
<1>3. ASSUME NEW t \in Admins, NEW op \in Operations, NEW n \in Names, Request(t, op, n)
      PROVE  RegistryInv'
  BY <1>3, RequestKeeps
<1>4. ASSUME NEW c \in Configs, Build(c) PROVE RegistryInv'
  BY <1>4, BuildKeeps
<1>5. CASE Shutdown \/ (\E h \in Beats : BeatStep(h)) \/ ReporterStep \/ UNCHANGED vars
  BY <1>5, QuietKeeps
<1> QED
  BY <1>1, <1>2, <1>3, <1>4, <1>5 DEF Next

\* The invariant holds in every reachable state.
LEMMA RegistryInvariant == Spec => []RegistryInv
  BY RegistryInit, RegistryStep, PTL DEF Spec

\* Every variable has its type.
THEOREM RegistryTypeCorrect == Spec => []TypeOK
<1>1. RegistryInv => TypeOK
  BY DEF RegistryInv
<1> QED
  BY <1>1, RegistryInvariant, PTL

\* A group that can be looked up refers to registered data sources only, whatever
\* is removed, reloaded or rolled back meanwhile (removeDataSource, addGroup,
\* resolveShadows).
THEOREM RegistryRefsRegistered == Spec => []RefsRegistered
<1>1. RegistryInv => RefsRegistered
  BY DEF RegistryInv, RefsOk, RefsRegistered
<1> QED
  BY <1>1, RegistryInvariant, PTL

\* When no call is in progress the pools that exist are the registered ones, and
\* flush threads run only for registered buffers (init and its rollback, shutdown,
\* addDataSource, removeDataSource, addGroup and its undoing, removeGroup).
THEOREM RegistryNothingLeaked == Spec => []NothingLeaked
<1>1. RegistryInv => NothingLeaked
  <2> SUFFICES ASSUME RegistryInv, Quiet
               PROVE  open = PoolsOf(maps) /\ flushing \subseteq maps.buffers
    BY DEF NothingLeaked
  <2>1. PoolsOf(next) = {} /\ next.buffers = {} /\ PoolsOf(old) = {} /\ old.buffers = {}
    BY DEF RegistryInv, PhaseInv, Quiet
  <2>2. Held = {} /\ \A t \in Admins : obj[t] = None
    BY DEF RegistryInv, AdminInv, Quiet, Held, HoldPcs, GroupPcs
  <2>3. HeldPools = {}
    BY <2>2 DEF HeldPools
  <2> QED
    BY <2>1, <2>2, <2>3, NoneIsNoId DEF RegistryInv, OpenInv, FlushInv, TypeOK
<1> QED
  BY <1>1, RegistryInvariant, PTL

\* While the client runs, the current heartbeat, which nobody has told to stop,
\* has on its list every registered pool that a configuration or an addDataSource
\* with attach_heartbeat put there (addPool, init, its rollback).
THEOREM RegistryHeartbeatCovers == Spec => []HeartbeatCovers
<1>1. RegistryInv => HeartbeatCovers
  BY DEF RegistryInv, BeatInv, PhaseInv, Live, Beaten, HeartbeatCovers, TypeOK
<1> QED
  BY <1>1, RegistryInvariant, PTL
=============================================================================
