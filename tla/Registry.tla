------------------------------ MODULE Registry ------------------------------
(***************************************************************************)
(* DatabaseManager and the life cycle of Client                             *)
(* (src/core/database_manager.cpp, src/client.cpp): init, reload and        *)
(* shutdown, which Client serialises with lifecycleMutex (the thread of the *)
(* variable owner), against addDataSource, removeDataSource, addGroup and   *)
(* removeGroup, which it does not (Admins).  Each section under             *)
(* DatabaseManager::mtx_ is an action.  A plain data source and its pool    *)
(* are made and registered together and share an identity, as do a group    *)
(* and its write buffer.  Requests that are malformed by themselves are     *)
(* refused before anything changes and are left out; so are the executor    *)
(* (module Executor), the rate limiters and the services that init          *)
(* configures.                                                              *)
(***************************************************************************)
EXTENDS Background, FiniteSets

CONSTANTS
  Leaves,     \* names of plain data sources
  Groups,     \* names of groups
  Gens,       \* generations of the objects of one name: bounds the identities
  GroupDef,   \* what the configuration says of each group
  Configs,    \* configurations for init and reload
  Admins,     \* threads that add and remove data sources and groups
  NoName,
  Reporting   \* stats_report.enabled

Names == Leaves \cup Groups
None == <<NoName, 0>>
Nothing == [id |-> None, refs |-> {}, shadow |-> None]

ASSUME RegistryAssumption ==
  /\ Gens \subseteq Nat \ {0}
  /\ Ids = Names \X Gens
  /\ Leaves \cap Groups = {}   \* a name stands for one kind, and duplicates are refused
  /\ NoName \notin Names \cup Beats /\ Reporting \in BOOLEAN
  /\ GroupDef \in [Groups -> [primary : Leaves, replicas : SUBSET Leaves,
                              candidates : SUBSET Leaves,
                              shadow : Leaves \cup {NoName}]]
  /\ Configs \subseteq [leaves : SUBSET Leaves, groups : SUBSET Groups,
                        default : Names]

VARIABLES
  state,     \* Client::Impl::state
  maps,      \* pools_, datasources_, writeBuffers_, heartbeat_; silent is a history
             \* of the names added with attach_heartbeat = false, which no step reads
  default,   \* defaultName_
  owner,     \* where the thread in init, reload or shutdown stands
  config,    \* the configuration it was given
  next, old, \* its new and old maps
  pc, name,  \* where each admin stands, and the name it was given
  obj,       \* the pool or group it has made or taken out
  replica,   \* pools whose data source has readReplica_
  flushing   \* groups whose write buffer has its thread

ownerVars == <<state, owner, config, next, old>>
adminVars == <<pc, name, obj>>
tables == <<maps, default, replica, flushing>>
vars == <<tables, ownerVars, adminVars, backgroundVars>>

Empty == [leaf |-> [n \in Leaves |-> None], group |-> [g \in Groups |-> Nothing],
          buffers |-> {}, beat |-> NoName, silent |-> {}]

\* The pools of a table, and the groups in it.
PoolsOf(m) == {m.leaf[n] : n \in Leaves} \ {None}
Present(m) == {g \in Groups : m.group[g].id # None}

\* Identities that nothing refers to any more are used again.
Used == open \cup flushing \cup replica \cup {obj[t] : t \in Admins}
        \cup UNION {PoolsOf(m) \cup {m.group[g].id : g \in Groups} \cup m.buffers
                    \cup UNION {m.group[g].refs \cup {m.group[g].shadow} : g \in Groups} :
                    m \in {maps, next, old}}
FreshOf(n) == {i \in {n} \X Gens : i \notin Used}
New(n) == CHOOSE i \in FreshOf(n) : TRUE
FreshBeats == {h \in Beats : beat[h] = "none"}

Registered(n) == \/ n \in Leaves /\ maps.leaf[n] # None
                 \/ n \in Groups /\ maps.group[n].id # None

Init ==
  /\ BackgroundInit
  /\ state = "Empty" /\ owner = "idle" /\ config = NoName
  /\ maps = Empty /\ next = Empty /\ old = Empty
  /\ default = NoName
  /\ pc = [t \in Admins |-> "idle"]
  /\ name = [t \in Admins |-> NoName]
  /\ obj = [t \in Admins |-> None]
  /\ replica = {} /\ flushing = {}

\* Mutant: the reporter is stopped, and joined, under mtx_.
MtxFreeNotWhileJoining == owner \notin {"unwinding", "joinReporter"}

\* mtx_ is held across a wait only by the destructors of a failed reload.
MtxFree == owner # "unwinding"

-----------------------------------------------------------------------------
(* What groups refer to. *)

MemberNames(g) ==
  {GroupDef[g].primary} \cup GroupDef[g].replicas \cup GroupDef[g].candidates

\* validateGroupRefs: every name is a plain data source of the table.
ValidRefs(g, leaf) == \A n \in MemberNames(g) : leaf[n] # None

\* buildSingleDataSourceGroup: the new group holds the objects it refers to.
NewGroup(g, leaf) ==
  [id |-> New(g), refs |-> {leaf[n] : n \in MemberNames(g)}, shadow |-> None]

\* resolveShadows accepts the shadow of g.
ShadowOk(g) ==
  LET s == GroupDef[g].shadow
  IN s # NoName => /\ maps.leaf[s] # None
                   /\ s \notin {GroupDef[g].primary} \cup GroupDef[g].replicas

\* resolveShadows has come as far as the groups in done.
Resolved(done) ==
  [maps EXCEPT !.group = [g \in Groups |->
     IF g \in done /\ GroupDef[g].shadow # NoName
     THEN [maps.group[g] EXCEPT !.shadow = maps.leaf[GroupDef[g].shadow]]
     ELSE maps.group[g]]]

\* The section of resolveShadows: it succeeds, or stops at a bad group after
\* some of the others.
ResolveShadows(ok) ==
  LET good == {g \in Present(maps) : ShadowOk(g)}
  IN /\ ok = (good = Present(maps))
     /\ IF ok THEN maps' = Resolved(good)
        ELSE \E done \in SUBSET good : maps' = Resolved(done)

-----------------------------------------------------------------------------
(* init, reload and shutdown. *)

\* Client::init and Client::reload up to the swap: everything is built, the
\* services are configured, the new heartbeat and the new buffers run.  A
\* configuration that names something undefined is refused before that.
Build(c) ==
  /\ owner = "idle" /\ state \in {"Empty", "Running"}
  /\ c.default \in c.leaves \cup c.groups
  /\ \A n \in c.leaves \cup c.groups : FreshOf(n) # {}
  /\ LET leaf == [n \in Leaves |-> IF n \in c.leaves THEN New(n) ELSE None]
         pools == {New(n) : n \in c.leaves}
         buffers == {New(g) : g \in c.groups}
     IN /\ \A g \in c.groups : ValidRefs(g, leaf)
        /\ \E h \in FreshBeats :
             /\ next' = [leaf |-> leaf, buffers |-> buffers, beat |-> h, silent |-> {},
                         group |-> [g \in Groups |->
                           IF g \in c.groups THEN NewGroup(g, leaf) ELSE Nothing]]
             /\ StartBeat(h, pools)
        /\ open' = open \cup pools
        /\ flushing' = flushing \cup buffers
        /\ replica' = replica \cup
             {New(n) : n \in c.leaves \cap UNION {GroupDef[g].replicas : g \in c.groups}}
  /\ config' = c
  /\ owner' = "swap"
  /\ UNCHANGED <<maps, default, state, old, adminVars, reporterVars>>

\* The section that swaps the tables.
Swap ==
  /\ owner = "swap"
  /\ old' = maps /\ maps' = next /\ next' = Empty
  /\ default' = config.default
  /\ owner' = "resolve"
  /\ UNCHANGED <<replica, flushing, state, config, adminVars, backgroundVars>>

\* resolveShadows of init.
Resolve ==
  /\ owner = "resolve"
  /\ \E ok \in BOOLEAN : ResolveShadows(ok) /\ owner' = IF ok THEN "report" ELSE "rollback"
  /\ UNCHANGED <<default, replica, flushing, state, config, next, old,
                 adminVars, backgroundVars>>

\* The section after a failure: the old tables come back, but not defaultName_
\* and not the services that init configured.  The new pools and buffers are destroyed,
\* and the destructor of the new heartbeat waits, all under mtx_.
Rollback ==
  /\ owner = "rollback"
  /\ maps' = old /\ old' = [Empty EXCEPT !.beat = maps.beat]
  /\ ClosePools(PoolsOf(maps))
  /\ replica' = replica \ PoolsOf(maps)
  /\ flushing' = flushing \ (maps.buffers \ {obj[t] : t \in Admins})
  /\ StopBeats({maps.beat})
  /\ owner' = "unwinding"
  /\ UNCHANGED <<default, state, config, next, adminVars, beat, reporterVars>>

\* A heartbeat manager is gone, and then the pools in S.
Destroyed(h, S) ==
  /\ beat' = [b \in Beats |-> IF b = h THEN "none" ELSE beat[b]]
  /\ stopFlag' = [b \in Beats |-> b # h /\ stopFlag[b]]
  /\ attached' = [b \in Beats |-> IF b = h THEN {} ELSE attached[b] \ S]
  /\ open' = open \ S

\* The destructor of the new heartbeat returns, init returns its error.
Unwound ==
  /\ owner = "unwinding"
  /\ BeatsJoined({old.beat} \cap Beats)
  /\ Destroyed(old.beat, {})
  /\ old' = Empty /\ owner' = "idle" /\ config' = NoName
  /\ UNCHANGED <<tables, state, next, adminVars, reporterVars>>

\* StatsReporter::stop up to its join, from start or from shutdown.
StopReporter ==
  /\ owner \in {"report", "closing"}
  /\ reporting' = FALSE
  /\ owner' = IF owner = "report" THEN "joinReporter" ELSE "closeReporter"
  /\ UNCHANGED <<tables, state, config, next, old, adminVars, beatVars, reporter, open>>

\* StatsReporter::start after the join.
StartReporter ==
  /\ owner = "joinReporter"
  /\ reporter = "none"
  /\ reporting' = Reporting
  /\ reporter' = IF Reporting THEN "wait" ELSE "none"
  /\ owner' = "stopBeat"
  /\ UNCHANGED <<tables, state, config, next, old, adminVars, beatVars, open>>

\* Client::shutdown.
Shutdown ==
  /\ owner = "idle" /\ state # "Closed"
  /\ state' = "Closed"
  /\ owner' = IF state = "Running" THEN "closing" ELSE "idle"
  /\ UNCHANGED <<tables, config, next, old, adminVars, backgroundVars>>

\* The section of DatabaseManager::shutdown, once the reporter is joined.
TakeOut ==
  /\ owner = "closeReporter"
  /\ reporter = "none"
  /\ old' = maps /\ maps' = Empty
  /\ default' = NoName
  /\ owner' = "stopBeat"
  /\ UNCHANGED <<replica, flushing, state, config, next, adminVars, backgroundVars>>

\* HeartbeatManager::stop of the old heartbeat.
StopBeat ==
  /\ owner = "stopBeat"
  /\ StopBeats({old.beat})
  /\ owner' = "retire"
  /\ UNCHANGED <<tables, state, config, next, old, adminVars, beat, attached,
                 reporterVars, open>>

\* Its join, then the buffers and pools of the old tables: init, reload or
\* shutdown returns.
Retire ==
  /\ owner = "retire"
  /\ BeatsJoined({old.beat} \cap Beats)
  /\ Destroyed(old.beat, PoolsOf(old))
  /\ flushing' = flushing \ old.buffers
  /\ replica' = replica \ PoolsOf(old)
  /\ state' = IF state = "Empty" THEN "Running" ELSE state
  /\ old' = Empty /\ owner' = "idle" /\ config' = NoName
  /\ UNCHANGED <<maps, default, next, adminVars, reporterVars>>

-----------------------------------------------------------------------------
(* addDataSource, removeDataSource, addGroup, removeGroup. *)

Operations == {"add", "remove", "addGroup", "removeGroup"}

\* Where admin t goes, and what it holds.
Goes(t, where, i) ==
  /\ pc' = [pc EXCEPT ![t] = where]
  /\ obj' = [obj EXCEPT ![t] = i]
  /\ name' = IF where = "idle" THEN [name EXCEPT ![t] = NoName] ELSE name

\* Client: requireRunning, and no lock.
Request(t, op, n) ==
  /\ pc[t] = "idle" /\ state = "Running"
  /\ n \in IF op \in {"add", "remove"} THEN Leaves ELSE Groups
  /\ pc' = [pc EXCEPT ![t] = op]
  /\ name' = [name EXCEPT ![t] = n]
  /\ UNCHANGED <<tables, ownerVars, obj, backgroundVars>>

\* addDataSource: the first look, then the pool is built.
AddBuild(t) ==
  /\ pc[t] = "add" /\ MtxFree
  /\ \/ /\ Registered(name[t])
        /\ Goes(t, "idle", None)
        /\ open' = open
     \/ /\ ~ Registered(name[t]) /\ FreshOf(name[t]) # {}
        /\ Goes(t, "register", New(name[t]))
        /\ open' = open \cup {New(name[t])}
  /\ UNCHANGED <<tables, ownerVars, beatVars, reporterVars>>

\* pools_ and datasources_ with the pool of admin t; the names in quiet asked
\* to be left off the heartbeat.
Added(t, quiet) == [maps EXCEPT !.leaf[name[t]] = obj[t], !.silent = @ \cup quiet]

\* Mutant: the new pool is never added to the heartbeat.
AddRegisterUnattached(t) ==
  /\ pc[t] = "register" /\ MtxFree
  /\ IF Registered(name[t])
     THEN ClosePools({obj[t]}) /\ maps' = maps
     ELSE /\ \E quiet \in {{}, {name[t]}} : maps' = Added(t, quiet)
          /\ UNCHANGED <<open, attached>>
  /\ Goes(t, "idle", None)
  /\ UNCHANGED <<default, replica, flushing, ownerVars, beat, stopFlag, reporterVars>>

\* The second look: the pool is registered, or shut down again.
AddRegister(t) ==
  /\ pc[t] = "register" /\ MtxFree
  /\ \/ /\ Registered(name[t])
        /\ ClosePools({obj[t]})
        /\ maps' = maps
     \/ /\ ~ Registered(name[t])
        /\ \/ /\ maps' = Added(t, {})
              /\ attached' = [h \in Beats |-> attached[h] \cup
                                 (IF h = maps.beat THEN {obj[t]} ELSE {})]
           \/ /\ maps' = Added(t, {name[t]})      \* attach_heartbeat = false
              /\ attached' = attached
        /\ open' = open
  /\ Goes(t, "idle", None)
  /\ UNCHANGED <<default, replica, flushing, ownerVars, beat, stopFlag, reporterVars>>

\* Mutant: a resolved shadow may be removed.
RemovableShadow(n) ==
  /\ Registered(n) /\ n # default
  /\ \A g \in Groups : maps.leaf[n] \notin maps.group[g].refs

\* removeDataSource refuses what is not there, the default, and what a group
\* refers to; the code compares names, which are those of registered objects.
Removable(n) ==
  /\ Registered(n) /\ n # default
  /\ \A g \in Groups : maps.leaf[n] \notin maps.group[g].refs \cup {maps.group[g].shadow}

\* The section of removeDataSource.
RemoveTakeOut(t) ==
  /\ pc[t] = "remove" /\ MtxFree
  /\ \/ /\ ~ Removable(name[t])
        /\ Goes(t, "idle", None)
        /\ maps' = maps
     \/ /\ Removable(name[t])
        /\ Goes(t, "close", maps.leaf[name[t]])
        /\ maps' = [maps EXCEPT !.leaf[name[t]] = None, !.silent = @ \ {name[t]}]
  /\ UNCHANGED <<default, replica, flushing, ownerVars, backgroundVars>>

\* Mutant: the pool is only forgotten.
RemoveCloseForgotten(t) ==
  /\ pc[t] = "close"
  /\ Goes(t, "idle", None)
  /\ UNCHANGED <<tables, ownerVars, backgroundVars>>

\* The pool is shut down outside the section.
RemoveClose(t) ==
  /\ pc[t] = "close"
  /\ ClosePools({obj[t]})
  /\ replica' = replica \ {obj[t]}
  /\ Goes(t, "idle", None)
  /\ UNCHANGED <<maps, default, flushing, ownerVars, beat, stopFlag, reporterVars>>

\* The section of addGroup: the group is visible from here on.
GroupPublish(t) ==
  LET g == name[t]
  IN /\ pc[t] = "addGroup" /\ MtxFree
     /\ \/ /\ Registered(g) \/ ~ ValidRefs(g, maps.leaf)
           /\ Goes(t, "idle", None)
           /\ UNCHANGED <<maps, replica>>
        \/ /\ ~ Registered(g) /\ ValidRefs(g, maps.leaf) /\ FreshOf(g) # {}
           /\ maps' = [maps EXCEPT !.group[g] = NewGroup(g, maps.leaf),
                                   !.buffers = @ \cup {New(g)}]
           /\ replica' = replica \cup {maps.leaf[n] : n \in GroupDef[g].replicas}
           /\ Goes(t, "start", New(g))
     /\ UNCHANGED <<default, flushing, ownerVars, backgroundVars>>

\* WriteBuffer::start; its thread may not be created.
GroupStart(t) ==
  /\ pc[t] = "start"
  /\ \/ Goes(t, "resolve", obj[t]) /\ flushing' = flushing \cup {obj[t]}
     \/ Goes(t, "undo", obj[t]) /\ flushing' = flushing
  /\ UNCHANGED <<maps, default, replica, ownerVars, backgroundVars>>

\* resolveShadows of addGroup.  On return a buffer that is in no table any
\* more is destroyed.
GroupResolve(t) ==
  /\ pc[t] = "resolve" /\ MtxFree
  /\ \E ok \in BOOLEAN :
       /\ ResolveShadows(ok)
       /\ Goes(t, IF ok THEN "idle" ELSE "undo", IF ok THEN None ELSE obj[t])
       /\ flushing' = IF ok THEN flushing \ ({obj[t]} \ (maps.buffers \cup old.buffers))
                      ELSE flushing
  /\ UNCHANGED <<default, replica, ownerVars, backgroundVars>>

\* The section after a failure: whatever has the name is erased; readReplica_
\* of the members stays.
GroupUndo(t) ==
  /\ pc[t] = "undo" /\ MtxFree
  /\ maps' = [maps EXCEPT !.group[name[t]] = Nothing, !.buffers = @ \ {obj[t]}]
  /\ flushing' = flushing \ {obj[t]}
  /\ Goes(t, "idle", None)
  /\ UNCHANGED <<default, replica, ownerVars, backgroundVars>>

\* Leaves that a group of the table has as replica.
ReplicasOf(m) ==
  UNION {{i \in m.group[g].refs : i[1] \in GroupDef[g].replicas} : g \in Present(m)}

\* The section of removeGroup: the flags of all data sources are set anew.
GroupTakeOut(t) ==
  LET g == name[t]
      rest == [maps EXCEPT !.group[g] = Nothing, !.buffers = @ \ {maps.group[g].id}]
  IN /\ pc[t] = "removeGroup" /\ MtxFree
     /\ \/ /\ ~ Registered(g) \/ g = default
           /\ Goes(t, "idle", None)
           /\ UNCHANGED <<maps, replica>>
        \/ /\ Registered(g) /\ g # default
           /\ maps' = rest
           /\ replica' = (replica \ PoolsOf(maps)) \cup ReplicasOf(rest)
           /\ Goes(t, "stop", maps.group[g].id)
     /\ UNCHANGED <<default, flushing, ownerVars, backgroundVars>>

\* WriteBuffer::stop outside the section.
GroupStop(t) ==
  /\ pc[t] = "stop"
  /\ flushing' = flushing \ {obj[t]}
  /\ Goes(t, "idle", None)
  /\ UNCHANGED <<maps, default, replica, ownerVars, backgroundVars>>

-----------------------------------------------------------------------------
OwnerStep == Swap \/ Resolve \/ Rollback \/ Unwound \/ StopReporter \/ StartReporter
             \/ TakeOut \/ StopBeat \/ Retire

AdminStep(t) ==
  \/ AddBuild(t) \/ AddRegister(t) \/ RemoveTakeOut(t) \/ RemoveClose(t)
  \/ GroupPublish(t) \/ GroupStart(t) \/ GroupResolve(t) \/ GroupUndo(t)
  \/ GroupTakeOut(t) \/ GroupStop(t)

BeatStep(h) == /\ BeatLoop(h)
               /\ UNCHANGED <<tables, ownerVars, adminVars>>
ReporterStep == /\ ReporterWait \/ ReporterWrite(MtxFree)
                /\ UNCHANGED <<tables, ownerVars, adminVars>>

Next ==
  \/ \E c \in Configs : Build(c)
  \/ Shutdown
  \/ OwnerStep
  \/ \E t \in Admins : AdminStep(t)
  \/ \E t \in Admins, op \in Operations, n \in Names : Request(t, op, n)
  \/ \E h \in Beats : BeatStep(h)
  \/ ReporterStep

Spec == Init /\ [][Next]_vars

\* Threads run on and timed waits end; nobody has to call anything.
Fairness ==
  /\ WF_vars(OwnerStep)
  /\ \A t \in Admins : WF_vars(AdminStep(t))
  /\ \A h \in Beats : WF_vars(BeatStep(h))
  /\ WF_vars(ReporterStep)

FairSpec == Spec /\ Fairness

-----------------------------------------------------------------------------
(* Properties. *)

Tables == [leaf : [Leaves -> Ids \cup {None}],
           group : [Groups -> [id : Ids \cup {None}, refs : SUBSET Ids,
                               shadow : Ids \cup {None}]],
           buffers : SUBSET Ids, beat : Beats \cup {NoName}, silent : SUBSET Leaves]

\* Every variable has its type.
TypeOK ==
  /\ BackgroundTypeOK
  /\ state \in {"Empty", "Running", "Closed"}
  /\ {maps, next, old} \subseteq Tables
  /\ default \in Names \cup {NoName}
  /\ config \in Configs \cup {NoName}
  /\ owner \in {"idle", "swap", "resolve", "rollback", "unwinding", "report", "closing",
                "joinReporter", "closeReporter", "stopBeat", "retire"}
  /\ pc \in [Admins -> Operations \cup {"idle", "register", "close", "start", "resolve",
                                        "undo", "stop"}]
  /\ name \in [Admins -> Names \cup {NoName}] /\ obj \in [Admins -> Ids \cup {None}]
  /\ replica \subseteq Ids /\ flushing \subseteq Ids

\* A group that can be looked up only refers to data sources that are
\* registered, and so have their pool, whatever is removed or reloaded
\* meanwhile (removeDataSource, addGroup, resolveShadows).
RefsRegistered ==
  \A g \in Present(maps) :
    maps.group[g].refs \cup ({maps.group[g].shadow} \ {None}) \subseteq PoolsOf(maps)

Quiet == owner = "idle" /\ \A t \in Admins : pc[t] = "idle"

\* When no call is in progress, the pools that exist are the registered ones
\* and flush threads run only for registered buffers: whatever add, remove,
\* reload and failure did, nothing is leaked and no pool in use was closed.
NothingLeaked == Quiet => open = PoolsOf(maps) /\ flushing \subseteq maps.buffers

\* While the client runs, the thread of the current heartbeat has not been
\* stopped and has on its list every registered pool that a configuration or
\* an addDataSource with attach_heartbeat put there, whatever reload, rollback
\* and removal happened in between.
HeartbeatCovers ==
  state = "Running" =>
    /\ maps.beat \in Beats /\ ~ stopFlag[maps.beat]
    /\ \A n \in Leaves \ maps.silent :
         maps.leaf[n] # None => maps.leaf[n] \in attached[maps.beat]

\* While the client runs and no reload is in progress, the default data
\* source exists (getDefault).
DefaultRegistered == state = "Running" /\ owner = "idle" => Registered(default)

\* init, reload and shutdown return: the joins of the heartbeat and of the
\* reporter, which needs mtx_ itself, do not wait for ever.
LifecycleReturns == owner # "idle" ~> owner = "idle"

\* guide: buffered writes are replayed, so a registered buffer has its thread.
BuffersFlush == Quiet => maps.buffers \subseteq flushing

\* guide: once shutdown has returned, this client's pools are closed.
ClosedHasNoPools == state = "Closed" /\ Quiet => open = {}

\* guide: shadows are validated before a group is visible.
VisibleIsResolved ==
  \A g \in Present(maps) : GroupDef[g].shadow # NoName => maps.group[g].shadow # None

\* readReplica_ marks exactly the members that registered groups read from.
ReplicaFlagsExact == Quiet => replica \cap PoolsOf(maps) = ReplicasOf(maps)
=============================================================================
