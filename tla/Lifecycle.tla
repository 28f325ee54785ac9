----------------------------- MODULE Lifecycle -----------------------------
(***************************************************************************)
(* The life of a process: util/settings.py over the module registry, the    *)
(* databases and the connections, from start to exit.  A reload is one      *)
(* reactor call; its steps are actions of their own, for any of them may    *)
(* raise and leave the rest undone.                                        *)
(*                                                                         *)
(* The databases are DBManager seen by its callers (label -> file), loads   *)
(* are ModuleLoading.  The configuration file belongs to an operator.       *)
(***************************************************************************)
EXTENDS ModuleLoading, FiniteSetsExt

CONSTANTS Labels,
          Files, MainFile,         \* databases; the one of labels without an own
          Configs, BadConfig,      \* what the operator may write: label -> entry
          Example,                 \* EXAMPLE_OPTS
          FaultSets,               \* bound: what may be wrong with the source
          MaxServers, MaxReloads   \* bounds: server objects made, loads asked for

NoServer == 0
Objects == 1..MaxServers
NoEntry == [file |-> MainFile, modules |-> <<>>, denied |-> {}]

ASSUME LifecycleAssumption ==
  MainFile \in Files /\ BadConfig \notin Configs /\ MaxServers \in Nat /\ MaxReloads \in Nat

VARIABLES
  file,                     \* the configuration file
  servers, obj, made,       \* Settings.servers: label -> object; objects; how many
  newservers, oldservers,   \* what stage 1 left for stage 2
  reactor,                  \* where the reactor is, what is left to do there
  later,                    \* delayed calls in the order they were asked for: [what, label]
  db, manager,              \* label -> file, the manager runs
  gen, imported, active, activated, unloaded, faults,   \* the registry
  posted,                   \* objects whose dispatcher is owed a posted signedon
  process,                  \* boot, up, stopping, over, dead
  loads,                    \* loads asked for
  running, stray,           \* instances active and not unloaded (but for those loaded
                            \* again after it, a finding); one was unloaded that did
                            \* not run (history)
  cut, hurried, complete    \* objects a reload left half made, labels added while a
                            \* removal was pending, the last load ended (history)

registryVars == <<gen, imported, active, activated, unloaded, faults, running, stray>>
stageVars == <<newservers, oldservers>>
serverVars == <<servers, made, cut, hurried>>
dbVars == <<db, manager>>
vars == <<file, serverVars, obj, stageVars, reactor, later, dbVars, registryVars, posted,
          process, loads, complete>>

\* conn: none, trying (connecting, or between attempts), open (registering), up (signed
\* on), closing (QUIT sent).  retry: continueTrying.  map: the instances in the event map,
\* armed: they have had a signedon.
NoObject == [label |-> "none", entry |-> NoEntry, born |-> MainFile, conn |-> "none",
             retry |-> FALSE, map |-> {}, armed |-> FALSE]

Registered == {servers[l] : l \in Labels} \ {NoServer}
Idle == reactor.at = "idle" /\ process \in {"up", "stopping"}
Bot(o) == obj[o].conn \in {"up", "closing"}         \* container._botinst
Instances(S) == S \X {gen}

Init ==
  /\ servers = [l \in Labels |-> NoServer] /\ obj = [o \in Objects |-> NoObject] /\ made = 0
  /\ newservers = {} /\ oldservers = {} /\ reactor = [at |-> "idle", todo |-> {}]
  /\ later = <<>> /\ db = [l \in Labels |-> MainFile] /\ manager = FALSE
  /\ gen = 0 /\ imported = {} /\ active = [l \in Labels |-> {}]
  /\ activated = {} /\ unloaded = {} /\ faults = NoFault
  /\ posted = {} /\ process = "boot"
  /\ running = {} /\ stray = FALSE
  /\ cut = {} /\ hurried = {} /\ complete = TRUE
  /\ file \in Configs \cup {Example, BadConfig} /\ loads = 0

----------------------------------------------------------------------------
(* The networks.                                                           *)

ConnStep(o, from, next) ==
  /\ Idle /\ obj[o].conn \in from /\ obj' = [obj EXCEPT ![o] = next]
  /\ UNCHANGED <<file, serverVars, stageVars, reactor, later, dbVars, registryVars, posted,
                 process, loads, complete>>

Opened(o) == ConnStep(o, {"trying"}, [obj[o] EXCEPT !.conn = "open"])

\* signedOn dispatches signedon
SignedOn(o) == ConnStep(o, {"open"}, [obj[o] EXCEPT !.conn = "up", !.armed = TRUE])

\* connectionLost, and the factory tries again while it may
Lost(o) == ConnStep(o, {"open", "up", "closing"},
                    [obj[o] EXCEPT !.conn = IF obj[o].retry THEN "trying" ELSE "none"])

\* a posted signedon is dispatched on a later reactor turn
Posted(o) ==
  /\ Idle /\ o \in posted /\ posted' = posted \ {o}
  /\ obj' = [obj EXCEPT ![o].armed = TRUE]
  /\ UNCHANGED <<file, serverVars, stageVars, reactor, later, dbVars, registryVars, process,
                 loads, complete>>

----------------------------------------------------------------------------
(* Stage 1: the file is read and staged; only a valid one changes anything. *)

\* quit if signed on, and stopTrying.  The code leaves the dispatcher of a server it removes
\* as it is; no later step of the model looks at it, so it is forgotten here to save states.
Stopped(o) == [obj[o] EXCEPT !.retry = FALSE, !.map = {}, !.armed = FALSE,
                             !.conn = CASE @ = "up" -> "closing" [] @ = "trying" -> "none"
                                        [] OTHER -> @]

\* _disconnect: delServer a second later, at once out of the registry
Removed(labels, more) ==
  LET gone == {servers[l] : l \in labels}
  IN /\ obj' = [o \in Objects |-> IF o \in gone THEN Stopped(o) ELSE obj[o]]
     /\ servers' = [l \in Labels |-> IF l \in labels THEN NoServer ELSE servers[l]]
     /\ later' = later \o SetToSeq({[what |-> "delServer", label |-> l] : l \in labels}) \o more

\* BaseServer.setup: every option anew; the database and the connection stay
Setup(o, l, entry) ==
  [obj[o] EXCEPT !.label = l, !.entry = entry, !.born = IF o > made THEN entry.file ELSE @]

\* _loadsettings: setup() of who is known, a Server for who is not
Read(content) ==
  LET added == SetToSeq({l \in DOMAIN content : servers[l] = NoServer})
      Number(l) == made + (CHOOSE i \in DOMAIN added : added[i] = l)
      now == [l \in Labels |-> IF servers[l] = NoServer /\ l \in DOMAIN content
                               THEN Number(l) ELSE servers[l]]
  IN /\ made + Len(added) <= MaxServers
     /\ made' = made + Len(added)
     /\ servers' = now
     /\ obj' = [o \in Objects |->
                  IF \E l \in DOMAIN content : now[l] = o
                  THEN LET l == CHOOSE k \in DOMAIN content : now[k] = o IN Setup(o, l, content[l])
                  ELSE obj[o]]
     /\ newservers' = {now[l] : l \in ToSet(added)}
     /\ oldservers' = {l \in Labels : servers[l] # NoServer /\ l \notin DOMAIN content}
     /\ hurried' = (hurried \ ToSet(added))
                     \cup {l \in ToSet(added) : \E i \in DOMAIN later : later[i].label = l}
     /\ reactor' = [at |-> "disconnect", todo |-> {}]

\* Settings.load and initialize, or exit if the file cannot be used
Boot ==
  /\ process = "boot" /\ reactor.at = "idle"
  /\ \/ /\ file = BadConfig /\ process' = "dead"
        /\ UNCHANGED <<serverVars, obj, stageVars, reactor, manager>>
     \/ /\ file # BadConfig /\ Read(file) /\ manager' = TRUE
        /\ UNCHANGED <<process, cut>>
  /\ UNCHANGED <<file, later, db, registryVars, posted, loads, complete>>

\* _reallyReload, of a file that may have been edited since; stage 2 finds what is
\* wrong with the source now
Reload ==
  /\ Idle /\ loads < MaxReloads /\ loads' = loads + 1
  /\ file' \in Configs \cup {file, BadConfig}
  /\ \/ file' = BadConfig /\ UNCHANGED <<servers, made, hurried, obj, stageVars, reactor>>
     \/ file' # BadConfig /\ Read(file')
  /\ UNCHANGED <<cut, later, dbVars, registryVars, posted, process, complete>>

----------------------------------------------------------------------------
(* Stage 2.                                                                *)

\* An exception leaves the rest of stage 2 undone; while booting, it ends the process.
Raise ==
  /\ reactor' = [at |-> "idle", todo |-> {}]
  /\ complete' = FALSE
  /\ process' = IF process = "boot" THEN "dead" ELSE process

DisconnectOld ==
  /\ reactor.at = "disconnect"
  /\ Removed(oldservers, <<>>)
  /\ reactor' = [at |-> "databases", todo |-> newservers]
  /\ UNCHANGED <<file, made, cut, hurried, stageVars, dbVars, registryVars, posted, process, loads,
                 complete>>

CreateDatabase(o) ==
  /\ reactor.at = "databases" /\ reactor.todo # {} /\ o = Min(reactor.todo)
  /\ \/ /\ manager
        /\ db' = [db EXCEPT ![obj[o].label] = obj[o].entry.file]
        /\ reactor' = [reactor EXCEPT !.todo = @ \ {o}]
        /\ UNCHANGED <<complete, process, cut>>
     \/ /\ obj[o].entry.file # MainFile \/ ~manager    \* DBaccess(), or the call, raises
        /\ Raise /\ cut' = cut \cup newservers /\ UNCHANGED db
  /\ UNCHANGED <<file, servers, made, hurried, obj, stageVars, later, manager, registryVars,
                 posted, loads>>

\* Mutant: what was unloaded before is unloaded again.
UnloadAgain ==
  LET leaving == Instances(imported \cap activated)
  IN /\ running' = running \ leaving
     /\ stray' = (stray \/ ~(leaving \subseteq running))

\* ModuleRegistry.unload
Unload ==
  LET leaving == Instances((imported \cap activated) \ unloaded)
  IN /\ running' = running \ leaving
     /\ stray' = (stray \/ ~(leaving \subseteq running))

ResetRegistry ==
  /\ reactor.at = "databases" /\ reactor.todo = {}
  /\ Unload
  /\ gen' = gen + 1 /\ faults' \in FaultSets
  /\ imported' = {} /\ active' = [l \in Labels |-> {}] /\ activated' = {} /\ unloaded' = {}
  /\ reactor' = [at |-> "modules", todo |-> Registered]
  /\ UNCHANGED <<file, serverVars, obj, stageVars, later, dbVars, posted, process,
                 loads, complete>>

\* _build_event_map; get_mappings() of a module may raise, which leaves it not whole
Mapped(mods) == mods \cap faults.mappings = {}
EventMap(mods) == IF Mapped(mods) THEN Instances(mods) ELSE {}

\* Mutant: nothing tells the modules that their server is connected already.
LoadSilently(o) ==
  LET e == obj[o].entry
      load == LoadAll(e.modules, e.denied, imported, faults)
  IN /\ imported' = load.imported
     /\ active' = [active EXCEPT ![obj[o].label] = load.active]
     /\ activated' = activated \cup load.active
     /\ running' = running \cup Instances(load.active \ unloaded)
     /\ obj' = [obj EXCEPT ![o].map = EventMap(load.active), ![o].armed = FALSE]
     /\ posted' = posted

\* Server.reload_modules; the modules of a connected server are told so
LoadServer(o) ==
  LET e == obj[o].entry
      load == LoadAll(e.modules, e.denied, imported, faults)
  IN /\ imported' = load.imported
     /\ active' = [active EXCEPT ![obj[o].label] = load.active]
     /\ activated' = activated \cup load.active
     /\ running' = running \cup Instances(load.active \ unloaded)
     /\ obj' = [obj EXCEPT ![o].map = EventMap(load.active), ![o].armed = FALSE]
     /\ posted' = IF Mapped(load.active) /\ Bot(o) THEN posted \cup {o} ELSE posted

Loads(o) == Mapped(active'[obj[o].label])

ReloadModules(o) ==
  /\ reactor.at = "modules" /\ reactor.todo # {} /\ o = Min(reactor.todo)
  /\ LoadServer(o)
  /\ \/ /\ Loads(o) /\ reactor' = [reactor EXCEPT !.todo = @ \ {o}]
        /\ UNCHANGED <<complete, process, cut>>
     \/ ~Loads(o) /\ Raise /\ cut' = cut \cup newservers
  /\ UNCHANGED <<file, servers, made, hurried, stageVars, later, dbVars, gen, unloaded, faults,
                 stray, loads>>

ConnectNew ==
  /\ reactor.at = "modules" /\ reactor.todo = {}
  /\ reactor' = [at |-> "connect", todo |-> newservers]
  /\ UNCHANGED <<file, serverVars, obj, stageVars, later, dbVars, registryVars, posted, process,
                 loads, complete>>

\* _connect; a server whose certificate cannot be used is retired
Connect(o) ==
  /\ reactor.at = "connect" /\ reactor.todo # {} /\ o = Min(reactor.todo)
  /\ reactor' = [reactor EXCEPT !.todo = @ \ {o}]
  /\ \/ /\ obj' = [obj EXCEPT ![o].conn = "trying", ![o].retry = TRUE]
        /\ UNCHANGED <<servers, db>>
     \/ /\ db' = [db EXCEPT ![obj[o].label] = MainFile]
        /\ servers' = [servers EXCEPT ![obj[o].label] = NoServer]
        /\ UNCHANGED obj
  /\ UNCHANGED <<file, made, cut, hurried, stageVars, later, manager, registryVars, posted, process,
                 loads, complete>>

Done ==
  /\ reactor.at = "connect" /\ reactor.todo = {}
  /\ reactor' = [at |-> "idle", todo |-> {}]
  /\ newservers' = {} /\ oldservers' = {} /\ complete' = TRUE
  /\ process' = IF process = "boot" THEN "up" ELSE process
  /\ UNCHANGED <<file, serverVars, obj, later, dbVars, registryVars, posted, loads>>

Stage2 == \/ DisconnectOld \/ ResetRegistry \/ ConnectNew \/ Done
          \/ \E o \in Objects : CreateDatabase(o) \/ ReloadModules(o) \/ Connect(o)

----------------------------------------------------------------------------
(* Commands, the operator, the end.                                        *)

\* saveOptions, of the servers there are
Saved == IF Registered = {} THEN Example
         ELSE [l \in {k \in Labels : servers[k] # NoServer} |-> obj[servers[l]].entry]

\* Container.reloadModules(save_options=True): one server, and nothing is unloaded.
\* bound: not for a server that a reload has removed.
ReloadOwnModules(o) ==
  /\ Idle /\ Bot(o) /\ (o \in Registered \/ process = "stopping") /\ loads < MaxReloads /\ loads' = loads + 1
  /\ file' = Saved
  /\ LoadServer(o)
  /\ complete' = (complete /\ Loads(o))
  /\ UNCHANGED <<serverVars, stageVars, reactor, later, dbVars, gen, unloaded, faults, stray,
                 process>>

\* shutdown, of updaterelaunch or of SIGTERM; bound: asked for once
Shutdown ==
  /\ Idle /\ process = "up"
  /\ Removed({l \in Labels : servers[l] # NoServer},
             <<[what |-> "dbshutdown", label |-> "none"], [what |-> "stop", label |-> "none"]>>)
  /\ Unload /\ unloaded' = unloaded \cup (imported \cap activated)
  /\ process' = "stopping"
  /\ UNCHANGED <<file, made, cut, hurried, stageVars, reactor, dbVars, gen, imported, active,
                 activated, faults, posted, loads, complete>>

\* reactor.stop, of SIGHUP or of shutdown; after it hardshutdown
Stop ==
  /\ Unload /\ unloaded' = unloaded \cup (imported \cap activated)
  /\ manager' = FALSE /\ process' = "over" /\ later' = <<>>
  /\ obj' = [o \in Objects |-> NoObject] /\ posted' = {}
  /\ UNCHANGED <<file, serverVars, stageVars, reactor, db, gen, imported, active, activated,
                 faults, loads, complete>>
Sighup == Idle /\ Stop

\* seconds, halved: only calls asked for with a shorter delay overtake
Delay(c) == CASE c.what = "delServer" -> 2 [] c.what = "dbshutdown" -> 4 [] c.what = "stop" -> 5

\* a delayed call; delServer raises when the manager is gone
RunLater(i) ==
  LET c == later[i] IN
  /\ Idle /\ \A j \in 1..(i - 1) : Delay(later[j]) > Delay(c)
  /\ \/ c.what = "stop" /\ Stop
     \/ /\ c.what # "stop"
        /\ later' = RemoveAt(later, i)
        /\ db' = IF c.what = "delServer" /\ manager THEN [db EXCEPT ![c.label] = MainFile] ELSE db
        /\ manager' = (manager /\ c.what # "dbshutdown")
        /\ UNCHANGED <<file, serverVars, obj, stageVars, reactor, registryVars, posted, process,
                       loads, complete>>

Next == \/ Boot \/ Reload \/ Stage2 \/ Shutdown \/ Sighup
        \/ \E o \in Objects : \/ Opened(o) \/ SignedOn(o) \/ Lost(o) \/ Posted(o)
                              \/ ReloadOwnModules(o)
        \/ \E i \in DOMAIN later : RunLater(i)

Spec == Init /\ [][Next]_vars

----------------------------------------------------------------------------
(* Properties.                                                             *)

Entries == [file : Files, modules : Seq(Modules), denied : SUBSET Modules]

TypeOK ==
  /\ servers \in [Labels -> Objects \cup {NoServer}]
  /\ \A o \in Objects :
       /\ obj[o].entry \in Entries /\ obj[o].born \in Files
       /\ obj[o].conn \in {"none", "trying", "open", "up", "closing"}
       /\ obj[o].map \subseteq Modules \X Nat
  /\ newservers \subseteq 1..made /\ oldservers \subseteq Labels /\ made \in 0..MaxServers
  /\ db \in [Labels -> Files] /\ active \in [Labels -> SUBSET Modules]
  /\ activated \cup unloaded \cup imported \subseteq Modules
  /\ running \subseteq Modules \X Nat
  /\ process \in {"boot", "up", "stopping", "over", "dead"}

Settled == Idle /\ process = "up" /\ complete

\* After a load that came to its end each server has the modules its configuration
\* gives it and all they require, no others, and its events go to these and to no
\* instance of an earlier generation (load_module's depth-first order, failures and
\* circles; reload_servers and reload_modules over several servers).
ModulesAsConfigured ==
  Settled => \A o \in Registered :
    /\ active[obj[o].label] = Closure(obj[o].entry.modules, obj[o].entry.denied, faults)
    /\ obj[o].map = Instances(active[obj[o].label])

\* A server of the configuration has a connection that is kept up and the database it
\* was created with; one that was removed has neither, the second apart that delServer
\* waits.  Not so for servers of a reload that raised, or added again within that
\* second, both findings; nor for a connection that was open but not signed on.
ServersAsConfigured ==
  Settled => \A l \in Labels :
    LET o == servers[l] IN
    /\ o # NoServer /\ o \notin cut =>
         /\ obj[o].retry /\ obj[o].conn # "none"
         /\ l \notin hurried => db[l] = obj[o].born
    /\ o = NoServer /\ (\A i \in DOMAIN later : later[i].label # l) /\ l \notin hurried => db[l] = MainFile
    /\ \A p \in Objects \ Registered : ~obj[p].retry /\ obj[p].conn # "trying"

\* Once a load or reload is over, what runs is what the configuration says: its
\* servers, their connections, databases and modules.
RunsAsConfigured == TypeOK /\ ServersAsConfigured /\ ModulesAsConfigured

\* Every instance of a module that was activated gets one unload(), before the next
\* generation is loaded or at the latest as the process ends, whatever reloads,
\* failures and shutdowns do (reset, unload, shutdown, hardshutdown).
InstancesEnd ==
  /\ ~stray
  /\ Idle => \A i \in running : i[2] = gen
  /\ process = "over" => running = {}

\* An active module of a server that is signed on has had a signedon to arm its timers
\* by, or is about to get it (reload_modules' synthetic one against signedOn).
Rearmed ==
  Settled => \A o \in Registered :
    obj[o].conn = "up" /\ o \notin posted => obj[o].armed
=============================================================================
