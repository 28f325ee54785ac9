--------------------------- MODULE UpdateRelaunch ---------------------------
(***************************************************************************)
(* The self-update of pyburlybot_modules/updaterelaunch.py: pushes to the    *)
(* tracked branch, the posts that ask for a check, the debounce window, the  *)
(* checks in worker threads under _update_lock, and what they apply: a hot   *)
(* reload of the modules, this one included, or a restart of the process.    *)
(*                                                                         *)
(* A reload imports the module anew: its globals (_update_lock,              *)
(* _restart_pending, _Pending, _seen_events) are those of one generation,    *)
(* and a thread goes on with those of the generation it began in.            *)
(***************************************************************************)
EXTENDS Naturals, Sequences, FiniteSets

CONSTANTS Threads,        \* worker threads of the reactor's pool
          Kinds,          \* what a commit touches: "core", "deps", "modules", "docs"
          Posts,          \* bound: update events posted
          Servers,        \* how many servers a broadcast is delivered to
          MaxPushes,      \* bound: commits pushed
          MaxAsks,        \* bound: commands of admins
          MaxGen          \* bound: reloads of the modules

Gen == 0..MaxGen
Count == 0..MaxPushes
NeedRestart == {"core", "deps"}

ASSUME UpdateAssumption ==
  /\ Kinds \subseteq {"core", "deps", "modules", "docs"}
  /\ {Servers, MaxPushes, MaxAsks, MaxGen} \subseteq Nat

VARIABLES
  remote,           \* kinds of the commits on the remote branch
  origin, head,     \* commits fetched, commits merged into the checkout
  core, mods,       \* commits the running core and the loaded modules come from
  auto,             \* the option auto_restart
  phase,            \* "up", "stopping" (Settings.shutdown was called), "stopped" (reactor.stop)
  gen,              \* generation of the modules
  lock, pending, call, seen,   \* the module's globals, by generation
  copies,           \* deliveries of a post still to come
  thread,           \* the check a worker thread runs, or Idle
  asks,             \* commands of admins given
  requested,        \* commits pushed when a check was last scheduled (history)
  owed,             \* commits a check found to touch modules (history)
  dropped,          \* those of them whose reload raised (history)
  failed            \* a check failed (history)

globals == <<lock, pending, call, seen>>
git == <<remote, origin, head>>
running == <<core, mods, auto, phase, gen>>
history == <<requested, owed, dropped, failed>>
vars == <<git, running, globals, copies, thread, asks, history>>

Idle == [at |-> "idle"]
Busy == [at : {"waiting", "fetch", "diff", "merge", "pip", "decide", "reload", "restart", "notify"},
         gen : Gen, by : {"event", "admin"}, changes : SUBSET Count]   \* the commits it found
Free == "free"

Init ==
  /\ remote = <<>> /\ origin = 0 /\ head = 0 /\ core = 0 /\ mods = 0
  /\ auto \in BOOLEAN /\ phase = "up" /\ gen = 0
  /\ lock = [g \in Gen |-> Free] /\ pending = [g \in Gen |-> FALSE]
  /\ call = [g \in Gen |-> FALSE] /\ seen = [g \in Gen |-> {}]
  /\ copies = [p \in Posts |-> Servers]
  /\ thread = [t \in Threads |-> Idle]
  /\ asks = 0
  /\ requested = 0 /\ owed = {} /\ dropped = {} /\ failed = FALSE

Serving == phase # "stopped"     \* the reactor runs what it is given
At(t, where) == thread[t].at = where
Move(t, to) == thread' = [thread EXCEPT ![t].at = to]
Finish(t) == thread' = [thread EXCEPT ![t] = Idle]

\* what the result of a check says it touches
Commits(t, kinds) == {i \in thread[t].changes : remote[i] \in kinds}

----------------------------------------------------------------------------
(* Outside: pushes, posts and the admin.                                   *)

Push(k) ==
  /\ Len(remote) < MaxPushes
  /\ remote' = Append(remote, k)
  /\ UNCHANGED <<origin, head, running, globals, copies, thread, asks, history>>

\* event_id not in _seen_events
FirstSeen(p) == p \notin seen[gen]

\* update_event of an authorized push, and _schedule_check: one delivery of a post.
\* It begins the debounce window or, if one runs, begins it again.
Deliver(p) ==
  /\ phase = "up" /\ copies[p] > 0
  /\ copies' = [copies EXCEPT ![p] = @ - 1]
  /\ \/ FirstSeen(p) /\ call' = [call EXCEPT ![gen] = TRUE] /\ requested' = Len(remote)
     \/ ~FirstSeen(p) /\ UNCHANGED <<call, requested>>
  /\ seen' = [seen EXCEPT ![gen] = @ \cup {p}]
  /\ UNCHANGED <<git, running, lock, pending, thread, asks, owed, dropped, failed>>

Begin(t, g, who, where) ==
  /\ thread[t] = Idle
  /\ thread' = [thread EXCEPT ![t] = [at |-> where, gen |-> g, by |-> who, changes |-> {}]]

\* _fire_pending, when the window has passed: _event_update_check in a thread
FirePending(g, t) ==
  /\ Serving /\ call[g]
  /\ call' = [call EXCEPT ![g] = FALSE]
  /\ Begin(t, g, "event", "waiting")
  /\ UNCHANGED <<git, running, lock, pending, seen, copies, asks, history>>

\* update, the admin's command, which gives up if the lock is taken
AdminUpdate(t) ==
  /\ phase = "up" /\ asks < MaxAsks /\ asks' = asks + 1
  /\ \/ /\ lock[gen] = Free
        /\ Begin(t, gen, "admin", "fetch")
        /\ lock' = [lock EXCEPT ![gen] = t]
     \/ lock[gen] # Free /\ thread[t] = Idle /\ UNCHANGED <<thread, lock>>
  /\ UNCHANGED <<git, running, pending, call, seen, copies, history>>

\* local_update, with the option debug
LocalUpdate(t) ==
  /\ phase = "up" /\ asks < MaxAsks /\ asks' = asks + 1
  /\ Begin(t, gen, "admin", "restart")
  /\ UNCHANGED <<git, running, globals, copies, history>>

\* _reallyReload, _reload_all: every module is imported anew.  Stage 1 raises for a
\* configuration file it cannot use, stage 2 for a database it cannot open, and no module
\* is touched; one that raises later has reset the registry (Lifecycle).
ReloadModules == gen < MaxGen /\ gen' = gen + 1 /\ mods' = head
ReloadRaises == UNCHANGED <<gen, mods>>

\* reload.py: an admin's reload, or an authorized reload event
ReloadBot ==
  /\ phase = "up" /\ asks < MaxAsks /\ asks' = asks + 1
  /\ ReloadModules \/ ReloadRaises
  /\ UNCHANGED <<git, core, auto, phase, globals, copies, thread, history>>

----------------------------------------------------------------------------
(* A check in a worker thread.                                             *)

Unlock(t) == lock' = [lock EXCEPT ![thread[t].gen] = Free]

\* Mutant: a check that finds another under way gives up.
AcquireOrSkip(t) ==
  /\ At(t, "waiting")
  /\ IF lock[thread[t].gen] = Free
     THEN lock' = [lock EXCEPT ![thread[t].gen] = t] /\ Move(t, "fetch")
     ELSE Finish(t) /\ UNCHANGED lock
  /\ UNCHANGED <<git, running, pending, call, seen, copies, asks, history>>

\* with _update_lock: blocks until it is free
Acquire(t) ==
  /\ At(t, "waiting") /\ lock[thread[t].gen] = Free
  /\ lock' = [lock EXCEPT ![thread[t].gen] = t] /\ Move(t, "fetch")
  /\ UNCHANGED <<git, running, pending, call, seen, copies, asks, history>>

\* git or pip fails; an unattended check still holds the lock while it tells the admins,
\* whom it asks the reactor for (the option is copied there)
Fail(t) ==
  /\ thread[t].at \in {"fetch", "diff", "merge", "pip"}
  /\ IF thread[t].by = "event" THEN Move(t, "notify") /\ UNCHANGED lock
                               ELSE Finish(t) /\ Unlock(t)
  /\ failed' = TRUE
  /\ UNCHANGED <<git, running, pending, call, seen, copies, asks, requested, owed, dropped>>

Fetch(t) ==
  /\ At(t, "fetch") /\ Move(t, "diff")
  /\ origin' = Len(remote)
  /\ UNCHANGED <<remote, head, running, globals, copies, asks, history>>

\* git diff HEAD origin, and _classify_changes
Diff(t) ==
  /\ At(t, "diff")
  /\ thread' = [thread EXCEPT ![t].changes = (head + 1)..origin,
                              ![t].at = IF head < origin THEN "merge" ELSE "decide"]
  /\ IF head < origin THEN UNCHANGED lock ELSE Unlock(t)
  /\ UNCHANGED <<git, running, pending, call, seen, copies, asks, history>>

\* git merge --ff-only origin: up to whatever is fetched by now
Merge(t) ==
  /\ At(t, "merge")
  /\ head' = origin
  /\ IF Commits(t, {"deps"}) # {} THEN Move(t, "pip") /\ UNCHANGED lock
                                     ELSE Move(t, "decide") /\ Unlock(t)
  /\ UNCHANGED <<remote, origin, running, pending, call, seen, copies, asks, history>>

PipInstall(t) ==
  /\ At(t, "pip") /\ Move(t, "decide") /\ Unlock(t)
  /\ UNCHANGED <<git, running, pending, call, seen, copies, asks, history>>

NeedsRestart(t) == Commits(t, NeedRestart) # {} \/ pending[thread[t].gen]
MayRestart(t) == thread[t].by = "admin" \/ auto

\* Mutant: a restart that has to wait holds back the reload.
ReloadsIfNothingElse(t) == Commits(t, {"modules"}) # {} /\ ~NeedsRestart(t)

Reloads(t) == Commits(t, {"modules"}) # {} /\ ~(NeedsRestart(t) /\ MayRestart(t))

\* what update and _event_update_check make of the result, the lock released
Decide(t) ==
  /\ At(t, "decide")
  /\ pending' = [pending EXCEPT ![thread[t].gen] = NeedsRestart(t) /\ ~MayRestart(t)]
  /\ \/ NeedsRestart(t) /\ MayRestart(t) /\ Move(t, "restart")
     \/ Reloads(t) /\ Move(t, "reload")
     \/ ~(NeedsRestart(t) /\ MayRestart(t)) /\ ~Reloads(t) /\ Finish(t)
  /\ owed' = owed \cup Commits(t, {"modules"})
  /\ UNCHANGED <<git, running, lock, call, seen, copies, asks, requested, dropped, failed>>

\* call_in_reactor(_reload_all): what it raises ends the check, and nothing tries again
Reload(t) ==
  /\ At(t, "reload") /\ Serving
  /\ \/ ReloadModules /\ UNCHANGED dropped
     \/ ReloadRaises /\ dropped' = dropped \cup Commits(t, {"modules"})
  /\ Finish(t)
  /\ UNCHANGED <<git, core, auto, phase, globals, copies, asks, requested, owed, failed>>

\* call_in_reactor(Settings.shutdown, True)
Restart(t) ==
  /\ At(t, "restart") /\ Serving
  /\ phase' = "stopping" /\ Finish(t)
  /\ UNCHANGED <<git, core, mods, auto, gen, globals, copies, asks, history>>

\* _notify_admins, and the end of the with
Notify(t) ==
  /\ At(t, "notify") /\ Serving /\ Finish(t) /\ Unlock(t)
  /\ UNCHANGED <<git, running, pending, call, seen, copies, asks, history>>

Check(t) == \/ Acquire(t) \/ Fetch(t) \/ Diff(t) \/ Merge(t) \/ PipInstall(t) \/ Fail(t)
            \/ Decide(t) \/ Reload(t) \/ Restart(t) \/ Notify(t)

----------------------------------------------------------------------------
(* The process.                                                            *)

\* reactor.stop, two and a half seconds after shutdown
Stop ==
  /\ phase = "stopping" /\ phase' = "stopped"
  /\ UNCHANGED <<git, core, mods, auto, gen, globals, copies, thread, asks, history>>

\* The reactor has joined the threads of its pool; atexit runs relaunchfunc.
Relaunch ==
  /\ phase = "stopped" /\ \A t \in Threads : thread[t] = Idle
  /\ phase' = "up" /\ gen' = 0 /\ core' = head /\ mods' = head
  /\ lock' = [g \in Gen |-> Free] /\ pending' = [g \in Gen |-> FALSE]
  /\ call' = [g \in Gen |-> FALSE] /\ seen' = [g \in Gen |-> {}]
  /\ copies' = [p \in Posts |-> 0]
  /\ requested' = 0 /\ owed' = {} /\ dropped' = {}
  /\ UNCHANGED <<git, auto, thread, asks, failed>>

Next == \/ \E k \in Kinds : Push(k)
        \/ \E p \in Posts : Deliver(p)
        \/ \E t \in Threads : AdminUpdate(t) \/ LocalUpdate(t) \/ Check(t)
                              \/ \E g \in Gen : FirePending(g, t)
        \/ ReloadBot \/ Stop \/ Relaunch

\* Threads and the reactor run; nobody need push, post or ask.
Fairness == /\ \A t \in Threads : WF_vars(Check(t))
            /\ \A g \in Gen : WF_vars(\E t \in Threads : FirePending(g, t))
            /\ WF_vars(Stop) /\ WF_vars(Relaunch)
Spec == Init /\ [][Next]_vars /\ Fairness

----------------------------------------------------------------------------
(* Properties.                                                             *)

\* The comment in _event_update_check: "a trigger that arrives during a running
\* check is never lost".  What was pushed before a check was scheduled is merged,
\* whatever checks and reloads are under way, unless one fails or a restart comes.
TriggerIsNotLost ==
  \A n \in 1..MaxPushes : requested >= n ~> head >= n \/ failed \/ phase # "up"

\* "a pending restart must not starve module hot-reloads": module changes a check
\* found are loaded, whatever checks and reloads run beside it.  A check whose own
\* reload raises loses them (a finding); those of every other check are still loaded.
ModulesAreLoaded ==
  \A n \in 1..MaxPushes : n \in owed ~> mods >= n \/ n \in dropped \/ phase # "up"

\* What that comment promises without the exception, and what the code does not keep: a
\* merge is not repeated, so modules whose reload raised wait for someone's reload.
NoReloadIsLost ==
  \A n \in 1..MaxPushes : n \in owed ~> mods >= n \/ phase # "up"

\* The comment on _restart_pending: "the next !update (or event-triggered check with
\* auto_restart enabled) applies it".  A core change that was merged and waits for
\* its restart is remembered by the module that is loaded.
RestartIsRemembered ==
  (\A t \in Threads : thread[t] = Idle) /\ ~failed /\ phase = "up"
    /\ (\E i \in (core + 1)..head : remote[i] \in NeedRestart)
      => pending[gen]

\* docs/deploy/docker.md: "core changes restart in place".
RestartHappens == phase = "stopped" ~> phase = "up"

\* The comment in _check_and_apply: "diff from HEAD ... so the classification always
\* describes exactly what the merge below applies".
MergeIsClassified ==
  \A t \in Threads : At(t, "merge") =>
    thread[t].changes = (head + 1)..origin
============================================================================
