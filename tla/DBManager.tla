----------------------------- MODULE DBManager -----------------------------
(***************************************************************************)
(* util/db.py: the DBManager thread that maps server labels onto database   *)
(* workers, the DBaccess workers that own one SQLite connection each, and   *)
(* the threads that call them.  Every call is a queue entry followed by a   *)
(* blocking wait for its result; _STOP ends a queue.                        *)
(*                                                                         *)
(* The queue entries are the callers themselves: a caller blocks on its one *)
(* call, so its arguments are read from req[c].  A label absent from        *)
(* serverDBMap is one mapped to Main, which is what _getDB's default makes  *)
(* of it.                                                                   *)
(***************************************************************************)
EXTENDS Integers, Sequences, FiniteSets

CONSTANTS Clients,        \* pool threads: query, batch and the hourly dbcommit
          Reactor,        \* the reactor thread: addServer, delServer, shutdown
          Manager,        \* the manager thread, as a caller of checkpoint()
          STOP, NoOne,
          Calls,          \* caller -> the requests it may make
          Labels, Files, MainFile,
          BrokenFiles,    \* files for which DBaccess() raises
          Unopenable,     \* files whose connection or PRAGMAs may fail in run()
          RemapBroken,    \* may a label that is mapped be moved to a broken file?
          MaxDB,          \* bound: DBaccess objects created besides mainDB
          BatchLen,       \* bound: statements of a batch
          MaxOps          \* bound: how many calls each caller makes

Main == 0
NoDB == MaxDB + 1
DBs == 0..MaxDB
Callers == Clients \cup {Reactor}
AllFiles == Files \cup {MainFile}
Stmts == 1..BatchLen
ClientOps == {"query", "batch", "commit"}
Operations == ClientOps \cup {"add", "del", "shutdown"}
Requests == [op : Operations, label : Labels, file : AllFiles]

ASSUME ConstantsAssumption ==
  /\ MaxDB \in Nat /\ BatchLen \in Nat \ {0} /\ MaxOps \in [Callers -> Nat]
  /\ Reactor \notin Clients /\ Manager \notin Callers
  /\ STOP \notin Callers \cup {Manager} /\ NoOne \notin Callers \cup {Manager, STOP}
  /\ MainFile \notin Files /\ BrokenFiles \subseteq Files
  /\ Calls \in [Callers -> SUBSET Requests]
  /\ \A c \in Callers : \A r \in Calls[c] : r.op \in ClientOps <=> c \in Clients
  /\ Unopenable \subseteq AllFiles /\ RemapBroken \in BOOLEAN
  /\ Labels # {} /\ IsFiniteSet(Labels)

VARIABLES
  serverDBMap,  \* label -> worker, Main when the label has no entry
  fileDBMap,    \* file -> worker or NoDB
  dbFile,       \* worker -> its datafile
  servers,      \* worker -> reference count
  stopping,     \* worker -> _stopping
  thread,       \* worker -> "none", "starting", "idle", "busy", "ended", "failed"
  qq,           \* worker -> its work queue
  job,          \* worker -> [who, at, step]: the work in hand
  txn,          \* worker -> its connection's open transaction, [open, writes]
  stored,       \* file -> committed writes
  callQueue,    \* the manager's queue
  mgr,          \* the manager: [pc, who, db, todo]
  pc, req, handle, reply, count  \* per caller

mapVars == <<serverDBMap, fileDBMap, dbFile, servers>>
workVars == <<job, txn, stored>>
callerVars == <<pc, req, handle, count>>
vars == <<serverDBMap, fileDBMap, dbFile, servers, stopping, thread, qq, job, txn,
          stored, callQueue, mgr, pc, req, handle, reply, count>>

NoJob == [who |-> NoOne, at |-> "start", step |-> 0]
NoTxn == [open |-> FALSE, writes |-> {}]
FreeMgr == [pc |-> "get", who |-> NoOne, db |-> NoDB, todo |-> {}]
SomeLabel == CHOOSE l \in Labels : TRUE
NoReq == [op |-> "query", label |-> SomeLabel, file |-> MainFile]

Writes(c) == {<<c, count[c], i>> : i \in IF req[c].op = "batch" THEN Stmts ELSE {1}}
Alive(d) == thread[d] \in {"starting", "idle", "busy"}
ManagerAlive == mgr.pc # "ended"
Mapped == {serverDBMap[l] : l \in Labels} \ {Main}
Unborn == {d \in DBs : thread[d] = "none"}

Init ==
  /\ serverDBMap = [l \in Labels |-> Main]
  /\ fileDBMap = [f \in Files |-> NoDB]
  /\ dbFile = [d \in DBs |-> MainFile]
  /\ servers = [d \in DBs |-> IF d = Main THEN 1 ELSE 0]
  /\ stopping = [d \in DBs |-> FALSE]
  /\ thread = [d \in DBs |-> IF d = Main THEN "starting" ELSE "none"]
  /\ qq = [d \in DBs |-> <<>>]
  /\ job = [d \in DBs |-> NoJob]
  /\ txn = [d \in DBs |-> NoTxn]
  /\ stored = [f \in AllFiles |-> {}]
  /\ callQueue = <<>>
  /\ mgr = FreeMgr
  /\ pc = [c \in Callers |-> "idle"]
  /\ req = [c \in Callers |-> NoReq]
  /\ handle = [c \in Callers |-> Main]
  /\ reply = [c \in Callers \cup {Manager} |-> "none"]
  /\ count = [c \in Callers |-> 0]

----------------------------------------------------------------------------
(* Callers: ManagerThread.call, then DBaccess.query or batch.              *)

\* The calls a thread makes.  Only shutdown() ends the manager, and running
\* lets it do so once; createDatabases and _connect hand addServer a label.
MayRequest(c, r) ==
  /\ r \in Calls[c]
  /\ r.op = "add" => Unborn # {}
  /\ r.file \in BrokenFiles => RemapBroken \/ serverDBMap[r.label] = Main

\* call(): the is_alive() check, made without a lock
StartCall(c, r) ==
  /\ pc[c] = "idle" /\ count[c] < MaxOps[c] /\ ManagerAlive
  /\ MayRequest(c, r)
  /\ pc' = [pc EXCEPT ![c] = "put"]
  /\ req' = [req EXCEPT ![c] = r]
  /\ count' = [count EXCEPT ![c] = @ + 1]
  /\ UNCHANGED <<mapVars, stopping, thread, qq, workVars, callQueue, mgr, handle, reply>>

PutCall(c) ==
  /\ pc[c] = "put"
  /\ callQueue' = Append(callQueue, c)
  /\ pc' = [pc EXCEPT ![c] = "mwait"]
  /\ UNCHANGED <<mapVars, stopping, thread, qq, workVars, mgr, req, handle, reply, count>>

\* result_queue.get().unwrap() of the manager's answer
GetCallResult(c) ==
  /\ pc[c] = "mwait" /\ reply[c] # "none"
  /\ reply' = [reply EXCEPT ![c] = "none"]
  /\ pc' = [pc EXCEPT ![c] = IF req[c].op \in {"query", "batch"} THEN "submit"
                             ELSE IF req[c].op = "shutdown" THEN "stop"
                             ELSE "idle"]
  /\ UNCHANGED <<mapVars, stopping, thread, qq, workVars, callQueue, mgr, req, handle, count>>

\* ManagerThread.stop(), called by shutdown(): _STOP, then join
StopManager(c) ==
  /\ pc[c] = "stop"
  /\ callQueue' = Append(callQueue, STOP)
  /\ pc' = [pc EXCEPT ![c] = "join"]
  /\ UNCHANGED <<mapVars, stopping, thread, qq, workVars, mgr, req, handle, reply, count>>

JoinManager(c) ==
  /\ pc[c] = "join" /\ ~ManagerAlive
  /\ pc' = [pc EXCEPT ![c] = "idle"]
  /\ UNCHANGED <<mapVars, stopping, thread, qq, workVars, callQueue, mgr, req, handle, reply, count>>

\* Mutant: the check forgets _stopping.
AcceptsStopping(d) == Alive(d)

\* _submit under its lock: refused, or enqueued
Accepts(d) == Alive(d) /\ ~stopping[d]

Submit(c) ==
  /\ pc[c] = "submit"
  /\ IF Accepts(handle[c])
     THEN /\ qq' = [qq EXCEPT ![handle[c]] = Append(@, c)]
          /\ pc' = [pc EXCEPT ![c] = "dwait"]
          /\ UNCHANGED handle
     ELSE /\ pc' = [pc EXCEPT ![c] = "idle"]
          /\ handle' = [handle EXCEPT ![c] = Main]
          /\ UNCHANGED qq
  /\ UNCHANGED <<mapVars, stopping, thread, workVars, callQueue, mgr, req, reply, count>>

GetResult(c) ==
  /\ pc[c] = "dwait" /\ reply[c] # "none"
  /\ reply' = [reply EXCEPT ![c] = "none"]
  /\ pc' = [pc EXCEPT ![c] = "idle"]
  /\ handle' = [handle EXCEPT ![c] = Main]
  /\ UNCHANGED <<mapVars, stopping, thread, qq, workVars, callQueue, mgr, req, count>>

Caller(c) == \/ PutCall(c) \/ GetCallResult(c) \/ StopManager(c) \/ JoinManager(c)
             \/ Submit(c) \/ GetResult(c)

----------------------------------------------------------------------------
(* The manager thread.                                                     *)

Serving(c, ops) == /\ mgr.pc = "get" /\ callQueue # <<>> /\ Head(callQueue) = c
                   /\ req[c].op \in ops
                   /\ callQueue' = Tail(callQueue)

Answer(c, r) == /\ reply' = [reply EXCEPT ![c] = r]
                /\ mgr' = FreeMgr

\* Mutant: stop() does not join.
NoJoin(d) == TRUE

Joined(d) == ~Alive(d)

\* DBaccess.stop() up to its join
StopWorker(d) ==
  IF Accepts(d) THEN /\ stopping' = [stopping EXCEPT ![d] = TRUE]
                     /\ qq' = [qq EXCEPT ![d] = Append(@, STOP)]
                ELSE UNCHANGED <<stopping, qq>>

MgrGetDB(c) ==
  /\ Serving(c, {"query", "batch"})
  /\ handle' = [handle EXCEPT ![c] = serverDBMap[req[c].label]]
  /\ Answer(c, "ok")
  /\ UNCHANGED <<mapVars, stopping, thread, qq, workVars, pc, req, count>>

\* _addServer's tail: share the file's worker, create one, or fail to.  fm and
\* sv are fileDBMap and servers as the release before it has left them.
BindFile(c, fm, sv) ==
  LET f == req[c].file
      Map(d) == serverDBMap' = [serverDBMap EXCEPT ![req[c].label] = d]
  IN \/ /\ fm[f] # NoDB
        /\ servers' = [sv EXCEPT ![fm[f]] = @ + 1]
        /\ Map(fm[f]) /\ fileDBMap' = fm
        /\ Answer(c, "ok")
        /\ UNCHANGED <<dbFile, thread>>
     \/ /\ fm[f] = NoDB /\ f \notin BrokenFiles
        /\ \E new \in Unborn :
             /\ \A d \in Unborn : new <= d
             /\ fileDBMap' = [fm EXCEPT ![f] = new]
             /\ servers' = [sv EXCEPT ![new] = 1]
             /\ dbFile' = [dbFile EXCEPT ![new] = f]
             /\ thread' = [thread EXCEPT ![new] = "starting"]
             /\ Map(new)
        /\ Answer(c, "ok")
     \/ /\ fm[f] = NoDB /\ f \in BrokenFiles
        /\ fileDBMap' = fm /\ servers' = sv
        /\ Answer(c, "error")
        /\ UNCHANGED <<serverDBMap, dbFile, thread>>

\* _release: a reference less; the last one stops the worker and waits for it
Released(d) == [servers EXCEPT ![d] = @ - 1]

ReleaseLast(c, d) ==
  /\ servers[d] = 1
  /\ servers' = Released(d)
  /\ StopWorker(d)
  /\ mgr' = [pc |-> "join", who |-> c, db |-> d, todo |-> {}]
  /\ UNCHANGED <<fileDBMap, dbFile, thread, reply>>

Drop(c, fm, sv) == /\ fileDBMap' = fm /\ servers' = sv
                   /\ Answer(c, "ok")
                   /\ UNCHANGED <<dbFile, thread>>

\* _delServer, and _addServer of the main file: pop the label, release its worker
MgrDelServer(c) ==
  LET old == serverDBMap[req[c].label]
  IN /\ Serving(c, {"add", "del"})
     /\ req[c].op = "add" => req[c].file = MainFile
     /\ serverDBMap' = [serverDBMap EXCEPT ![req[c].label] = Main]
     /\ \/ /\ old = Main
           /\ Drop(c, fileDBMap, servers)
           /\ UNCHANGED <<stopping, qq>>
        \/ /\ old # Main /\ servers[old] # 1
           /\ Drop(c, fileDBMap, Released(old))
           /\ UNCHANGED <<stopping, qq>>
        \/ old # Main /\ ReleaseLast(c, old)
     /\ UNCHANGED <<workVars, pc, req, handle, count>>

MgrAddServer(c) ==
  LET old == serverDBMap[req[c].label]
      moves == old # Main /\ dbFile[old] # req[c].file
  IN /\ Serving(c, {"add"})
     /\ req[c].file # MainFile
     /\ \/ /\ old # Main /\ ~moves
           /\ Answer(c, "ok")
           /\ UNCHANGED <<mapVars, stopping, thread, qq>>
        \/ /\ old = Main
           /\ BindFile(c, fileDBMap, servers)
           /\ UNCHANGED <<stopping, qq>>
        \/ /\ moves /\ servers[old] # 1
           /\ BindFile(c, fileDBMap, Released(old))
           /\ UNCHANGED <<stopping, qq>>
        \/ /\ moves
           /\ ReleaseLast(c, old)
           /\ UNCHANGED serverDBMap
     /\ UNCHANGED <<workVars, pc, req, handle, count>>

\* join() has returned: _release pops the file and its caller goes on
MgrJoined ==
  LET c == mgr.who
      fm == [fileDBMap EXCEPT ![dbFile[mgr.db]] = NoDB]
  IN /\ mgr.pc = "join" /\ req[c].op \in {"add", "del"}
     /\ Joined(mgr.db)
     /\ IF req[c].op = "add" /\ req[c].file # MainFile
        THEN BindFile(c, fm, servers)
        ELSE Drop(c, fm, servers) /\ UNCHANGED serverDBMap
     /\ UNCHANGED <<stopping, qq, workVars, callQueue, pc, req, handle, count>>

\* _shutdown and _dbcommit visit the workers of the labels, mainDB last
MgrVisit(c) ==
  /\ Serving(c, {"shutdown", "commit"})
  /\ mgr' = [pc |-> "next", who |-> c, db |-> NoDB, todo |-> Mapped \cup {Main}]
  /\ UNCHANGED <<mapVars, stopping, thread, qq, workVars, callerVars, reply>>

MayVisit(d) == d \in mgr.todo /\ (d = Main => mgr.todo = {Main})

\* database.stop(); the maps are cleared before mainDB's
MgrShutdownStop(d) ==
  /\ mgr.pc = "next" /\ req[mgr.who].op = "shutdown" /\ MayVisit(d)
  /\ StopWorker(d)
  /\ mgr' = [mgr EXCEPT !.pc = "join", !.db = d, !.todo = @ \ {d}]
  /\ IF d = Main
     THEN /\ serverDBMap' = [l \in Labels |-> Main]
          /\ fileDBMap' = [f \in Files |-> NoDB]
     ELSE UNCHANGED <<serverDBMap, fileDBMap>>
  /\ UNCHANGED <<dbFile, servers, thread, workVars, callQueue, callerVars, reply>>

MgrShutdownJoined ==
  /\ mgr.pc = "join" /\ req[mgr.who].op = "shutdown"
  /\ Joined(mgr.db)
  /\ \/ mgr.db # Main /\ mgr' = [mgr EXCEPT !.pc = "next"] /\ UNCHANGED reply
     \/ mgr.db = Main /\ Answer(mgr.who, "ok")
  /\ UNCHANGED <<mapVars, stopping, thread, qq, workVars, callQueue, callerVars>>

\* database.checkpoint(): _submit raises, or the manager waits for the worker
MgrCommitVisit(d) ==
  /\ mgr.pc = "next" /\ req[mgr.who].op = "commit" /\ MayVisit(d)
  /\ \/ /\ Accepts(d)
        /\ qq' = [qq EXCEPT ![d] = Append(@, Manager)]
        /\ mgr' = [mgr EXCEPT !.pc = "await", !.db = d, !.todo = @ \ {d}]
        /\ UNCHANGED reply
     \/ ~Accepts(d) /\ Answer(mgr.who, "error") /\ UNCHANGED qq
  /\ UNCHANGED <<mapVars, stopping, thread, workVars, callQueue, callerVars>>

MgrCommitted ==
  /\ mgr.pc = "await" /\ reply[Manager] # "none"
  /\ IF reply[Manager] = "ok" /\ mgr.todo # {}
     THEN /\ mgr' = [mgr EXCEPT !.pc = "next"]
          /\ reply' = [reply EXCEPT ![Manager] = "none"]
     ELSE /\ mgr' = FreeMgr
          /\ reply' = [reply EXCEPT ![Manager] = "none", ![mgr.who] = reply[Manager]]
  /\ UNCHANGED <<mapVars, stopping, thread, qq, workVars, callQueue, callerVars>>

MgrEnd ==
  /\ mgr.pc = "get" /\ callQueue # <<>> /\ Head(callQueue) = STOP
  /\ callQueue' = Tail(callQueue)
  /\ mgr' = [mgr EXCEPT !.pc = "ended"]
  /\ UNCHANGED <<mapVars, stopping, thread, qq, workVars, callerVars, reply>>

ManagerStep ==
  \/ \E c \in Callers : MgrGetDB(c) \/ MgrDelServer(c) \/ MgrAddServer(c) \/ MgrVisit(c)
  \/ MgrJoined \/ MgrShutdownJoined \/ MgrCommitted \/ MgrEnd
  \/ \E d \in DBs : MgrShutdownStop(d) \/ MgrCommitVisit(d)

----------------------------------------------------------------------------
(* DBaccess.run: the worker threads.                                       *)

otherVars == <<mapVars, stopping, callQueue, mgr, callerVars>>

Open(d) ==
  /\ thread[d] = "starting"
  /\ \/ thread' = [thread EXCEPT ![d] = "idle"]
     \/ dbFile[d] \in Unopenable /\ thread' = [thread EXCEPT ![d] = "failed"]
  /\ UNCHANGED <<otherVars, qq, workVars, reply>>

TakeWork(d) ==
  /\ thread[d] = "idle" /\ qq[d] # <<>>
  /\ qq' = [qq EXCEPT ![d] = Tail(@)]
  /\ IF Head(qq[d]) = STOP
     THEN thread' = [thread EXCEPT ![d] = "ended"] /\ UNCHANGED job
     ELSE /\ thread' = [thread EXCEPT ![d] = "busy"]
          /\ job' = [job EXCEPT ![d].who = Head(qq[d])]
  /\ UNCHANGED <<otherVars, txn, stored, reply>>

Working(d, at, op) ==
  /\ thread[d] = "busy" /\ job[d].at = at
  /\ op = IF job[d].who = Manager THEN "checkpoint" ELSE req[job[d].who].op

\* result_queue.put(_Result(...)), and back to qq.get()
Respond(d, r) == /\ reply' = [reply EXCEPT ![job[d].who] = r]
                 /\ thread' = [thread EXCEPT ![d] = "idle"]
                 /\ job' = [job EXCEPT ![d] = NoJob]

\* Mutant: statements of a batch are committed one by one.
ExecuteAutocommit(d, w) ==
  stored' = [stored EXCEPT ![dbFile[d]] = @ \cup {w}] /\ UNCHANGED txn

\* A statement writes to the connection's transaction if it has one, and is
\* committed at once (isolation_level=None) if it has none.
Execute(d, w) ==
  IF txn[d].open THEN /\ txn' = [txn EXCEPT ![d].writes = @ \cup {w}]
                      /\ UNCHANGED stored
                 ELSE /\ stored' = [stored EXCEPT ![dbFile[d]] = @ \cup {w}]
                      /\ UNCHANGED txn

Write(d, i) == <<job[d].who, count[job[d].who], i>>

\* The statement fails, or runs; then function(cursor) may still raise.
RunQuery(d) ==
  /\ Working(d, "start", "query")
  /\ \/ Respond(d, "error") /\ UNCHANGED <<txn, stored>>
     \/ /\ Execute(d, Write(d, 1))
        /\ \E r \in {"ok", "error"} : Respond(d, r)
  /\ UNCHANGED <<otherVars, qq>>

RunCheckpoint(d) ==
  /\ Working(d, "start", "checkpoint")
  /\ \E r \in {"ok", "error"} : Respond(d, r)
  /\ UNCHANGED <<otherVars, qq, txn, stored>>

\* BEGIN IMMEDIATE is outside the try: its failure is answered as it is
BatchBegin(d) ==
  /\ Working(d, "start", "batch")
  /\ \/ Respond(d, "error") /\ UNCHANGED txn
     \/ /\ ~txn[d].open
        /\ txn' = [txn EXCEPT ![d].open = TRUE]
        /\ job' = [job EXCEPT ![d].at = "txn"]
        /\ UNCHANGED <<reply, thread>>
  /\ UNCHANGED <<otherVars, qq, stored>>

BatchStatement(d) ==
  /\ Working(d, "txn", "batch") /\ job[d].step < BatchLen
  /\ \/ /\ Execute(d, Write(d, job[d].step + 1))
        /\ job' = [job EXCEPT ![d].step = @ + 1]
     \/ /\ job' = [job EXCEPT ![d].at = "rollback"]
        /\ UNCHANGED <<txn, stored>>
  /\ UNCHANGED <<otherVars, qq, thread, reply>>

BatchCommit(d) ==
  /\ Working(d, "txn", "batch") /\ job[d].step = BatchLen
  /\ \/ /\ stored' = [stored EXCEPT ![dbFile[d]] = @ \cup txn[d].writes]
        /\ txn' = [txn EXCEPT ![d] = NoTxn]
        /\ Respond(d, "ok")
     \/ /\ job' = [job EXCEPT ![d].at = "rollback"]
        /\ UNCHANGED <<txn, stored, thread, reply>>
  /\ UNCHANGED <<otherVars, qq>>

\* Mutant: the exception is answered without a ROLLBACK.
BatchNoRollback(d) ==
  /\ Working(d, "rollback", "batch")
  /\ Respond(d, "error")
  /\ UNCHANGED <<otherVars, qq, stored, txn>>

BatchRollback(d) ==
  /\ Working(d, "rollback", "batch")
  /\ txn' = [txn EXCEPT ![d] = NoTxn]
  /\ Respond(d, "error")
  /\ UNCHANGED <<otherVars, qq, stored>>

Worker(d) == \/ Open(d) \/ TakeWork(d) \/ RunQuery(d) \/ RunCheckpoint(d)
             \/ BatchBegin(d) \/ BatchStatement(d) \/ BatchCommit(d) \/ BatchRollback(d)

----------------------------------------------------------------------------
Next == \/ \E c \in Callers : (\E r \in Calls[c] : StartCall(c, r)) \/ Caller(c)
        \/ ManagerStep
        \/ \E d \in DBs : Worker(d)

\* The operating system schedules every started thread; nothing makes a
\* handler start a call.
Fairness == /\ \A c \in Callers : WF_vars(Caller(c))
            /\ WF_vars(ManagerStep)
            /\ \A d \in DBs : WF_vars(Worker(d))

Spec == Init /\ [][Next]_vars /\ Fairness

----------------------------------------------------------------------------
(* Properties.                                                             *)

TypeMaps ==
  /\ serverDBMap \in [Labels -> DBs]
  /\ fileDBMap \in [Files -> DBs \cup {NoDB}]
  /\ dbFile \in [DBs -> AllFiles]
  /\ servers \in [DBs -> Int]

TypeWorkers ==
  /\ stopping \in [DBs -> BOOLEAN]
  /\ thread \in [DBs -> {"none", "starting", "idle", "busy", "ended", "failed"}]
  /\ qq \in [DBs -> Seq(Callers \cup {Manager, STOP})]

TypeWork ==
  /\ job \in [DBs -> [who : Callers \cup {Manager, NoOne},
                      at : {"start", "txn", "rollback"}, step : 0..BatchLen]]
  /\ txn \in [DBs -> [open : BOOLEAN, writes : SUBSET (Callers \X Nat \X Stmts)]]
  /\ stored \in [AllFiles -> SUBSET (Callers \X Nat \X Stmts)]

TypeManager ==
  /\ callQueue \in Seq(Callers \cup {STOP})
  /\ mgr \in [pc : {"get", "join", "next", "await", "ended"},
              who : Callers \cup {NoOne}, db : DBs \cup {NoDB}, todo : SUBSET DBs]

TypeCallers ==
  /\ pc \in [Callers -> {"idle", "put", "mwait", "submit", "dwait", "stop", "join"}]
  /\ req \in [Callers -> Requests]
  /\ handle \in [Callers -> DBs]
  /\ reply \in [Callers \cup {Manager} -> {"none", "ok", "error"}]
  /\ count \in [Callers -> Nat]

\* The states the variables range over.
TypeOK == TypeMaps /\ TypeWorkers /\ TypeWork /\ TypeManager /\ TypeCallers

\* The comment on _submit: work never lands behind _STOP.  Once a worker is
\* asked to stop, _STOP is the last entry its queue will ever have, and a
\* worker that has ended has left nothing behind.
NothingBehindStop ==
  \A d \in DBs :
    /\ \A i \in 1..Len(qq[d]) : qq[d][i] = STOP => i = Len(qq[d]) /\ stopping[d]
    /\ stopping[d] /\ Alive(d) => qq[d] # <<>> /\ qq[d][Len(qq[d])] = STOP
    /\ thread[d] = "ended" => qq[d] = <<>>

\* _shutdown has run, and its caller is about to end the manager
ShutDown == /\ req[Reactor].op = "shutdown"
            /\ pc[Reactor] \in {"stop", "join"} \/ (pc[Reactor] = "mwait" /\ reply[Reactor] # "none")

\* Until shutdown, between two calls of the manager, the maps and the reference
\* counts agree: a worker's count is the number of labels mapped to it, those labels are
\* mapped to a worker nobody has stopped, and fileDBMap lists just the mapped.
MapsAgree ==
  mgr.pc = "get" /\ ~ShutDown =>
    \A d \in DBs \ {Main} :
      /\ servers[d] = Cardinality({l \in Labels : serverDBMap[l] = d})
      /\ d \in Mapped => thread[d] # "none" /\ ~stopping[d]
      /\ \A f \in Files : fileDBMap[f] = d <=> d \in Mapped /\ dbFile[d] = f

\* No two workers hold connections to one file: a worker is joined before its
\* file is given to another.
OneWorkerPerFile ==
  \A d, e \in DBs : d # e /\ Alive(d) /\ Alive(e) => dbFile[d] # dbFile[e]

\* After any chain of addServer, delServer and moves over shared files, every
\* label is served by a running worker of its own, counted right, and no file
\* is open twice (_addServer, _delServer, _release).
WorkersAgree == MapsAgree /\ OneWorkerPerFile

\* A result tells the truth about the file: what was answered "ok" is
\* committed, and a batch answered with an error has left nothing behind.
ResultIsTruthful ==
  \A c \in Clients : pc[c] = "dwait" /\ reply[c] # "none" =>
    LET done == Writes(c) \cap stored[dbFile[handle[c]]] IN
    /\ reply[c] = "ok" => done = Writes(c)
    /\ reply[c] = "error" /\ req[c].op = "batch" => done = {}

\* A caller whose work a worker accepted is answered, whatever is stopped
\* meanwhile, unless the worker's thread dies opening its connection.
AcceptedIsAnswered ==
  \A c \in Clients : pc[c] = "dwait" ~> (pc[c] # "dwait" \/ thread[handle[c]] = "failed")

\* ManagerThread.call gives every caller an answer.
CallReturns == \A c \in Callers : pc[c] = "mwait" ~> pc[c] # "mwait"

\* A client sees one atomic store per file: its request is bound to the file
\* its label is routed to, and applied once, wholly, or not at all.
Service == INSTANCE DBService WITH
  route <- [l \in Labels |-> dbFile[serverDBMap[l]]],
  phase <- [c \in Clients |->
              CASE pc[c] = "idle" -> "idle"
                [] pc[c] = "put" -> "asked"
                [] pc[c] = "mwait" ->
                     IF reply[c] = "none" \/ req[c].op = "commit" THEN "asked" ELSE "bound"
                [] pc[c] = "dwait" /\ reply[c] # "none" -> "done"
                [] OTHER -> "bound"],
  target <- [c \in Clients |-> dbFile[handle[c]]],
  kind <- [c \in Clients |-> req[c].op],
  asked <- [c \in Clients |-> count[c]]
ImplementsService == Service!Spec
============================================================================
