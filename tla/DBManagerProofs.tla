-------------------------- MODULE DBManagerProofs --------------------------
(***************************************************************************)
(* Proofs about DBManager, for every number of threads, labels, files and   *)
(* workers: the types, and that no work lands behind a worker's _STOP; then *)
(* that DBManager keeps what DBService promises: a caller's request is in   *)
(* one place, its writes are in its worker's transaction until it is        *)
(* answered, and each step of the queues is one of the service's, or none.  *)
(* Then that the manager's maps, its reference counts and the workers agree.*)
(***************************************************************************)
EXTENDS DBManager, SequenceTheorems, FiniteSetTheorems, TLAPS

\* Who the manager serves and whom a worker works for.
Served ==
  /\ mgr.pc \in {"join", "next", "await"} => mgr.who \in Callers
  /\ \A d \in DBs : thread[d] = "busy" => job[d].who \in Callers \cup {Manager}

Typed == TypeOK /\ Served

LEMMA Names == /\ STOP \notin Callers /\ STOP # Manager /\ Manager \notin Callers
               /\ NoOne \notin Callers /\ NoOne # Manager /\ STOP # NoOne
BY ConstantsAssumption DEF ConstantsAssumption

LEMMA Numbers == /\ MaxDB \in Nat /\ DBs \subseteq Nat /\ Main \in DBs /\ NoDB \notin DBs
                 /\ BatchLen \in Nat /\ BatchLen # 0 /\ 1 \in Stmts
                 /\ MainFile \in AllFiles
BY ConstantsAssumption DEF ConstantsAssumption, DBs, Main, NoDB, Stmts, AllFiles

LEMMA SomeRequest == SomeLabel \in Labels /\ NoReq \in Requests
BY ConstantsAssumption DEF ConstantsAssumption, SomeLabel, NoReq, Requests, Operations, ClientOps, AllFiles

LEMMA RequestTyped == ASSUME NEW r \in Requests
                      PROVE  r.label \in Labels /\ r.file \in AllFiles /\ r.op \in Operations
BY DEF Requests

LEMMA CallsTyped == ASSUME NEW c \in Callers PROVE Calls[c] \subseteq Requests
BY ConstantsAssumption DEF ConstantsAssumption

LEMMA TypedInit == Init => Typed
<1> SUFFICES ASSUME Init PROVE Typed
  OBVIOUS
<1> USE Names, Numbers, SomeRequest DEF Init
<1>1. TypeMaps BY DEF TypeMaps
<1>2. TypeWorkers BY DEF TypeWorkers
<1>3. TypeWork BY DEF TypeWork, NoJob, NoTxn
<1>4. TypeManager BY DEF TypeManager, FreeMgr
<1>5. TypeCallers BY DEF TypeCallers
<1>6. Served BY DEF Served, FreeMgr
<1> QED BY <1>1, <1>2, <1>3, <1>4, <1>5, <1>6 DEF Typed, TypeOK

\* The two ways a worker's queue changes.
QueueAppends(d, x) == qq' = [qq EXCEPT ![d] = Append(@, x)]
QueueAdvances(d) == qq[d] # <<>> /\ qq' = [qq EXCEPT ![d] = Tail(@)]

LEMMA QueueTyped ==
  ASSUME NEW S, qq \in [DBs -> Seq(S)], NEW d \in DBs, NEW x \in S,
         QueueAppends(d, x) \/ QueueAdvances(d)
  PROVE  qq' \in [DBs -> Seq(S)]
<1>1. qq[d] \in Seq(S) OBVIOUS
<1>2. Append(qq[d], x) \in Seq(S) /\ (qq[d] # <<>> => Tail(qq[d]) \in Seq(S)) BY <1>1
<1> QED BY <1>2 DEF QueueAppends, QueueAdvances

LEMMA CallerTyped ==
  ASSUME Typed, NEW c \in Callers, (\E r \in Calls[c] : StartCall(c, r)) \/ Caller(c)
  PROVE  Typed'
<1> USE Names, Numbers DEF Typed, TypeOK
<1>a. TypeMaps' BY DEF TypeMaps, mapVars, Caller, StartCall, PutCall, GetCallResult,
                       StopManager, JoinManager, Submit, GetResult
<1>b. TypeWork' BY DEF TypeWork, workVars, Caller, StartCall, PutCall, GetCallResult,
                       StopManager, JoinManager, Submit, GetResult
<1>c. TypeWorkers'
  <2>1. CASE Submit(c)
    <3>1. handle[c] \in DBs /\ c \in Callers \cup {Manager, STOP} BY DEF TypeCallers
    <3>2. QueueAppends(handle[c], c) \/ UNCHANGED qq BY <2>1 DEF Submit, QueueAppends
    <3> QED BY <2>1, <3>1, <3>2, QueueTyped DEF TypeWorkers, Submit
  <2>2. CASE ~Submit(c) BY <2>2 DEF TypeWorkers, Caller, StartCall, PutCall, GetCallResult,
                       StopManager, JoinManager, GetResult
  <2> QED BY <2>1, <2>2
<1>d. TypeManager' BY DEF TypeManager, Caller, StartCall, PutCall, GetCallResult,
                       StopManager, JoinManager, Submit, GetResult
<1>e. TypeCallers'
  <2>1. CASE \E r \in Calls[c] : StartCall(c, r) BY <2>1, CallsTyped DEF TypeCallers, StartCall
  <2>2. CASE PutCall(c) BY <2>2 DEF TypeCallers, PutCall
  <2>3. CASE GetCallResult(c) BY <2>3 DEF TypeCallers, GetCallResult
  <2>4. CASE StopManager(c) \/ JoinManager(c) BY <2>4 DEF TypeCallers, StopManager, JoinManager
  <2>5. CASE Submit(c) BY <2>5 DEF TypeCallers, Submit
  <2>6. CASE GetResult(c) BY <2>6 DEF TypeCallers, GetResult
  <2> QED BY <2>1, <2>2, <2>3, <2>4, <2>5, <2>6 DEF Caller
<1>f. Served' BY DEF Served, workVars, Caller, StartCall, PutCall, GetCallResult,
                       StopManager, JoinManager, Submit, GetResult
<1> QED BY <1>a, <1>b, <1>c, <1>d, <1>e, <1>f

MgrType == [pc : {"get", "join", "next", "await", "ended"},
            who : Callers \cup {NoOne}, db : DBs \cup {NoDB}, todo : SUBSET DBs]
ReplyType == [Callers \cup {Manager} -> {"none", "ok", "error"}]

LEMMA AnswerTyped ==
  ASSUME TypeOK, NEW c, NEW r \in {"ok", "error"}, Answer(c, r)
  PROVE  mgr' \in MgrType /\ mgr'.pc = "get" /\ reply' \in ReplyType
BY DEF Answer, FreeMgr, MgrType, ReplyType, TypeOK, TypeCallers

LEMMA ServingTyped ==
  ASSUME TypeOK, NEW c, NEW ops, Serving(c, ops)
  PROVE  callQueue' \in Seq(Callers \cup {STOP}) /\ mgr.pc = "get"
BY DEF Serving, TypeOK, TypeManager

LEMMA StopWorkerTyped ==
  ASSUME TypeOK, NEW d \in DBs, StopWorker(d)
  PROVE  /\ stopping' \in [DBs -> BOOLEAN]
         /\ qq' \in [DBs -> Seq(Callers \cup {Manager, STOP})]
<1>1. QueueAppends(d, STOP) \/ UNCHANGED qq BY DEF StopWorker, QueueAppends
<1>2. stopping' \in [DBs -> BOOLEAN] BY DEF StopWorker, TypeOK, TypeWorkers
<1> QED BY <1>1, <1>2, QueueTyped DEF TypeOK, TypeWorkers

\* What a call's arguments are.
LEMMA ServedTyped ==
  ASSUME TypeOK, NEW c \in Callers
  PROVE  /\ req[c].label \in Labels /\ req[c].file \in AllFiles
         /\ serverDBMap[req[c].label] \in DBs
BY RequestTyped DEF TypeOK, TypeCallers, TypeMaps

LEMMA BindTyped ==
  ASSUME TypeOK, NEW c \in Callers, req[c].file # MainFile,
         NEW fm \in [Files -> DBs \cup {NoDB}], NEW sv \in [DBs -> Int],
         BindFile(c, fm, sv)
  PROVE  /\ TypeMaps' /\ thread' \in [DBs -> {"none", "starting", "idle", "busy", "ended", "failed"}]
         /\ mgr' \in MgrType /\ mgr'.pc = "get" /\ reply' \in ReplyType
         /\ \A d \in DBs : thread'[d] # thread[d] => thread[d] = "none" /\ thread'[d] = "starting"
<1> DEFINE f == req[c].file
<1>1. f \in Files /\ f \in AllFiles /\ fm[f] \in DBs \cup {NoDB} BY ServedTyped DEF AllFiles
<1>2. CASE /\ fm[f] # NoDB /\ servers' = [sv EXCEPT ![fm[f]] = @ + 1]
           /\ serverDBMap' = [serverDBMap EXCEPT ![req[c].label] = fm[f]]
           /\ fileDBMap' = fm /\ Answer(c, "ok") /\ UNCHANGED <<dbFile, thread>>
  <2>1. fm[f] \in DBs BY <1>1, <1>2
  <2>2. servers' \in [DBs -> Int] BY <1>2, <2>1
  <2>3. serverDBMap' \in [Labels -> DBs] BY <1>2, <2>1 DEF TypeOK, TypeMaps
  <2>4. TypeMaps' BY <1>2, <2>2, <2>3 DEF TypeOK, TypeMaps
  <2> QED BY <1>2, <2>4, AnswerTyped DEF TypeOK, TypeWorkers
<1>3. ASSUME NEW new \in Unborn, fm[f] = NoDB,
             fileDBMap' = [fm EXCEPT ![f] = new], servers' = [sv EXCEPT ![new] = 1],
             dbFile' = [dbFile EXCEPT ![new] = f],
             thread' = [thread EXCEPT ![new] = "starting"],
             serverDBMap' = [serverDBMap EXCEPT ![req[c].label] = new], Answer(c, "ok")
      PROVE  /\ TypeMaps' /\ thread' \in [DBs -> {"none", "starting", "idle", "busy", "ended", "failed"}]
             /\ mgr' \in MgrType /\ mgr'.pc = "get" /\ reply' \in ReplyType
             /\ \A d \in DBs : thread'[d] # thread[d] => thread[d] = "none" /\ thread'[d] = "starting"
  <2>1. new \in DBs /\ thread[new] = "none" BY DEF Unborn
  <2>2. mgr' \in MgrType /\ mgr'.pc = "get" /\ reply' \in ReplyType BY <1>3, AnswerTyped
  <2>3. TypeMaps'
    <3>1. servers' \in [DBs -> Int] BY <1>3, <2>1
    <3>2. serverDBMap' \in [Labels -> DBs] BY <1>3, <2>1 DEF TypeOK, TypeMaps
    <3>3. dbFile' \in [DBs -> AllFiles] BY <1>1, <1>3, <2>1 DEF TypeOK, TypeMaps
    <3>4. fileDBMap' \in [Files -> DBs \cup {NoDB}] BY <1>1, <1>3, <2>1
    <3> QED BY <3>1, <3>2, <3>3, <3>4 DEF TypeMaps
  <2>4. thread' \in [DBs -> {"none", "starting", "idle", "busy", "ended", "failed"}]
    BY <1>3, <2>1 DEF TypeOK, TypeWorkers
  <2> QED BY <1>3, <2>1, <2>2, <2>3, <2>4 DEF TypeOK, TypeWorkers
<1>4. CASE /\ fileDBMap' = fm /\ servers' = sv /\ Answer(c, "error")
           /\ UNCHANGED <<serverDBMap, dbFile, thread>>
  BY <1>4, AnswerTyped DEF TypeOK, TypeMaps, TypeWorkers
<1> QED BY <1>2, <1>3, <1>4 DEF BindFile

LEMMA ReleaseTyped ==
  ASSUME TypeOK, NEW c \in Callers, NEW d \in DBs, ReleaseLast(c, d)
  PROVE  /\ servers' \in [DBs -> Int] /\ mgr' \in MgrType /\ mgr'.who \in Callers
         /\ stopping' \in [DBs -> BOOLEAN]
         /\ qq' \in [DBs -> Seq(Callers \cup {Manager, STOP})]
         /\ UNCHANGED <<fileDBMap, dbFile, thread, reply>>
BY StopWorkerTyped DEF ReleaseLast, Released, MgrType, TypeOK, TypeMaps

LEMMA ReleasedTyped ==
  ASSUME TypeOK, NEW d \in DBs PROVE Released(d) \in [DBs -> Int]
BY DEF Released, TypeOK, TypeMaps

LEMMA DropTyped ==
  ASSUME TypeOK, NEW c, NEW fm \in [Files -> DBs \cup {NoDB}], NEW sv \in [DBs -> Int],
         Drop(c, fm, sv)
  PROVE  /\ fileDBMap' \in [Files -> DBs \cup {NoDB}] /\ servers' \in [DBs -> Int]
         /\ mgr' \in MgrType /\ mgr'.pc = "get" /\ reply' \in ReplyType
         /\ UNCHANGED <<dbFile, thread>>
BY AnswerTyped DEF Drop

\* The manager's actions, in terms of the variables each can change.
LEMMA ManagerTyped == ASSUME Typed, ManagerStep PROVE Typed'
<1> USE Numbers DEF Typed
<1>1. ASSUME NEW c \in Callers, MgrGetDB(c) PROVE Typed'
  <2>1. handle' \in [Callers -> DBs] BY <1>1, ServedTyped DEF MgrGetDB, TypeOK, TypeCallers
  <2>2. mgr' \in MgrType /\ mgr'.pc = "get" /\ reply' \in ReplyType
    BY <1>1, AnswerTyped DEF MgrGetDB
  <2>3. callQueue' \in Seq(Callers \cup {STOP}) BY <1>1, ServingTyped DEF MgrGetDB
  <2>4. TypeCallers' /\ TypeManager' BY <1>1, <2>1, <2>2, <2>3
    DEF MgrGetDB, TypeOK, TypeCallers, TypeManager, MgrType, ReplyType
  <2>5. TypeMaps' /\ TypeWorkers' /\ TypeWork' BY <1>1
    DEF MgrGetDB, mapVars, workVars, TypeOK, TypeMaps, TypeWorkers, TypeWork
  <2>6. Served' BY <1>1, <2>2 DEF MgrGetDB, Served, workVars
  <2> QED BY <2>4, <2>5, <2>6 DEF TypeOK
<1>2. ASSUME NEW c \in Callers, MgrDelServer(c) PROVE Typed'
  <2> DEFINE old == serverDBMap[req[c].label]
  <2>1. old \in DBs /\ callQueue' \in Seq(Callers \cup {STOP})
    BY <1>2, ServedTyped, ServingTyped DEF MgrDelServer
  <2>2. fileDBMap \in [Files -> DBs \cup {NoDB}] /\ servers \in [DBs -> Int]
    BY DEF TypeOK, TypeMaps
  <2>3. /\ fileDBMap' \in [Files -> DBs \cup {NoDB}] /\ servers' \in [DBs -> Int]
        /\ mgr' \in MgrType /\ (mgr'.pc # "get" => mgr'.who \in Callers) /\ reply' \in ReplyType
        /\ UNCHANGED <<dbFile, thread>>
        /\ stopping' \in [DBs -> BOOLEAN]
        /\ qq' \in [DBs -> Seq(Callers \cup {Manager, STOP})]
    <3>1. CASE Drop(c, fileDBMap, servers) /\ UNCHANGED <<stopping, qq>>
      BY <3>1, <2>2, DropTyped DEF TypeOK, TypeWorkers
    <3>2. CASE Drop(c, fileDBMap, Released(old)) /\ UNCHANGED <<stopping, qq>>
      BY <3>2, <2>1, <2>2, ReleasedTyped, DropTyped DEF TypeOK, TypeWorkers
    <3>3. CASE ReleaseLast(c, old)
      BY <3>3, <2>1, ReleaseTyped DEF TypeOK, TypeMaps, TypeCallers, ReplyType
    <3> QED BY <1>2, <3>1, <3>2, <3>3 DEF MgrDelServer
  <2>4. TypeMaps' BY <1>2, <2>1, <2>3 DEF MgrDelServer, TypeOK, TypeMaps
  <2>5. TypeWorkers' /\ TypeManager' /\ TypeCallers' BY <1>2, <2>1, <2>3
    DEF MgrDelServer, TypeOK, TypeWorkers, TypeManager, TypeCallers, MgrType, ReplyType
  <2>6. TypeWork' /\ Served' BY <1>2, <2>3 DEF MgrDelServer, workVars, TypeOK, TypeWork, Served
  <2> QED BY <2>4, <2>5, <2>6 DEF TypeOK
<1>3. ASSUME NEW c \in Callers, MgrAddServer(c) PROVE Typed'
  <2> DEFINE old == serverDBMap[req[c].label]
  <2>1. old \in DBs /\ callQueue' \in Seq(Callers \cup {STOP}) /\ req[c].file # MainFile
    BY <1>3, ServedTyped, ServingTyped DEF MgrAddServer
  <2>2. fileDBMap \in [Files -> DBs \cup {NoDB}] /\ servers \in [DBs -> Int]
        /\ Released(old) \in [DBs -> Int]
    BY <2>1, ReleasedTyped DEF TypeOK, TypeMaps
  <2>3. /\ TypeMaps' /\ thread' \in [DBs -> {"none", "starting", "idle", "busy", "ended", "failed"}]
        /\ mgr' \in MgrType /\ (mgr'.pc # "get" => mgr'.who \in Callers) /\ reply' \in ReplyType
        /\ \A d \in DBs : thread'[d] # thread[d] => thread'[d] = "starting"
        /\ stopping' \in [DBs -> BOOLEAN]
        /\ qq' \in [DBs -> Seq(Callers \cup {Manager, STOP})]
    <3>1. CASE Answer(c, "ok") /\ UNCHANGED <<mapVars, stopping, thread, qq>>
      BY <3>1, AnswerTyped DEF mapVars, TypeOK, TypeMaps, TypeWorkers
    <3>2. CASE BindFile(c, fileDBMap, servers) /\ UNCHANGED <<stopping, qq>>
      BY <3>2, <2>1, <2>2, BindTyped DEF TypeOK, TypeWorkers
    <3>3. CASE BindFile(c, fileDBMap, Released(old)) /\ UNCHANGED <<stopping, qq>>
      BY <3>3, <2>1, <2>2, BindTyped DEF TypeOK, TypeWorkers
    <3>4. CASE ReleaseLast(c, old) /\ UNCHANGED serverDBMap
      BY <3>4, <2>1, ReleaseTyped DEF TypeOK, TypeMaps, TypeWorkers, TypeCallers, ReplyType
    <3> QED BY <1>3, <3>1, <3>2, <3>3, <3>4 DEF MgrAddServer
  <2>4. TypeWorkers' /\ TypeManager' /\ TypeCallers' BY <1>3, <2>1, <2>3
    DEF MgrAddServer, TypeOK, TypeWorkers, TypeManager, TypeCallers, MgrType, ReplyType
  <2>5. TypeWork' /\ Served' BY <1>3, <2>3
    DEF MgrAddServer, workVars, TypeOK, TypeWork, TypeWorkers, Served
  <2> QED BY <2>3, <2>4, <2>5 DEF TypeOK
<1>4. ASSUME MgrJoined PROVE Typed'
  <2> DEFINE c == mgr.who
             fm == [fileDBMap EXCEPT ![dbFile[mgr.db]] = NoDB]
  <2>1. c \in Callers BY <1>4 DEF MgrJoined, Served
  <2>2. fm \in [Files -> DBs \cup {NoDB}] /\ servers \in [DBs -> Int]
    BY DEF TypeOK, TypeMaps
  <2>3. /\ TypeMaps' /\ thread' \in [DBs -> {"none", "starting", "idle", "busy", "ended", "failed"}]
        /\ mgr' \in MgrType /\ mgr'.pc = "get" /\ reply' \in ReplyType
        /\ \A d \in DBs : thread'[d] # thread[d] => thread'[d] = "starting"
    <3>1. CASE req[c].file # MainFile /\ BindFile(c, fm, servers)
      <4> HIDE DEF fm
      <4> QED BY <3>1, <2>1, <2>2, BindTyped
    <3>2. CASE Drop(c, fm, servers) /\ UNCHANGED serverDBMap
      <4> HIDE DEF fm
      <4> QED BY <3>2, <2>2, DropTyped DEF TypeOK, TypeMaps, TypeWorkers
    <3> QED BY <1>4, <3>1, <3>2 DEF MgrJoined
  <2>4. TypeWorkers' /\ TypeManager' /\ TypeCallers' BY <1>4, <2>3
    DEF MgrJoined, TypeOK, TypeWorkers, TypeManager, TypeCallers, MgrType, ReplyType
  <2>5. TypeWork' /\ Served' BY <1>4, <2>3
    DEF MgrJoined, workVars, TypeOK, TypeWork, TypeWorkers, Served
  <2> QED BY <2>3, <2>4, <2>5 DEF TypeOK
<1>5. ASSUME NEW c \in Callers, MgrVisit(c) PROVE Typed'
  <2>1. callQueue' \in Seq(Callers \cup {STOP}) BY <1>5, ServingTyped DEF MgrVisit
  <2>2. mgr' \in MgrType /\ mgr'.who \in Callers
    BY <1>5 DEF MgrVisit, MgrType, Mapped, TypeOK, TypeMaps
  <2> QED BY <1>5, <2>1, <2>2
    DEF MgrVisit, mapVars, workVars, callerVars, TypeOK, TypeMaps, TypeWorkers, TypeWork,
        TypeManager, TypeCallers, MgrType, Served
<1>6. ASSUME NEW d \in DBs, MgrShutdownStop(d) PROVE Typed'
  <2>1. /\ stopping' \in [DBs -> BOOLEAN]
        /\ qq' \in [DBs -> Seq(Callers \cup {Manager, STOP})]
    BY <1>6, StopWorkerTyped DEF MgrShutdownStop
  <2>2. mgr' \in MgrType /\ mgr'.who \in Callers
    BY <1>6 DEF MgrShutdownStop, MgrType, TypeOK, TypeManager, Served
  <2>3. TypeMaps' BY <1>6 DEF MgrShutdownStop, TypeOK, TypeMaps
  <2>4. TypeWork' /\ TypeManager' /\ TypeCallers' BY <1>6, <2>2
    DEF MgrShutdownStop, workVars, callerVars, MgrType, TypeOK, TypeWork, TypeManager, TypeCallers
  <2>5. TypeWorkers' /\ Served' BY <1>6, <2>1, <2>2
    DEF MgrShutdownStop, workVars, TypeOK, TypeWorkers, Served
  <2> QED BY <2>3, <2>4, <2>5 DEF TypeOK
<1>7. ASSUME MgrShutdownJoined PROVE Typed'
  <2>1. mgr' \in MgrType /\ reply' \in ReplyType /\ (mgr'.pc # "get" => mgr'.who \in Callers)
    <3>1. CASE mgr' = [mgr EXCEPT !.pc = "next"] /\ UNCHANGED reply
      BY <1>7, <3>1 DEF MgrShutdownJoined, MgrType, ReplyType, TypeOK, TypeManager, TypeCallers, Served
    <3>2. CASE Answer(mgr.who, "ok") BY <3>2, AnswerTyped
    <3> QED BY <1>7, <3>1, <3>2 DEF MgrShutdownJoined
  <2> QED BY <1>7, <2>1
    DEF MgrShutdownJoined, mapVars, workVars, callerVars, TypeOK, TypeMaps, TypeWorkers,
        TypeWork, TypeManager, TypeCallers, MgrType, ReplyType, Served
<1>8. ASSUME MgrCommitted PROVE Typed'
  <2>1. mgr' \in MgrType /\ (mgr'.pc # "get" => mgr'.who \in Callers)
    BY <1>8 DEF MgrCommitted, FreeMgr, MgrType, TypeOK, TypeManager, Served
  <2>2. reply' \in ReplyType BY <1>8 DEF MgrCommitted, ReplyType, TypeOK, TypeCallers
  <2> QED BY <1>8, <2>1, <2>2
    DEF MgrCommitted, mapVars, workVars, callerVars, TypeOK, TypeMaps, TypeWorkers,
        TypeWork, TypeManager, TypeCallers, MgrType, ReplyType, Served
<1>9. ASSUME MgrEnd PROVE Typed'
  <2>1. callQueue' \in Seq(Callers \cup {STOP}) BY <1>9 DEF MgrEnd, TypeOK, TypeManager
  <2> QED BY <1>9, <2>1
    DEF MgrEnd, mapVars, workVars, callerVars, TypeOK, TypeMaps, TypeWorkers,
        TypeWork, TypeManager, TypeCallers, Served
<1>10. ASSUME NEW d \in DBs, MgrCommitVisit(d) PROVE Typed'
  <2>1. qq' \in [DBs -> Seq(Callers \cup {Manager, STOP})]
    <3>1. QueueAppends(d, Manager) \/ UNCHANGED qq BY <1>10 DEF MgrCommitVisit, QueueAppends
    <3> QED BY <3>1, QueueTyped DEF TypeOK, TypeWorkers
  <2>2. mgr' \in MgrType /\ reply' \in ReplyType /\ (mgr'.pc # "get" => mgr'.who \in Callers)
    <3>1. CASE Answer(mgr.who, "error") BY <3>1, AnswerTyped
    <3>2. CASE mgr' = [mgr EXCEPT !.pc = "await", !.db = d, !.todo = @ \ {d}] /\ UNCHANGED reply
      BY <1>10, <3>2 DEF MgrCommitVisit, MgrType, ReplyType, TypeOK, TypeManager, TypeCallers, Served
    <3> QED BY <1>10, <3>1, <3>2 DEF MgrCommitVisit
  <2> QED BY <1>10, <2>1, <2>2
    DEF MgrCommitVisit, mapVars, workVars, callerVars, TypeOK, TypeMaps, TypeWorkers,
        TypeWork, TypeManager, TypeCallers, MgrType, ReplyType, Served
<1> QED BY <1>1, <1>2, <1>3, <1>4, <1>5, <1>6, <1>7, <1>8, <1>9, <1>10 DEF ManagerStep

JobType == [who : Callers \cup {Manager, NoOne}, at : {"start", "txn", "rollback"},
            step : 0..BatchLen]
ThreadType == [DBs -> {"none", "starting", "idle", "busy", "ended", "failed"}]
WriteType == Callers \X Nat \X Stmts
TxnType == [open : BOOLEAN, writes : SUBSET WriteType]

\* The variables a worker's step may change, and what it leaves of them.
WorkChange(d) ==
  /\ reply' \in ReplyType /\ thread' \in ThreadType
  /\ job' \in [DBs -> JobType] /\ txn' \in [DBs -> TxnType]
  /\ stored' \in [AllFiles -> SUBSET WriteType]
  /\ qq' \in [DBs -> Seq(Callers \cup {Manager, STOP})]
  /\ \A e \in DBs : thread'[e] = "busy" => job'[e].who \in Callers \cup {Manager}

LEMMA WorkChangeTyped ==
  ASSUME Typed, NEW d \in DBs, WorkChange(d), UNCHANGED otherVars
  PROVE  Typed'
BY DEF Typed, TypeOK, TypeMaps, TypeWorkers, TypeWork, TypeManager, TypeCallers, Served,
       otherVars, mapVars, callerVars, WorkChange, ReplyType, ThreadType, JobType, TxnType,
       WriteType

LEMMA BeforeWork ==
  ASSUME Typed
  PROVE  /\ reply \in ReplyType /\ thread \in ThreadType
         /\ job \in [DBs -> JobType] /\ txn \in [DBs -> TxnType]
         /\ stored \in [AllFiles -> SUBSET WriteType]
         /\ qq \in [DBs -> Seq(Callers \cup {Manager, STOP})]
         /\ \A e \in DBs : thread[e] = "busy" => job[e].who \in Callers \cup {Manager}
BY DEF Typed, TypeOK, TypeWorkers, TypeWork, TypeCallers, Served,
       ReplyType, ThreadType, JobType, TxnType, WriteType

LEMMA RespondTyped ==
  ASSUME Typed, NEW d \in DBs, NEW r \in {"ok", "error"}, Respond(d, r)
  PROVE  /\ reply' \in ReplyType /\ thread' \in ThreadType /\ job' \in [DBs -> JobType]
         /\ \A e \in DBs : thread'[e] = "busy" => job'[e].who \in Callers \cup {Manager}
<1>1. NoJob \in JobType BY Numbers DEF NoJob, JobType
<1>2. reply' \in ReplyType BY BeforeWork DEF Respond, ReplyType
<1>3. thread' \in ThreadType BY BeforeWork DEF Respond, ThreadType
<1>4. job' \in [DBs -> JobType] BY <1>1, BeforeWork DEF Respond
<1>5. ASSUME NEW e \in DBs, thread'[e] = "busy" PROVE job'[e].who \in Callers \cup {Manager}
  <2>1. e # d BY <1>5, BeforeWork DEF Respond, ThreadType
  <2> QED BY <1>5, <2>1, BeforeWork DEF Respond, ThreadType
<1> QED BY <1>2, <1>3, <1>4, <1>5

LEMMA WriteTyped ==
  ASSUME Typed, NEW d \in DBs, NEW at, NEW op \in {"query", "batch"}, Working(d, at, op),
         NEW i \in Stmts
  PROVE  Write(d, i) \in WriteType
<1>1. job[d].who \in Callers BY BeforeWork DEF Working
<1>2. count[job[d].who] \in Nat BY <1>1 DEF Typed, TypeOK, TypeCallers
<1> QED BY <1>1, <1>2 DEF Write, WriteType

LEMMA ExecuteTyped ==
  ASSUME Typed, NEW d \in DBs, NEW w \in WriteType, Execute(d, w)
  PROVE  txn' \in [DBs -> TxnType] /\ stored' \in [AllFiles -> SUBSET WriteType]
<1>1. CASE txn[d].open BY <1>1, BeforeWork DEF Execute, TxnType
<1>2. CASE ~txn[d].open BY <1>2, BeforeWork DEF Execute
<1> QED BY <1>1, <1>2

LEMMA WorkerTyped == ASSUME Typed, NEW d \in DBs, Worker(d) PROVE Typed'
<1> USE BeforeWork
<1>0. dbFile[d] \in AllFiles /\ NoTxn \in TxnType
  BY DEF Typed, TypeOK, TypeMaps, NoTxn, TxnType
<1>1. CASE Open(d)
  <2>1. thread' \in ThreadType BY <1>1 DEF Open, ThreadType
  <2>2. \A e \in DBs : thread'[e] = "busy" => thread[e] = "busy"
    BY <1>1 DEF Open, ThreadType
  <2> QED BY <1>1, <2>1, <2>2, WorkChangeTyped DEF Open, WorkChange, workVars
<1>2. CASE TakeWork(d)
  <2>1. qq' \in [DBs -> Seq(Callers \cup {Manager, STOP})]
    BY <1>2, QueueTyped DEF TakeWork, QueueAdvances
  <2>2. Head(qq[d]) \in Callers \cup {Manager, STOP} BY <1>2 DEF TakeWork
  <2>3. CASE Head(qq[d]) = STOP
    <3>1. thread' = [thread EXCEPT ![d] = "ended"] /\ job' = job BY <1>2, <2>3 DEF TakeWork
    <3>2. thread' \in ThreadType /\ \A e \in DBs : thread'[e] = "busy" => thread[e] = "busy"
      BY <3>1 DEF ThreadType
    <3> QED BY <1>2, <2>1, <3>1, <3>2, WorkChangeTyped DEF TakeWork, WorkChange
  <2>4. CASE Head(qq[d]) # STOP
    <3>1. /\ thread' = [thread EXCEPT ![d] = "busy"]
          /\ job' = [job EXCEPT ![d].who = Head(qq[d])]
      BY <1>2, <2>4 DEF TakeWork
    <3>2. thread' \in ThreadType BY <3>1 DEF ThreadType
    <3>3. job' \in [DBs -> JobType] BY <2>2, <2>4, <3>1, ZenonT(40) DEF JobType
    <3>4. \A e \in DBs : thread'[e] = "busy" => job'[e].who \in Callers \cup {Manager}
      BY <2>2, <2>4, <3>1 DEF ThreadType, JobType
    <3> QED BY <1>2, <2>1, <3>2, <3>3, <3>4, WorkChangeTyped DEF TakeWork, WorkChange
  <2> QED BY <2>3, <2>4
<1>3. CASE RunQuery(d)
  <2>1. Write(d, 1) \in WriteType BY <1>3, WriteTyped, Numbers DEF RunQuery
  <2>2. txn' \in [DBs -> TxnType] /\ stored' \in [AllFiles -> SUBSET WriteType]
    BY <1>3, <2>1, ExecuteTyped DEF RunQuery
  <2>3. \E r \in {"ok", "error"} : Respond(d, r) BY <1>3 DEF RunQuery
  <2> QED BY <1>3, <2>2, <2>3, RespondTyped, WorkChangeTyped DEF RunQuery, WorkChange
<1>4. CASE RunCheckpoint(d)
  BY <1>4, RespondTyped, WorkChangeTyped DEF RunCheckpoint, WorkChange
<1>5. CASE BatchBegin(d)
  <2>1. CASE Respond(d, "error") /\ UNCHANGED txn
    BY <1>5, <2>1, RespondTyped, WorkChangeTyped DEF BatchBegin, WorkChange
  <2>2. CASE /\ txn' = [txn EXCEPT ![d].open = TRUE] /\ job' = [job EXCEPT ![d].at = "txn"]
             /\ UNCHANGED <<reply, thread>>
    <3>1. txn' \in [DBs -> TxnType] BY <2>2 DEF TxnType
    <3>2. job' \in [DBs -> JobType] /\ \A e \in DBs : job'[e].who = job[e].who
      BY <2>2 DEF JobType
    <3> QED BY <1>5, <2>2, <3>1, <3>2, WorkChangeTyped DEF BatchBegin, WorkChange
  <2> QED BY <1>5, <2>1, <2>2 DEF BatchBegin
<1>6. CASE BatchStatement(d)
  <2>1. job[d].step + 1 \in Stmts /\ job[d].step + 1 \in 0..BatchLen
    BY <1>6, Numbers DEF BatchStatement, JobType, Stmts
  <2>2. txn' \in [DBs -> TxnType] /\ stored' \in [AllFiles -> SUBSET WriteType]
    BY <1>6, <2>1, WriteTyped, ExecuteTyped DEF BatchStatement
  <2>3. job' \in [DBs -> JobType] /\ \A e \in DBs : job'[e].who = job[e].who
    <3>1. CASE job' = [job EXCEPT ![d].step = @ + 1] BY <2>1, <3>1 DEF JobType
    <3>2. CASE job' = [job EXCEPT ![d].at = "rollback"] BY <3>2 DEF JobType
    <3> QED BY <1>6, <3>1, <3>2 DEF BatchStatement
  <2> QED BY <1>6, <2>2, <2>3, WorkChangeTyped DEF BatchStatement, WorkChange
<1>7. CASE BatchCommit(d)
  <2>1. CASE /\ stored' = [stored EXCEPT ![dbFile[d]] = @ \cup txn[d].writes]
             /\ txn' = [txn EXCEPT ![d] = NoTxn] /\ Respond(d, "ok")
    <3>1. stored' \in [AllFiles -> SUBSET WriteType] BY <1>0, <2>1 DEF TxnType
    <3>2. txn' \in [DBs -> TxnType] BY <1>0, <2>1
    <3> QED BY <1>7, <2>1, <3>1, <3>2, RespondTyped, WorkChangeTyped DEF BatchCommit, WorkChange
  <2>2. CASE job' = [job EXCEPT ![d].at = "rollback"] /\ UNCHANGED <<txn, stored, thread, reply>>
    <3>1. job' \in [DBs -> JobType] /\ \A e \in DBs : job'[e].who = job[e].who
      BY <2>2 DEF JobType
    <3> QED BY <1>7, <2>2, <3>1, WorkChangeTyped DEF BatchCommit, WorkChange
  <2> QED BY <1>7, <2>1, <2>2 DEF BatchCommit
<1>8. CASE BatchRollback(d)
  <2>1. txn' \in [DBs -> TxnType] BY <1>0, <1>8 DEF BatchRollback
  <2> QED BY <1>8, <2>1, RespondTyped, WorkChangeTyped DEF BatchRollback, WorkChange
<1> QED BY <1>1, <1>2, <1>3, <1>4, <1>5, <1>6, <1>7, <1>8 DEF Worker

LEMMA TypedStutter == ASSUME Typed, UNCHANGED vars PROVE Typed'
BY DEF vars, Typed, TypeOK, TypeMaps, TypeWorkers, TypeWork, TypeManager, TypeCallers, Served

LEMMA TypedStep == Typed /\ [Next]_vars => Typed'
<1> SUFFICES ASSUME Typed, [Next]_vars PROVE Typed'
  OBVIOUS
<1>1. CASE \E c \in Callers : (\E r \in Calls[c] : StartCall(c, r)) \/ Caller(c)
  BY <1>1, CallerTyped
<1>2. CASE ManagerStep BY <1>2, ManagerTyped
<1>3. CASE \E d \in DBs : Worker(d) BY <1>3, WorkerTyped
<1>4. CASE UNCHANGED vars BY <1>4, TypedStutter
<1> QED BY <1>1, <1>2, <1>3, <1>4 DEF Next

LEMMA AlwaysTyped == Spec => []Typed
BY TypedInit, TypedStep, PTL DEF Spec

\* Type correctness of the database threads, for any number of them.
THEOREM TypeCorrect == Spec => []TypeOK
<1>1. Typed => TypeOK BY DEF Typed
<1> QED BY <1>1, AlwaysTyped, PTL

----------------------------------------------------------------------------
(* Nothing behind _STOP.  A step moves one worker's queue, or none.        *)

\* A worker never started was never asked to stop: this is what makes
\* NothingBehindStop inductive when addServer starts one.
UnbornIsFresh == \A d \in DBs : thread[d] = "none" => ~stopping[d]

QueueInv == NothingBehindStop /\ UnbornIsFresh

QueuesStay ==
  /\ UNCHANGED <<qq, stopping>>
  /\ \A d \in DBs : \/ thread'[d] = thread[d]
                    \/ thread[d] = "none" /\ thread'[d] = "starting"
                    \/ Alive(d) /\ thread'[d] \in {"idle", "failed"}

QueueStep ==
  \/ QueuesStay
  \/ \E d \in DBs, x \in Callers \cup {Manager} :
       Accepts(d) /\ QueueAppends(d, x) /\ UNCHANGED <<stopping, thread>>
  \/ \E d \in DBs : StopWorker(d) /\ UNCHANGED thread
  \/ \E d \in DBs : TakeWork(d)

LEMMA ThreadsStay == UNCHANGED <<stopping, thread, qq>> => QueueStep
BY DEF QueueStep, QueuesStay

LEMMA CallerQueueStep ==
  ASSUME Typed, NEW c \in Callers, (\E r \in Calls[c] : StartCall(c, r)) \/ Caller(c)
  PROVE  QueueStep
<1>1. CASE Submit(c)
  <2>1. handle[c] \in DBs BY DEF Typed, TypeOK, TypeCallers
  <2>2. CASE Accepts(handle[c]) BY <1>1, <2>1, <2>2 DEF Submit, QueueStep, QueueAppends
  <2>3. CASE ~Accepts(handle[c]) BY <1>1, <2>3, ThreadsStay DEF Submit
  <2> QED BY <2>2, <2>3
<1>2. CASE ~Submit(c)
  BY <1>2, ThreadsStay
     DEF Caller, StartCall, PutCall, GetCallResult, StopManager, JoinManager, GetResult
<1> QED BY <1>1, <1>2

LEMMA BindQueueStep ==
  ASSUME Typed, NEW c \in Callers, req[c].file # MainFile,
         NEW fm \in [Files -> DBs \cup {NoDB}], NEW sv \in [DBs -> Int],
         BindFile(c, fm, sv), UNCHANGED <<stopping, qq>>
  PROVE  QueueStep
BY BindTyped DEF Typed, QueueStep, QueuesStay

LEMMA ManagerQueueStep == ASSUME Typed, ManagerStep PROVE QueueStep
<1>0. /\ fileDBMap \in [Files -> DBs \cup {NoDB}] /\ servers \in [DBs -> Int]
      /\ \A d \in DBs : Released(d) \in [DBs -> Int]
  BY ReleasedTyped DEF Typed, TypeOK, TypeMaps
<1>1. ASSUME NEW c \in Callers, MgrDelServer(c) PROVE QueueStep
  <2> DEFINE old == serverDBMap[req[c].label]
  <2>1. old \in DBs BY ServedTyped DEF Typed
  <2>2. CASE UNCHANGED <<stopping, qq>> /\ UNCHANGED thread BY <2>2, ThreadsStay
  <2>3. CASE ReleaseLast(c, old) BY <2>1, <2>3 DEF ReleaseLast, QueueStep
  <2> QED BY <1>1, <2>2, <2>3 DEF MgrDelServer, Drop
<1>2. ASSUME NEW c \in Callers, MgrAddServer(c) PROVE QueueStep
  <2> DEFINE old == serverDBMap[req[c].label]
  <2>1. old \in DBs /\ req[c].file # MainFile BY <1>2, ServedTyped DEF Typed, MgrAddServer
  <2>2. CASE UNCHANGED <<mapVars, stopping, thread, qq>> BY <2>2, ThreadsStay
  <2>3. CASE BindFile(c, fileDBMap, servers) /\ UNCHANGED <<stopping, qq>>
    BY <1>0, <2>1, <2>3, BindQueueStep
  <2>4. CASE BindFile(c, fileDBMap, Released(old)) /\ UNCHANGED <<stopping, qq>>
    BY <1>0, <2>1, <2>4, BindQueueStep
  <2>5. CASE ReleaseLast(c, old) BY <2>1, <2>5 DEF ReleaseLast, QueueStep
  <2> QED BY <1>2, <2>2, <2>3, <2>4, <2>5 DEF MgrAddServer
<1>3. ASSUME MgrJoined PROVE QueueStep
  <2> DEFINE c == mgr.who
             fm == [fileDBMap EXCEPT ![dbFile[mgr.db]] = NoDB]
  <2>1. c \in Callers BY <1>3 DEF MgrJoined, Typed, Served
  <2>2. fm \in [Files -> DBs \cup {NoDB}] BY <1>0
  <2>3. CASE req[c].file # MainFile /\ BindFile(c, fm, servers) /\ UNCHANGED <<stopping, qq>>
    <3> HIDE DEF fm
    <3> QED BY <1>0, <2>1, <2>2, <2>3, BindQueueStep
  <2>4. CASE UNCHANGED <<stopping, thread, qq>> BY <2>4, ThreadsStay
  <2> QED BY <1>3, <2>3, <2>4 DEF MgrJoined, Drop
<1>4. ASSUME NEW d \in DBs, MgrShutdownStop(d) PROVE QueueStep
  BY <1>4 DEF MgrShutdownStop, QueueStep
<1>5. ASSUME NEW d \in DBs, MgrCommitVisit(d) PROVE QueueStep
  <2>1. CASE Accepts(d) /\ qq' = [qq EXCEPT ![d] = Append(@, Manager)]
    BY <1>5, <2>1 DEF MgrCommitVisit, QueueStep, QueueAppends
  <2>2. CASE UNCHANGED qq BY <1>5, <2>2, ThreadsStay DEF MgrCommitVisit
  <2> QED BY <1>5, <2>1, <2>2 DEF MgrCommitVisit
<1>6. ASSUME \/ \E c \in Callers : MgrGetDB(c) \/ MgrVisit(c)
             \/ MgrShutdownJoined \/ MgrCommitted \/ MgrEnd
      PROVE  QueueStep
  BY <1>6, ThreadsStay DEF MgrGetDB, MgrVisit, MgrShutdownJoined, MgrCommitted, MgrEnd
<1> QED BY <1>1, <1>2, <1>3, <1>4, <1>5, <1>6 DEF ManagerStep

LEMMA WorkerQueueStep == ASSUME Typed, NEW d \in DBs, Worker(d) PROVE QueueStep
<1>0. thread \in ThreadType BY BeforeWork
<1>1. CASE TakeWork(d) BY <1>1 DEF QueueStep
<1>2. CASE Open(d) BY <1>0, <1>2 DEF Open, QueueStep, QueuesStay, otherVars, Alive, ThreadType
<1>3. ASSUME NEW r, Respond(d, r), Alive(d), UNCHANGED <<qq, stopping>> PROVE QueueStep
  BY <1>0, <1>3 DEF Respond, QueueStep, QueuesStay, ThreadType
<1>4. CASE RunQuery(d) \/ RunCheckpoint(d) \/ BatchRollback(d)
  BY <1>3, <1>4 DEF RunQuery, RunCheckpoint, BatchRollback, Working, Alive, otherVars
<1>5. CASE BatchBegin(d) \/ BatchStatement(d) \/ BatchCommit(d)
  BY <1>3, <1>5, ThreadsStay DEF BatchBegin, BatchStatement, BatchCommit, Working, Alive, otherVars
<1> QED BY <1>1, <1>2, <1>4, <1>5 DEF Worker

\* QueueInv of one worker, and why the others need no thought.
QueueOK(d) ==
  /\ \A i \in 1..Len(qq[d]) : qq[d][i] = STOP => i = Len(qq[d]) /\ stopping[d]
  /\ stopping[d] /\ Alive(d) => qq[d] # <<>> /\ qq[d][Len(qq[d])] = STOP
  /\ thread[d] = "ended" => qq[d] = <<>>
  /\ thread[d] = "none" => ~stopping[d]

Same(e) == qq'[e] = qq[e] /\ stopping'[e] = stopping[e] /\ thread'[e] = thread[e]

LEMMA QueueByWorker == QueueInv <=> \A d \in DBs : QueueOK(d)
BY DEF QueueInv, NothingBehindStop, UnbornIsFresh, QueueOK

LEMMA OneWorkerMoves ==
  ASSUME QueueInv, NEW d \in DBs, QueueOK(d)', \A e \in DBs \ {d} : Same(e)
  PROVE  QueueInv'
<1>1. ASSUME NEW e \in DBs, e # d PROVE QueueOK(e)'
  <2>1. QueueOK(e) /\ Same(e) BY <1>1, QueueByWorker
  <2> QED BY <2>1 DEF QueueOK, Same, Alive
<1>2. \A e \in DBs : QueueOK(e)' BY <1>1
<1> QED BY <1>2 DEF QueueInv, NothingBehindStop, UnbornIsFresh, QueueOK

\* A queue whose only x is its last entry, after its head is taken.
LEMMA TailProperties ==
  ASSUME NEW S, NEW q \in Seq(S), q # <<>>
  PROVE  /\ Head(q) = q[1] /\ Tail(q) \in Seq(S) /\ Len(q) >= 1
         /\ Len(Tail(q)) = Len(q) - 1 /\ Len(Tail(q)) \in Nat /\ Len(q) \in Nat
         /\ (Len(q) = 1 <=> Tail(q) = <<>>)
         /\ \A i \in 1..Len(Tail(q)) : i + 1 \in 1..Len(q) /\ Tail(q)[i] = q[i + 1]
<1>1. Tail(q) \in Seq(S) /\ Len(Tail(q)) = Len(q) - 1 OBVIOUS
<1>2. Len(Tail(q)) = 0 <=> Tail(q) = <<>> BY <1>1, EmptySeq
<1> QED BY <1>1, <1>2

LEMMA TakeFromMarked ==
  ASSUME NEW S, NEW x \in S, NEW q \in Seq(S), q # <<>>,
         \A i \in DOMAIN q : q[i] = x => i = Len(q)
  PROVE  /\ Head(q) = x => Tail(q) = <<>>
         /\ \A i \in 1..Len(Tail(q)) : Tail(q)[i] = x => i = Len(Tail(q)) /\ q[Len(q)] = x
         /\ q[Len(q)] = x /\ Head(q) # x => Tail(q) # <<>> /\ Tail(q)[Len(Tail(q))] = x
<1>1. ASSUME Head(q) = x PROVE Tail(q) = <<>>
  <2>1. q[1] = x /\ 1 \in DOMAIN q BY <1>1
  <2>2. Len(q) = 1 BY <2>1
  <2> QED BY <2>2, TailProperties
<1>2. ASSUME NEW i \in 1..Len(Tail(q)), Tail(q)[i] = x
      PROVE  i = Len(Tail(q)) /\ q[Len(q)] = x
  <2>1. i + 1 \in DOMAIN q /\ q[i + 1] = x BY <1>2, TailProperties
  <2>2. i + 1 = Len(q) BY <2>1
  <2> QED BY <2>1, <2>2
<1>3. ASSUME q[Len(q)] = x, Head(q) # x
      PROVE  Tail(q) # <<>> /\ Tail(q)[Len(Tail(q))] = x
  <2>1. Len(q) # 1 BY <1>3, TailProperties
  <2> QED BY <1>3, <2>1, TailProperties
<1> QED BY <1>1, <1>2, <1>3

LEMMA QueueStepPreserves == ASSUME Typed, QueueInv, QueueStep PROVE QueueInv'
<1>0. /\ thread \in ThreadType /\ stopping \in [DBs -> BOOLEAN]
      /\ qq \in [DBs -> Seq(Callers \cup {Manager, STOP})]
  BY BeforeWork DEF Typed, TypeOK, TypeWorkers
<1>1. CASE QueuesStay
  BY <1>0, <1>1 DEF QueueInv, NothingBehindStop, UnbornIsFresh, QueuesStay, Alive, ThreadType
<1>2. ASSUME NEW d \in DBs, NEW x \in Callers \cup {Manager}, Accepts(d), QueueAppends(d, x),
             UNCHANGED <<stopping, thread>>
      PROVE  QueueInv'
  <2>1. x # STOP /\ Alive(d) /\ ~stopping[d] BY <1>2, Names DEF Accepts
  <2>2. qq'[d] = Append(qq[d], x) /\ \A e \in DBs \ {d} : Same(e)
    BY <1>0, <1>2 DEF QueueAppends, Same
  <2>3. \A i \in 1..Len(qq'[d]) : qq'[d][i] # STOP
    BY <1>0, <2>1, <2>2, QueueByWorker DEF QueueOK
  <2>4. QueueOK(d)' BY <1>2, <2>1, <2>3 DEF QueueOK, Alive
  <2> QED BY <2>2, <2>4, OneWorkerMoves
<1>3. ASSUME NEW d \in DBs, StopWorker(d), UNCHANGED thread PROVE QueueInv'
  <2>1. CASE Accepts(d)
    <3> DEFINE q == qq[d]
    <3>1. /\ Alive(d) /\ ~stopping[d] /\ stopping'[d] = TRUE
          /\ qq'[d] = Append(q, STOP) /\ \A e \in DBs \ {d} : Same(e)
      BY <1>0, <1>3, <2>1 DEF StopWorker, Accepts, Same
    <3>2. q \in Seq(Callers \cup {Manager, STOP}) /\ \A i \in 1..Len(q) : q[i] # STOP
      BY <1>0, <3>1, QueueByWorker DEF QueueOK
    <3>3. /\ Append(q, STOP) # <<>> /\ Append(q, STOP)[Len(Append(q, STOP))] = STOP
          /\ \A i \in 1..Len(Append(q, STOP)) : Append(q, STOP)[i] = STOP => i = Len(Append(q, STOP))
      <4> HIDE DEF q
      <4> QED BY <3>2
    <3>4. QueueOK(d)' BY <1>3, <3>1, <3>3 DEF QueueOK, Alive
    <3> QED BY <3>1, <3>4, OneWorkerMoves
  <2>2. CASE ~Accepts(d)
    BY <1>3, <2>2 DEF StopWorker, QueueInv, NothingBehindStop, UnbornIsFresh, Alive
  <2> QED BY <2>1, <2>2
<1>4. ASSUME NEW d \in DBs, TakeWork(d) PROVE QueueInv'
  <2> DEFINE q == qq[d]
  <2>0. q \in Seq(Callers \cup {Manager, STOP}) /\ q # <<>> /\ thread[d] = "idle"
    BY <1>0, <1>4 DEF TakeWork
  <2>1. qq'[d] = Tail(q) /\ stopping' = stopping BY <1>0, <1>4 DEF TakeWork, otherVars
  <2>2. /\ thread'[d] = IF Head(q) = STOP THEN "ended" ELSE "busy"
        /\ \A e \in DBs \ {d} : thread'[e] = thread[e]
    BY <1>0, <1>4 DEF TakeWork, ThreadType
  <2>3. \A e \in DBs \ {d} : Same(e) BY <1>0, <1>4, <2>1, <2>2 DEF TakeWork, Same
  <2>4. /\ \A i \in 1..Len(q) : q[i] = STOP => i = Len(q) /\ stopping[d]
        /\ stopping[d] => q[Len(q)] = STOP
    BY <2>0, QueueByWorker DEF QueueOK, Alive
  <2>5. /\ Head(q) = STOP => Tail(q) = <<>>
        /\ \A i \in 1..Len(Tail(q)) : Tail(q)[i] = STOP => i = Len(Tail(q)) /\ stopping[d]
        /\ stopping[d] /\ Head(q) # STOP => Tail(q) # <<>> /\ Tail(q)[Len(Tail(q))] = STOP 
    BY <2>0, <2>4, TakeFromMarked
  <2>6. QueueOK(d)' BY <2>1, <2>2, <2>5 DEF QueueOK, Alive
  <2> QED BY <2>3, <2>6, OneWorkerMoves
<1> QED BY <1>1, <1>2, <1>3, <1>4 DEF QueueStep

LEMMA QueueInvInit == Init => QueueInv
BY DEF Init, QueueInv, NothingBehindStop, UnbornIsFresh, Alive

LEMMA QueueInvNext == Typed /\ QueueInv /\ [Next]_vars => QueueInv'
<1> SUFFICES ASSUME Typed, QueueInv, [Next]_vars PROVE QueueInv'
  OBVIOUS
<1>1. QueueStep
  <2>1. CASE Next BY <2>1, CallerQueueStep, ManagerQueueStep, WorkerQueueStep DEF Next
  <2>2. CASE UNCHANGED vars BY <2>2, ThreadsStay DEF vars
  <2> QED BY <2>1, <2>2
<1> QED BY <1>1, QueueStepPreserves

\* The promise of _submit's comment, for any number of threads and workers:
\* work never lands behind _STOP, and an ended worker leaves nothing queued.
THEOREM WorkNeverBehindStop == Spec => []NothingBehindStop
<1>1. QueueInv => NothingBehindStop BY DEF QueueInv
<1>2. Spec => []QueueInv BY AlwaysTyped, QueueInvInit, QueueInvNext, PTL DEF Spec
<1> QED BY <1>1, <1>2, PTL

----------------------------------------------------------------------------
(* Queues.                                                                 *)

In(s, x) == \E i \in 1..Len(s) : s[i] = x
Once(s, x) == \A i, j \in 1..Len(s) : s[i] = x /\ s[j] = x => i = j

LEMMA Appended ==
  ASSUME NEW S, NEW s \in Seq(S), NEW x \in S, NEW y
  PROVE  /\ In(Append(s, x), y) <=> In(s, y) \/ y = x
         /\ Once(s, y) /\ ~(y = x /\ In(s, y)) => Once(Append(s, x), y)
<1>. DEFINE t == Append(s, x)
<1>1. /\ Len(s) \in Nat /\ Len(t) = Len(s) + 1 /\ t[Len(s) + 1] = x
      /\ \A i \in 1..Len(s) : t[i] = s[i] /\ i \in 1..Len(t)
      /\ \A i \in 1..Len(t) : i \in 1..Len(s) \/ i = Len(s) + 1
      /\ Len(s) + 1 \in 1..Len(t)
  OBVIOUS
<1>. HIDE DEF t
<1>2. In(t, y) <=> In(s, y) \/ y = x
  BY <1>1 DEF In
<1>3. ASSUME Once(s, y), ~(y = x /\ In(s, y)), NEW i \in 1..Len(t), NEW j \in 1..Len(t),
             t[i] = y, t[j] = y
      PROVE  i = j
  <2>1. CASE i \in 1..Len(s) /\ j \in 1..Len(s)
    BY <1>1, <1>3, <2>1 DEF Once
  <2>2. CASE i = Len(s) + 1 \/ j = Len(s) + 1
    BY <1>1, <1>3, <2>2 DEF In
  <2>. QED  BY <1>1, <2>1, <2>2
<1>. QED  BY <1>2, <1>3 DEF Once, t

LEMMA Taken ==
  ASSUME NEW S, NEW s \in Seq(S), s # <<>>, NEW y
  PROVE  /\ Head(s) \in S /\ In(s, Head(s))
         /\ In(s, y) <=> y = Head(s) \/ In(Tail(s), y)
         /\ Once(s, y) => Once(Tail(s), y) /\ ~(y = Head(s) /\ In(Tail(s), y))
<1>. DEFINE t == Tail(s)
<1>1. /\ Len(s) \in Nat /\ Len(s) # 0 /\ Len(t) = Len(s) - 1 /\ Head(s) = s[1] /\ Head(s) \in S
      /\ 1 \in 1..Len(s)
  BY EmptySeq
<1>2. \A i \in 1..Len(t) : t[i] = s[i + 1] /\ i + 1 \in 1..Len(s) /\ i + 1 # 1
  BY <1>1
<1>3. \A i \in 1..Len(s) : i # 1 => i - 1 \in 1..Len(t) /\ (i - 1) + 1 = i
  BY <1>1
<1>. HIDE DEF t
<1>4. \A i \in 1..Len(s) : i # 1 => i - 1 \in 1..Len(t) /\ t[i - 1] = s[i]
  BY <1>2, <1>3
<1>5. In(s, y) <=> y = Head(s) \/ In(t, y)
  BY <1>1, <1>2, <1>4 DEF In
<1>6. ASSUME Once(s, y) PROVE Once(t, y) /\ ~(y = Head(s) /\ In(t, y))
  <2>1. ASSUME NEW i \in 1..Len(t), NEW j \in 1..Len(t), t[i] = y, t[j] = y PROVE i = j
    <3>1. i + 1 = j + 1
      BY <1>2, <1>6, <2>1 DEF Once
    <3>. QED  BY <1>1, <3>1
  <2>2. ~(y = Head(s) /\ In(t, y))
    BY <1>1, <1>2, <1>6 DEF In, Once
  <2>. QED  BY <2>1, <2>2 DEF Once
<1>. QED  BY <1>1, <1>5, <1>6 DEF In, t

----------------------------------------------------------------------------
(* The invariants.                                                         *)

Serves(c) == mgr.pc \in {"join", "next", "await"} /\ mgr.who = c
Busy(d, c) == thread[d] = "busy" /\ job[d].who = c

\* A call is with the manager once, and its caller waits for it.
AtManager ==
  /\ \A c \in Callers :
       /\ Once(callQueue, c)
       /\ In(callQueue, c) \/ Serves(c) => pc[c] = "mwait" /\ reply[c] = "none"
       /\ Serves(c) => ~In(callQueue, c)
  /\ mgr.pc = "next" => req[mgr.who].op \in {"shutdown", "commit"}
  /\ mgr.pc = "join" => req[mgr.who].op \in {"add", "del", "shutdown"}
  /\ mgr.pc = "await" => req[mgr.who].op = "commit"

\* A caller's work is with one worker, the one it is bound to, and there once.
AtWorkers ==
  \A c \in Callers, d \in DBs :
    /\ Once(qq[d], c)
    /\ In(qq[d], c) \/ Busy(d, c) => pc[c] = "dwait" /\ reply[c] = "none" /\ handle[c] = d
    /\ Busy(d, c) => ~In(qq[d], c)

\* What a caller has in hand while it asks.
Asking ==
  \A c \in Callers :
    /\ reply[c] # "none" => pc[c] \in {"mwait", "dwait"}
    /\ pc[c] # "idle" => (req[c].op \in ClientOps <=> c \in Clients)
    /\ pc[c] \in {"submit", "dwait"} => req[c].op \in {"query", "batch"}
    /\ pc[c] \in {"stop", "join"} => req[c].op = "shutdown"
    /\ handle[c] # Main => \/ pc[c] \in {"submit", "dwait"}
                           \/ pc[c] = "mwait" /\ reply[c] # "none" /\ req[c].op \in {"query", "batch"}

Queues == AtManager /\ AtWorkers /\ Asking

LEMMA QueuesInit == Init => Queues
<1>. SUFFICES ASSUME Init PROVE Queues
  OBVIOUS
<1>1. \A y : Once(<<>>, y) /\ ~In(<<>>, y)
  BY DEF Once, In
<1>2. AtManager
  BY <1>1 DEF Init, AtManager, Serves, FreeMgr
<1>3. AtWorkers
  BY <1>1 DEF Init, AtWorkers, Busy
<1>4. Asking
  BY DEF Init, Asking
<1>. QED  BY <1>2, <1>3, <1>4 DEF Queues

----------------------------------------------------------------------------
(* What a step is to those who wait.                                       *)

\* Nothing the caller has asked for changes.
SameCaller(c) == UNCHANGED <<pc[c], req[c], handle[c], count[c]>>

\* no worker takes, drops or ends a caller's work
WorkStays ==
  /\ \A c \in Callers, d \in DBs : /\ In(qq[d], c)' <=> In(qq[d], c)
                                   /\ Once(qq[d], c) => Once(qq[d], c)'
                                   /\ Busy(d, c)' <=> Busy(d, c)
  /\ \A c \in Callers : pc[c] = "dwait" /\ reply[c] = "none" => SameCaller(c) /\ reply'[c] = reply[c]

LEMMA WorkersStay == AtWorkers /\ WorkStays => AtWorkers'
BY DEF AtWorkers, WorkStays, SameCaller

\* the manager does nothing
ManagerStays ==
  /\ UNCHANGED <<callQueue, mgr>>
  /\ \A c \in Callers : pc[c] = "mwait" /\ reply[c] = "none" => SameCaller(c) /\ reply'[c] = reply[c]

LEMMA ManagerRests == Typed /\ AtManager /\ ManagerStays => AtManager'
BY DEF AtManager, ManagerStays, SameCaller, Serves, Typed, Served

LEMMA SameWork == ASSUME UNCHANGED <<qq, thread, job>>
                  PROVE  \A c \in Callers, d \in DBs : /\ In(qq[d], c)' <=> In(qq[d], c)
                                                       /\ Once(qq[d], c) => Once(qq[d], c)'
                                                       /\ Busy(d, c)' <=> Busy(d, c)
BY DEF In, Once, Busy

----------------------------------------------------------------------------
(* The callers.                                                            *)

LEMMA StartCallKeeps ==
  ASSUME Typed, Queues, NEW c \in Callers, NEW r \in Calls[c], StartCall(c, r)
  PROVE  Queues'
<1>1. /\ pc \in [Callers -> {"idle", "put", "mwait", "submit", "dwait", "stop", "join"}]
      /\ req \in [Callers -> Requests] /\ count \in [Callers -> Nat]
  BY DEF Typed, TypeOK, TypeCallers
<1>2. /\ pc[c] = "idle" /\ pc' = [pc EXCEPT ![c] = "put"] /\ req' = [req EXCEPT ![c] = r]
      /\ UNCHANGED <<handle, reply, callQueue, mgr, qq, thread, job>>
  BY DEF StartCall, workVars
<1>3. \A x \in Callers : x # c => pc'[x] = pc[x] /\ req'[x] = req[x] /\ count'[x] = count[x]
  BY <1>1 DEF StartCall
<1>4. pc'[c] = "put" /\ req'[c] = r
  BY <1>1, <1>2
<1>5. r.op \in ClientOps <=> c \in Clients
  BY ConstantsAssumption
<1>6. ManagerStays /\ WorkStays
  BY <1>2, <1>3, SameWork DEF ManagerStays, WorkStays, SameCaller
<1>7. Asking'
  BY <1>2, <1>3, <1>4, <1>5 DEF Queues, Asking
<1>. QED  BY <1>6, <1>7, WorkersStay, ManagerRests DEF Queues

LEMMA PutCallKeeps == ASSUME Typed, Queues, NEW c \in Callers, PutCall(c) PROVE Queues'
<1>1. pc \in [Callers -> {"idle", "put", "mwait", "submit", "dwait", "stop", "join"}]
      /\ callQueue \in Seq(Callers \cup {STOP})
  BY DEF Typed, TypeOK, TypeCallers, TypeManager
<1>2. /\ pc[c] = "put" /\ pc' = [pc EXCEPT ![c] = "mwait"] /\ callQueue' = Append(callQueue, c)
      /\ UNCHANGED <<req, count, handle, reply, mgr, qq, thread, job>>
  BY DEF PutCall, workVars
<1>3. pc'[c] = "mwait" /\ reply[c] = "none" /\ handle[c] = Main /\ \A x \in Callers : x # c => pc'[x] = pc[x]
  BY <1>1, <1>2 DEF Queues, Asking
<1>4. \A x \in Callers : /\ In(callQueue', x) <=> In(callQueue, x) \/ x = c
                         /\ Once(callQueue, x) /\ ~(x = c /\ In(callQueue, x)) => Once(callQueue', x)
  BY <1>1, <1>2, Appended
<1>5. ~In(callQueue, c) /\ ~Serves(c)
  BY <1>2 DEF Queues, AtManager
<1>6. AtManager'
  <2>1. \A x \in Callers : Serves(x)' <=> Serves(x)
    BY <1>2 DEF Serves
  <2>2. \A x \in Callers :
          /\ Once(callQueue, x)'
          /\ In(callQueue, x)' \/ Serves(x)' => pc'[x] = "mwait" /\ reply'[x] = "none"
          /\ Serves(x)' => ~In(callQueue, x)'
    BY <1>2, <1>3, <1>4, <1>5, <2>1 DEF Queues, AtManager
  <2>. QED  BY <1>2, <2>2 DEF Queues, AtManager
<1>7. WorkStays
  BY <1>2, <1>3, SameWork DEF WorkStays, SameCaller
<1>8. Asking'
  BY <1>2, <1>3 DEF Queues, Asking
<1>. QED  BY <1>6, <1>7, <1>8, WorkersStay DEF Queues

LEMMA GetCallResultKeeps == ASSUME Typed, Queues, NEW c \in Callers, GetCallResult(c) PROVE Queues'
<1>1. /\ pc \in [Callers -> {"idle", "put", "mwait", "submit", "dwait", "stop", "join"}]
      /\ reply \in [Callers \cup {Manager} -> {"none", "ok", "error"}]
  BY DEF Typed, TypeOK, TypeCallers
<1>2. /\ pc[c] = "mwait" /\ reply[c] # "none" /\ UNCHANGED <<req, count, handle, callQueue, mgr, qq, thread, job>>
  BY DEF GetCallResult, workVars
<1>3. reply'[c] = "none" /\ \A x \in Callers : x # c => pc'[x] = pc[x] /\ reply'[x] = reply[x]
  BY <1>1 DEF GetCallResult
<1>4. pc'[c] = IF req[c].op \in {"query", "batch"} THEN "submit"
               ELSE IF req[c].op = "shutdown" THEN "stop" ELSE "idle"
  BY <1>1 DEF GetCallResult
<1>5. ManagerStays /\ WorkStays
  BY <1>2, <1>3, SameWork DEF ManagerStays, WorkStays, SameCaller
<1>6. Asking'
  BY <1>2, <1>3, <1>4 DEF Queues, Asking
<1>. QED  BY <1>5, <1>6, WorkersStay, ManagerRests DEF Queues

LEMMA StopManagerKeeps == ASSUME Typed, Queues, NEW c \in Callers, StopManager(c) PROVE Queues'
<1>1. pc \in [Callers -> {"idle", "put", "mwait", "submit", "dwait", "stop", "join"}]
      /\ callQueue \in Seq(Callers \cup {STOP})
  BY DEF Typed, TypeOK, TypeCallers, TypeManager
<1>2. /\ pc[c] = "stop" /\ pc' = [pc EXCEPT ![c] = "join"] /\ callQueue' = Append(callQueue, STOP)
      /\ UNCHANGED <<req, count, handle, reply, mgr, qq, thread, job>>
  BY DEF StopManager, workVars
<1>3. pc'[c] = "join" /\ \A x \in Callers : x # c => pc'[x] = pc[x]
  BY <1>1, <1>2
<1>4. \A x \in Callers : /\ In(callQueue', x) <=> In(callQueue, x)
                         /\ Once(callQueue, x) => Once(callQueue', x)
  BY <1>1, <1>2, Appended, Names
<1>5. ~In(callQueue, c) /\ ~Serves(c)
  BY <1>2 DEF Queues, AtManager
<1>6. AtManager'
  <2>1. \A x \in Callers : Serves(x)' <=> Serves(x)
    BY <1>2 DEF Serves
  <2>2. \A x \in Callers :
          /\ Once(callQueue, x)'
          /\ In(callQueue, x)' \/ Serves(x)' => pc'[x] = "mwait" /\ reply'[x] = "none"
          /\ Serves(x)' => ~In(callQueue, x)'
    BY <1>2, <1>3, <1>4, <1>5, <2>1 DEF Queues, AtManager
  <2>. QED  BY <1>2, <2>2 DEF Queues, AtManager
<1>7. WorkStays
  BY <1>2, <1>3, SameWork DEF WorkStays, SameCaller
<1>8. Asking'
  BY <1>2, <1>3 DEF Queues, Asking
<1>. QED  BY <1>6, <1>7, <1>8, WorkersStay DEF Queues

LEMMA CallerRests ==
  ASSUME Typed, Queues, NEW c \in Callers, JoinManager(c) \/ GetResult(c) \/ (Submit(c) /\ ~Accepts(handle[c]))
  PROVE  Queues'
<1>1. /\ pc \in [Callers -> {"idle", "put", "mwait", "submit", "dwait", "stop", "join"}]
      /\ reply \in [Callers \cup {Manager} -> {"none", "ok", "error"}] /\ handle \in [Callers -> DBs]
  BY DEF Typed, TypeOK, TypeCallers
<1>2. UNCHANGED <<req, count, callQueue, mgr, qq, thread, job>>
  BY DEF JoinManager, GetResult, Submit, workVars
<1>3. pc'[c] = "idle" /\ \A x \in Callers : x # c => UNCHANGED <<pc[x], reply[x], handle[x]>>
  BY <1>1 DEF JoinManager, GetResult, Submit
<1>4. pc[c] # "mwait" /\ ~(pc[c] = "dwait" /\ reply[c] = "none")
  BY DEF JoinManager, GetResult, Submit
<1>5. reply'[c] = "none" /\ handle'[c] = Main
  BY <1>1 DEF JoinManager, GetResult, Submit, Queues, Asking
<1>6. ManagerStays /\ WorkStays
  BY <1>2, <1>3, <1>4, SameWork DEF ManagerStays, WorkStays, SameCaller
<1>7. Asking'
  BY <1>2, <1>3, <1>5 DEF Queues, Asking
<1>. QED  BY <1>6, <1>7, WorkersStay, ManagerRests DEF Queues

LEMMA SubmitKeeps == ASSUME Typed, Queues, NEW c \in Callers, Submit(c), Accepts(handle[c]) PROVE Queues'
<1>. DEFINE S == Callers \cup {Manager, STOP}
<1>1. /\ pc \in [Callers -> {"idle", "put", "mwait", "submit", "dwait", "stop", "join"}]
      /\ qq \in [DBs -> Seq(S)] /\ handle[c] \in DBs
  BY DEF Typed, TypeOK, TypeCallers, TypeWorkers
<1>2. PICK b \in DBs : b = handle[c]
  BY <1>1
<1>3. /\ pc[c] = "submit" /\ pc' = [pc EXCEPT ![c] = "dwait"] /\ qq' = [qq EXCEPT ![b] = Append(qq[b], c)]
      /\ UNCHANGED <<req, count, handle, reply, mgr, callQueue, thread, job>>
  BY <1>2 DEF Submit, workVars
<1>4. pc'[c] = "dwait" /\ reply[c] = "none" /\ \A x \in Callers : x # c => pc'[x] = pc[x]
  BY <1>1, <1>3 DEF Queues, Asking
<1>5. /\ qq'[b] = Append(qq[b], c) /\ qq[b] \in Seq(S) /\ c \in S
      /\ \A d \in DBs : d # b => qq'[d] = qq[d]
  BY <1>1, <1>3
<1>6. \A x \in Callers : /\ In(qq'[b], x) <=> In(qq[b], x) \/ x = c
                         /\ Once(qq[b], x) /\ ~(x = c /\ In(qq[b], x)) => Once(qq'[b], x)
  <2>. HIDE DEF S
  <2>. QED  BY <1>5, Appended
<1>7. \A d \in DBs : ~In(qq[d], c) /\ ~Busy(d, c)
  BY <1>3 DEF Queues, AtWorkers
<1>8. \A d \in DBs, x \in Callers : Busy(d, x)' <=> Busy(d, x)
  BY <1>3 DEF Busy
<1>9. AtWorkers'
  <2>1. ASSUME NEW x \in Callers, NEW d \in DBs
        PROVE  /\ Once(qq'[d], x)
               /\ In(qq'[d], x) \/ Busy(d, x)' => pc'[x] = "dwait" /\ reply'[x] = "none" /\ handle'[x] = d
               /\ Busy(d, x)' => ~In(qq'[d], x)
    <3>1. CASE d = b
      BY <1>2, <1>3, <1>4, <1>6, <1>7, <1>8, <3>1 DEF Queues, AtWorkers
    <3>2. CASE d # b
      BY <1>3, <1>4, <1>5, <1>7, <1>8, <3>2 DEF Queues, AtWorkers
    <3>. QED  BY <3>1, <3>2
  <2>. QED  BY <2>1 DEF AtWorkers
<1>10. ManagerStays
  BY <1>3, <1>4 DEF ManagerStays, SameCaller
<1>11. Asking'
  BY <1>3, <1>4 DEF Queues, Asking
<1>. QED  BY <1>9, <1>10, <1>11, ManagerRests DEF Queues

----------------------------------------------------------------------------
(* The manager.                                                            *)

\* The manager takes c's call, or is in the middle of it,
Takes(c) == /\ mgr.pc = "get" /\ callQueue # <<>> /\ Head(callQueue) = c
            /\ callQueue' = Tail(callQueue)
InHand(c) == Serves(c) /\ UNCHANGED callQueue
\* and answers it, or goes on with it.
AnswersCall(c) == /\ mgr'.pc = "get" /\ reply'[c] # "none"
                  /\ \A x \in Callers : x # c => reply'[x] = reply[x]
GoesOn(c) == /\ Serves(c)'
             /\ mgr'.pc = "next" => req[c].op \in {"shutdown", "commit"}
             /\ mgr'.pc = "join" => req[c].op \in {"add", "del", "shutdown"}
             /\ mgr'.pc = "await" => req[c].op = "commit"
             /\ \A x \in Callers : reply'[x] = reply[x]
ManagerActs(c) == (Takes(c) \/ InHand(c)) /\ (AnswersCall(c) \/ GoesOn(c))

\* Of the workers it starts new ones, and asks others to stop or to checkpoint.
ManagerLeaves ==
  /\ UNCHANGED <<pc, req, count, job>>
  /\ \A d \in DBs : thread'[d] # thread[d] => thread[d] = "none" /\ thread'[d] = "starting"
  /\ UNCHANGED qq \/ \E d \in DBs : QueueAppends(d, STOP) \/ QueueAppends(d, Manager)
  /\ \A c \in Callers : handle'[c] # handle[c] =>
       req[c].op \in {"query", "batch"} /\ pc[c] = "mwait" /\ reply[c] = "none" /\ reply'[c] # "none"

LEMMA AnswerGiven ==
  ASSUME Typed, NEW c \in Callers, NEW r \in {"ok", "error"}, Answer(c, r)
  PROVE  AnswersCall(c)
<1>1. reply \in [Callers \cup {Manager} -> {"none", "ok", "error"}]
  BY DEF Typed, TypeOK, TypeCallers
<1>2. reply' = [reply EXCEPT ![c] = r] /\ mgr' = FreeMgr
  BY DEF Answer
<1>. QED  BY <1>1, <1>2 DEF AnswersCall, FreeMgr

LEMMA BindAnswers ==
  ASSUME NEW c, NEW fm, NEW sv, BindFile(c, fm, sv)
  PROVE  \E r \in {"ok", "error"} : Answer(c, r)
BY DEF BindFile

LEMMA BindStarts ==
  ASSUME Typed, NEW c, NEW fm, NEW sv, BindFile(c, fm, sv)
  PROVE  \A d \in DBs : thread'[d] # thread[d] => thread[d] = "none" /\ thread'[d] = "starting"
BY DEF BindFile, Unborn, Typed, TypeOK, TypeWorkers

LEMMA ManagerMoves ==
  ASSUME Typed, Queues, ManagerStep
  PROVE  (\E c \in Callers : ManagerActs(c)) \/ MgrEnd
<1>. USE DEF Typed
<1>1. ASSUME NEW c \in Callers, MgrGetDB(c) PROVE ManagerActs(c)
  BY <1>1, AnswerGiven DEF MgrGetDB, Serving, ManagerActs, Takes
<1>2. ASSUME NEW c \in Callers, MgrDelServer(c) PROVE ManagerActs(c)
  <2>1. Takes(c) /\ req[c].op \in {"add", "del"}
    BY <1>2 DEF MgrDelServer, Serving, Takes
  <2>2. \/ Answer(c, "ok")
        \/ \E d : mgr' = [pc |-> "join", who |-> c, db |-> d, todo |-> {}] /\ UNCHANGED reply
    BY <1>2 DEF MgrDelServer, Drop, ReleaseLast
  <2>. QED  BY <2>1, <2>2, AnswerGiven DEF ManagerActs, GoesOn, Serves
<1>3. ASSUME NEW c \in Callers, MgrAddServer(c) PROVE ManagerActs(c)
  <2>1. Takes(c) /\ req[c].op = "add"
    BY <1>3 DEF MgrAddServer, Serving, Takes
  <2>2. \/ \E r \in {"ok", "error"} : Answer(c, r)
        \/ \E d : mgr' = [pc |-> "join", who |-> c, db |-> d, todo |-> {}] /\ UNCHANGED reply
    BY <1>3, BindAnswers DEF MgrAddServer, ReleaseLast
  <2>. QED  BY <2>1, <2>2, AnswerGiven DEF ManagerActs, GoesOn, Serves
<1>4. ASSUME MgrJoined PROVE \E c \in Callers : ManagerActs(c)
  <2>1. PICK c \in Callers : c = mgr.who
    BY <1>4 DEF MgrJoined, Served
  <2>2. InHand(c)
    BY <1>4, <2>1 DEF MgrJoined, InHand, Serves
  <2>3. \E r \in {"ok", "error"} : Answer(c, r)
    BY <1>4, <2>1, BindAnswers DEF MgrJoined, Drop
  <2>. QED  BY <2>2, <2>3, AnswerGiven DEF ManagerActs
<1>5. ASSUME NEW c \in Callers, MgrVisit(c) PROVE ManagerActs(c)
  BY <1>5 DEF MgrVisit, Serving, ManagerActs, Takes, GoesOn, Serves
<1>6. ASSUME NEW d \in DBs, MgrShutdownStop(d) \/ MgrCommitVisit(d) PROVE \E c \in Callers : ManagerActs(c)
  <2>1. PICK c \in Callers : c = mgr.who
    BY <1>6 DEF MgrShutdownStop, MgrCommitVisit, Served
  <2>2. InHand(c)
    BY <1>6, <2>1 DEF MgrShutdownStop, MgrCommitVisit, InHand, Serves
  <2>3. \/ Answer(c, "error")
        \/ /\ mgr'.who = c /\ UNCHANGED reply
           /\ \/ mgr'.pc = "join" /\ req[c].op = "shutdown"
              \/ mgr'.pc = "await" /\ req[c].op = "commit"
    BY <1>6, <2>1 DEF MgrShutdownStop, MgrCommitVisit, TypeOK, TypeManager
  <2>. QED  BY <2>2, <2>3, AnswerGiven DEF ManagerActs, GoesOn, Serves
<1>7. ASSUME MgrShutdownJoined PROVE \E c \in Callers : ManagerActs(c)
  <2>1. PICK c \in Callers : c = mgr.who
    BY <1>7 DEF MgrShutdownJoined, Served
  <2>2. InHand(c) /\ req[c].op = "shutdown"
    BY <1>7, <2>1 DEF MgrShutdownJoined, InHand, Serves
  <2>3. Answer(c, "ok") \/ (mgr'.pc = "next" /\ mgr'.who = c /\ UNCHANGED reply)
    BY <1>7, <2>1 DEF MgrShutdownJoined, TypeOK, TypeManager
  <2>. QED  BY <2>2, <2>3, AnswerGiven DEF ManagerActs, GoesOn, Serves
<1>8. ASSUME MgrCommitted PROVE \E c \in Callers : ManagerActs(c)
  <2>1. PICK c \in Callers : c = mgr.who
    BY <1>8 DEF MgrCommitted, Served
  <2>2. InHand(c) /\ req[c].op = "commit"
    BY <1>8, <2>1 DEF MgrCommitted, InHand, Serves, Queues, AtManager
  <2>3. reply \in [Callers \cup {Manager} -> {"none", "ok", "error"}]
    BY DEF TypeOK, TypeCallers
  <2>4. CASE mgr' = [mgr EXCEPT !.pc = "next"] /\ reply' = [reply EXCEPT ![Manager] = "none"]
    <3>1. mgr'.pc = "next" /\ mgr'.who = c /\ \A x \in Callers : reply'[x] = reply[x]
      BY <2>1, <2>3, <2>4, Names DEF TypeOK, TypeManager
    <3>. QED  BY <2>2, <3>1 DEF ManagerActs, GoesOn, Serves
  <2>5. CASE mgr' = FreeMgr /\ reply' = [reply EXCEPT ![Manager] = "none", ![mgr.who] = reply[Manager]]
    <3>1. mgr'.pc = "get" /\ reply'[c] = reply[Manager] /\ \A x \in Callers : x # c => reply'[x] = reply[x]
      BY <2>1, <2>3, <2>5, Names DEF FreeMgr
    <3>. QED  BY <1>8, <2>2, <3>1 DEF ManagerActs, AnswersCall, MgrCommitted
  <2>. QED  BY <1>8, <2>4, <2>5 DEF MgrCommitted
<1>. QED  BY <1>1, <1>2, <1>3, <1>4, <1>5, <1>6, <1>7, <1>8 DEF ManagerStep

LEMMA WorkerAsked == ASSUME NEW d \in DBs, StopWorker(d)
                     PROVE  UNCHANGED qq \/ \E e \in DBs : QueueAppends(e, STOP) \/ QueueAppends(e, Manager)
BY DEF StopWorker, QueueAppends

\* whose call the manager takes or has in hand waits for it
LEMMA CallWaits ==
  ASSUME Typed, Queues, NEW c \in Callers, Takes(c) \/ Serves(c)
  PROVE  pc[c] = "mwait" /\ reply[c] = "none"
<1>1. CASE Takes(c)
  <2>1. callQueue \in Seq(Callers \cup {STOP})
    BY DEF Typed, TypeOK, TypeManager
  <2>2. In(callQueue, c)
    BY <1>1, <2>1, Taken DEF Takes
  <2>. QED  BY <2>2 DEF Queues, AtManager
<1>2. CASE Serves(c)
  BY <1>2 DEF Queues, AtManager
<1>. QED  BY <1>1, <1>2

LEMMA ManagerLeavesThem ==
  ASSUME Typed, Queues, ManagerStep \/ MgrEnd
  PROVE  ManagerLeaves
<1>. USE DEF workVars, mapVars, callerVars
<1>1. ASSUME NEW c \in Callers, MgrGetDB(c) PROVE ManagerLeaves
  <2>1. Takes(c) /\ req[c].op \in {"query", "batch"}
    BY <1>1 DEF MgrGetDB, Serving, Takes
  <2>2. handle \in [Callers -> DBs] /\ reply \in [Callers \cup {Manager} -> {"none", "ok", "error"}]
    BY DEF Typed, TypeOK, TypeCallers
  <2>3. reply'[c] # "none" /\ \A x \in Callers : x # c => handle'[x] = handle[x]
    BY <1>1, <2>2 DEF MgrGetDB, Answer
  <2>4. UNCHANGED <<pc, req, count, job, thread, qq>>
    BY <1>1 DEF MgrGetDB
  <2>5. pc[c] = "mwait" /\ reply[c] = "none"
    BY <2>1, CallWaits
  <2>. QED  BY <2>1, <2>3, <2>4, <2>5 DEF ManagerLeaves
<1>2. ASSUME NEW c \in Callers, MgrDelServer(c) PROVE ManagerLeaves
  <2>1. serverDBMap[req[c].label] \in DBs
    BY ServedTyped DEF Typed
  <2>2. UNCHANGED qq \/ \E e \in DBs : QueueAppends(e, STOP) \/ QueueAppends(e, Manager)
    BY <1>2, <2>1, WorkerAsked DEF MgrDelServer, ReleaseLast
  <2>3. UNCHANGED <<pc, req, count, job, handle, thread>>
    BY <1>2 DEF MgrDelServer, Drop, ReleaseLast
  <2>. QED  BY <2>2, <2>3 DEF ManagerLeaves
<1>3. ASSUME NEW c \in Callers, MgrAddServer(c) PROVE ManagerLeaves
  <2>1. serverDBMap[req[c].label] \in DBs
    BY ServedTyped DEF Typed
  <2>2. UNCHANGED qq \/ \E e \in DBs : QueueAppends(e, STOP) \/ QueueAppends(e, Manager)
    BY <1>3, <2>1, WorkerAsked DEF MgrAddServer, ReleaseLast
  <2>3. UNCHANGED <<pc, req, count, job, handle>>
    BY <1>3 DEF MgrAddServer
  <2>4. \A d \in DBs : thread'[d] # thread[d] => thread[d] = "none" /\ thread'[d] = "starting"
    BY <1>3, BindStarts DEF MgrAddServer, ReleaseLast
  <2>. QED  BY <2>2, <2>3, <2>4 DEF ManagerLeaves
<1>4. ASSUME MgrJoined PROVE ManagerLeaves
  <2>1. UNCHANGED <<pc, req, count, job, handle, qq>>
    BY <1>4 DEF MgrJoined
  <2>2. \A d \in DBs : thread'[d] # thread[d] => thread[d] = "none" /\ thread'[d] = "starting"
    BY <1>4, BindStarts DEF MgrJoined, Drop
  <2>. QED  BY <2>1, <2>2 DEF ManagerLeaves
<1>5. ASSUME NEW d \in DBs, MgrShutdownStop(d) \/ MgrCommitVisit(d) PROVE ManagerLeaves
  <2>1. UNCHANGED <<pc, req, count, job, handle, thread>>
    BY <1>5 DEF MgrShutdownStop, MgrCommitVisit
  <2>2. UNCHANGED qq \/ \E e \in DBs : QueueAppends(e, STOP) \/ QueueAppends(e, Manager)
    BY <1>5, WorkerAsked DEF MgrShutdownStop, MgrCommitVisit, QueueAppends
  <2>. QED  BY <2>1, <2>2 DEF ManagerLeaves
<1>6. ASSUME NEW c \in Callers, MgrVisit(c) PROVE ManagerLeaves
  BY <1>6 DEF MgrVisit, ManagerLeaves
<1>7. CASE MgrShutdownJoined \/ MgrCommitted \/ MgrEnd
  BY <1>7 DEF MgrShutdownJoined, MgrCommitted, MgrEnd, ManagerLeaves
<1>. QED  BY <1>1, <1>2, <1>3, <1>4, <1>5, <1>6, <1>7 DEF ManagerStep

LEMMA StepIsManagers ==
  ASSUME Typed, Queues, ManagerStep
  PROVE  AtManager' /\ \A c \in Callers : reply'[c] # reply[c] => pc[c] = "mwait" /\ reply[c] = "none"
<1>1. UNCHANGED <<pc, req>>
  BY ManagerLeavesThem DEF ManagerLeaves
<1>2. callQueue \in Seq(Callers \cup {STOP})
  BY DEF Typed, TypeOK, TypeManager
<1>3. CASE MgrEnd
  <2>1. callQueue # <<>> /\ callQueue' = Tail(callQueue) /\ mgr.pc = "get" /\ mgr' = [mgr EXCEPT !.pc = "ended"]
        /\ UNCHANGED reply
    BY <1>3 DEF MgrEnd
  <2>2. \A x \in Callers : /\ In(callQueue', x) => In(callQueue, x)
                           /\ Once(callQueue, x) => Once(callQueue', x)
    BY <1>2, <2>1, Taken
  <2>3. mgr'.pc = "ended"
    BY <2>1 DEF Typed, TypeOK, TypeManager
  <2>. QED  BY <1>1, <2>1, <2>2, <2>3 DEF Queues, AtManager, Serves
<1>4. ASSUME NEW c \in Callers, ManagerActs(c)
      PROVE  AtManager' /\ \A x \in Callers : reply'[x] # reply[x] => pc[x] = "mwait" /\ reply[x] = "none"
  <2>1. pc[c] = "mwait" /\ reply[c] = "none"
    BY <1>4, CallWaits DEF ManagerActs, InHand
  <2>2. \A x \in Callers : /\ In(callQueue', x) => In(callQueue, x)
                           /\ Once(callQueue', x)
    <3>1. CASE Takes(c)
      BY <1>2, <3>1, Taken DEF Takes, Queues, AtManager
    <3>2. CASE InHand(c)
      BY <3>2 DEF InHand, Queues, AtManager
    <3>. QED  BY <1>4, <3>1, <3>2 DEF ManagerActs
  <2>3. ~In(callQueue', c)
    <3>1. CASE Takes(c)
      <4>1. Once(callQueue, c) => ~(c = Head(callQueue) /\ In(Tail(callQueue), c))
        BY <1>2, <3>1, Taken DEF Takes
      <4>. QED  BY <3>1, <4>1 DEF Takes, Queues, AtManager
    <3>2. CASE InHand(c)
      BY <3>2 DEF InHand, Queues, AtManager
    <3>. QED  BY <1>4, <3>1, <3>2 DEF ManagerActs
  <2>4. CASE AnswersCall(c)
    <3>1. mgr'.pc = "get" /\ \A x \in Callers : x # c => reply'[x] = reply[x]
      BY <2>4 DEF AnswersCall
    <3>2. \A x \in Callers : ~Serves(x)'
      BY <3>1 DEF Serves
    <3>3. \A x \in Callers : /\ Once(callQueue', x)
                             /\ In(callQueue', x) => pc'[x] = "mwait" /\ reply'[x] = "none"
      BY <1>1, <2>2, <2>3, <3>1 DEF Queues, AtManager
    <3>. QED  BY <2>1, <3>1, <3>2, <3>3 DEF AtManager
  <2>5. CASE GoesOn(c)
    <3>1. /\ Serves(c)' /\ \A x \in Callers : reply'[x] = reply[x]
          /\ mgr'.who = c
      BY <2>5 DEF GoesOn, Serves
    <3>2. \A x \in Callers : Serves(x)' => x = c
      BY <3>1 DEF Serves
    <3>3. \A x \in Callers : /\ Once(callQueue', x)
                             /\ In(callQueue', x) => pc'[x] = "mwait" /\ reply'[x] = "none"
      BY <1>1, <2>2, <3>1 DEF Queues, AtManager
    <3>4. /\ mgr'.pc = "next" => req[c].op \in {"shutdown", "commit"}
          /\ mgr'.pc = "join" => req[c].op \in {"add", "del", "shutdown"}
          /\ mgr'.pc = "await" => req[c].op = "commit"
      BY <2>5 DEF GoesOn
    <3>. QED  BY <1>1, <2>1, <2>3, <3>1, <3>2, <3>3, <3>4 DEF AtManager
  <2>. QED  BY <1>4, <2>4, <2>5 DEF ManagerActs
<1>. QED  BY <1>3, <1>4, ManagerMoves

LEMMA ManagerKeeps == ASSUME Typed, Queues, ManagerStep PROVE Queues'
<1>1. AtManager' /\ \A c \in Callers : reply'[c] # reply[c] => pc[c] = "mwait" /\ reply[c] = "none"
  BY StepIsManagers
<1>2. ManagerLeaves
  BY ManagerLeavesThem
<1>. DEFINE S == Callers \cup {Manager, STOP}
<1>3. qq \in [DBs -> Seq(S)]
  BY DEF Typed, TypeOK, TypeWorkers
<1>4. \A c \in Callers, d \in DBs : /\ In(qq'[d], c) <=> In(qq[d], c)
                                    /\ Once(qq[d], c) => Once(qq'[d], c)
  <2>1. ASSUME NEW e \in DBs, NEW x \in {STOP, Manager}, QueueAppends(e, x), NEW c \in Callers, NEW d \in DBs
        PROVE  /\ In(qq'[d], c) <=> In(qq[d], c)
               /\ Once(qq[d], c) => Once(qq'[d], c)
    <3>1. c # x
      BY Names
    <3>2. CASE d = e
      <4>1. qq'[d] = Append(qq[d], x) /\ qq[d] \in Seq(S) /\ x \in S
        BY <1>3, <2>1, <3>2 DEF QueueAppends
      <4>. HIDE DEF S
      <4>. QED  BY <3>1, <4>1, Appended
    <3>3. CASE d # e
      BY <1>3, <2>1, <3>3 DEF QueueAppends
    <3>. QED  BY <3>2, <3>3
  <2>. QED  BY <1>2, <2>1 DEF ManagerLeaves
<1>5. \A c \in Callers, d \in DBs : Busy(d, c)' <=> Busy(d, c)
  BY <1>2 DEF ManagerLeaves, Busy
<1>6. \A c \in Callers : pc[c] = "dwait" => SameCaller(c) /\ reply'[c] = reply[c]
  BY <1>1, <1>2 DEF ManagerLeaves, SameCaller
<1>7. WorkStays
  BY <1>4, <1>5, <1>6 DEF WorkStays
<1>8. Asking'
  BY <1>1, <1>2 DEF ManagerLeaves, Queues, Asking
<1>. QED  BY <1>1, <1>7, <1>8, WorkersStay DEF Queues

----------------------------------------------------------------------------
(* The workers.                                                            *)

LEMMA OpenKeeps == ASSUME Typed, Queues, NEW d \in DBs, Open(d) PROVE Queues'
<1>1. UNCHANGED <<callQueue, mgr, pc, req, handle, count, reply, qq, job>>
  BY DEF Open, otherVars, callerVars, workVars
<1>2. \A x \in Callers, e \in DBs : Busy(e, x)' <=> Busy(e, x)
  BY <1>1 DEF Open, Busy, Typed, TypeOK, TypeWorkers
<1>3. ManagerStays
  BY <1>1 DEF ManagerStays, SameCaller
<1>4. WorkStays
  BY <1>1, <1>2 DEF WorkStays, SameCaller, In, Once
<1>5. Asking'
  BY <1>1 DEF Queues, Asking
<1>. QED  BY <1>3, <1>4, <1>5, WorkersStay, ManagerRests DEF Queues

LEMMA TakeWorkKeeps == ASSUME Typed, Queues, NEW d \in DBs, TakeWork(d) PROVE Queues'
<1>. DEFINE S == Callers \cup {Manager, STOP}
<1>1. UNCHANGED <<callQueue, mgr, pc, req, handle, count, reply>>
  BY DEF TakeWork, otherVars, callerVars
<1>2. /\ thread \in ThreadType /\ job \in [DBs -> JobType] /\ qq[d] \in Seq(S) /\ qq \in [DBs -> Seq(S)]
  BY BeforeWork
<1>3. /\ thread[d] = "idle" /\ qq[d] # <<>> /\ qq'[d] = Tail(qq[d])
      /\ \A e \in DBs : e # d => qq'[e] = qq[e] /\ thread'[e] = thread[e] /\ job'[e] = job[e]
  BY <1>2 DEF TakeWork, ThreadType
<1>4. \A x \in Callers : /\ In(qq[d], x) <=> x = Head(qq[d]) \/ In(qq'[d], x)
                         /\ Once(qq[d], x) => Once(qq'[d], x) /\ ~(x = Head(qq[d]) /\ In(qq'[d], x))
  <2>. HIDE DEF S
  <2>. QED  BY <1>2, <1>3, Taken
<1>5. \A x \in Callers : Busy(d, x)' => x = Head(qq[d])
  BY <1>2, Names DEF TakeWork, Busy, ThreadType, JobType
<1>6. AtWorkers'
  <2>1. ASSUME NEW x \in Callers, NEW e \in DBs
        PROVE  /\ Once(qq'[e], x)
               /\ In(qq'[e], x) \/ Busy(e, x)' => pc'[x] = "dwait" /\ reply'[x] = "none" /\ handle'[x] = e
               /\ Busy(e, x)' => ~In(qq'[e], x)
    <3>1. CASE e = d
      BY <1>1, <1>4, <1>5, <3>1 DEF Queues, AtWorkers
    <3>2. CASE e # d
      <4>1. Busy(e, x)' <=> Busy(e, x)
        BY <1>3, <3>2 DEF Busy
      <4>. QED  BY <1>1, <1>3, <3>2, <4>1 DEF Queues, AtWorkers
    <3>. QED  BY <3>1, <3>2
  <2>. QED  BY <2>1 DEF AtWorkers
<1>7. ManagerStays
  BY <1>1 DEF ManagerStays, SameCaller
<1>8. Asking'
  BY <1>1 DEF Queues, Asking
<1>. QED  BY <1>6, <1>7, <1>8, ManagerRests DEF Queues

LEMMA RespondKeeps ==
  ASSUME Typed, Queues, NEW d \in DBs, thread[d] = "busy", NEW r \in {"ok", "error"}, Respond(d, r),
         UNCHANGED <<otherVars, qq>>
  PROVE  Queues'
<1>1. UNCHANGED <<callQueue, mgr, pc, req, handle, count, qq>>
  BY DEF otherVars, callerVars
<1>2. thread \in ThreadType /\ job \in [DBs -> JobType] /\ reply \in ReplyType
      /\ job[d].who \in Callers \cup {Manager}
  BY BeforeWork
<1>3. /\ thread'[d] = "idle" /\ \A e \in DBs : e # d => thread'[e] = thread[e] /\ job'[e] = job[e]
      /\ \A x \in Callers : x # job[d].who => reply'[x] = reply[x]
  BY <1>2 DEF Respond, ThreadType, ReplyType
<1>4. \A x \in Callers : reply'[x] # reply[x] => Busy(d, x)
  BY <1>3 DEF Busy
<1>5. \A x \in Callers, e \in DBs : Busy(e, x)' => Busy(e, x) /\ e # d
  BY <1>3 DEF Busy
<1>6. \A x \in Callers : reply'[x] # reply[x] => pc[x] = "dwait" /\ \A e \in DBs : ~In(qq[e], x) /\ (Busy(e, x) => e = d)
  BY <1>4 DEF Queues, AtWorkers
<1>7. AtWorkers'
  BY <1>1, <1>5, <1>6 DEF Queues, AtWorkers
<1>8. ManagerStays
  BY <1>1, <1>6 DEF ManagerStays, SameCaller
<1>9. Asking'
  BY <1>1, <1>6 DEF Queues, Asking
<1>. QED  BY <1>7, <1>8, <1>9, ManagerRests DEF Queues

\* A worker's step inside a batch leaves the queues and the answers alone.
LEMMA BatchKeeps ==
  ASSUME Typed, Queues, NEW d \in DBs, UNCHANGED <<otherVars, qq, thread, reply>>,
         \A e \in DBs : job'[e].who = job[e].who
  PROVE  Queues'
<1>1. UNCHANGED <<callQueue, mgr, pc, req, handle, count, reply, qq>>
  BY DEF otherVars, callerVars
<1>2. \A x \in Callers, e \in DBs : Busy(e, x)' <=> Busy(e, x)
  BY DEF Busy
<1>3. ManagerStays
  BY <1>1 DEF ManagerStays, SameCaller
<1>4. WorkStays
  BY <1>1, <1>2 DEF WorkStays, SameCaller, In, Once
<1>5. Asking'
  BY <1>1 DEF Queues, Asking
<1>. QED  BY <1>3, <1>4, <1>5, WorkersStay, ManagerRests DEF Queues

LEMMA WorkerKeeps == ASSUME Typed, Queues, NEW d \in DBs, Worker(d) PROVE Queues'
<1>1. job \in [DBs -> JobType]
  BY BeforeWork
<1>2. CASE Open(d)
  BY <1>2, OpenKeeps
<1>3. CASE TakeWork(d)
  BY <1>3, TakeWorkKeeps
<1>4. ASSUME NEW r \in {"ok", "error"}, Respond(d, r), thread[d] = "busy", UNCHANGED <<otherVars, qq>>
      PROVE  Queues'
  BY <1>4, RespondKeeps
<1>5. CASE RunQuery(d) \/ RunCheckpoint(d)
  BY <1>4, <1>5 DEF RunQuery, RunCheckpoint, Working
<1>6. ASSUME NEW at, job' = [job EXCEPT ![d].at = at], UNCHANGED <<otherVars, qq, thread, reply>>
      PROVE  Queues'
  <2>1. \A e \in DBs : job'[e].who = job[e].who
    BY <1>1, <1>6 DEF JobType
  <2>. QED  BY <1>6, <2>1, BatchKeeps
<1>7. CASE BatchBegin(d)
  BY <1>4, <1>6, <1>7 DEF BatchBegin, Working
<1>8. CASE BatchStatement(d)
  <2>1. \A e \in DBs : job'[e].who = job[e].who
    BY <1>1, <1>8 DEF BatchStatement, JobType
  <2>. QED  BY <1>8, <2>1, BatchKeeps DEF BatchStatement
<1>9. CASE BatchCommit(d)
  BY <1>4, <1>6, <1>9 DEF BatchCommit, Working
<1>10. CASE BatchRollback(d)
  BY <1>4, <1>10 DEF BatchRollback, Working
<1>. QED  BY <1>2, <1>3, <1>5, <1>7, <1>8, <1>9, <1>10 DEF Worker

LEMMA CallerKeeps ==
  ASSUME Typed, Queues, NEW c \in Callers, (\E r \in Calls[c] : StartCall(c, r)) \/ Caller(c)
  PROVE  Queues'
BY StartCallKeeps, PutCallKeeps, GetCallResultKeeps, StopManagerKeeps, CallerRests, SubmitKeeps DEF Caller

LEMMA QueuesStep == Typed /\ Queues /\ [Next]_vars => Queues'
<1>. SUFFICES ASSUME Typed, Queues, [Next]_vars PROVE Queues'
  OBVIOUS
<1>1. CASE Next
  BY <1>1, CallerKeeps, ManagerKeeps, WorkerKeeps DEF Next
<1>2. CASE UNCHANGED vars
  <2>1. ManagerStays /\ WorkStays
    BY <1>2, SameWork DEF vars, ManagerStays, WorkStays, SameCaller
  <2>2. Asking'
    BY <1>2 DEF vars, Queues, Asking
  <2>. QED  BY <2>1, <2>2, WorkersStay, ManagerRests DEF Queues
<1>. QED  BY <1>1, <1>2

----------------------------------------------------------------------------
(* What a worker has in hand, and where its writes are.                    *)

\* Who is bound to a worker is bound to one that has been started.
Born(d) == thread[d] # "none"

Bindings ==
  /\ dbFile[Main] = MainFile /\ Born(Main)
  /\ \A l \in Labels : Born(serverDBMap[l])
  /\ \A f \in Files : fileDBMap[f] # NoDB => Born(fileDBMap[f])
  /\ \A c \in Callers : Born(handle[c])

\* A connection is in a transaction just when its worker is in a batch, and the
\* transaction holds the statements the batch has run.
InBatch(d) == thread[d] = "busy" /\ job[d].at # "start"

Written(d, n) == {<<job[d].who, count[job[d].who], i>> : i \in 1..n}

Transactions ==
  \A d \in DBs :
    /\ thread[d] # "busy" => job[d] = NoJob
    /\ InBatch(d) => /\ job[d].who \in Callers /\ req[job[d].who].op = "batch"
                     /\ txn[d].open /\ txn[d].writes = Written(d, job[d].step)
    /\ ~InBatch(d) => txn[d] = NoTxn /\ job[d].step = 0

\* Nothing of a request is stored before the request is answered.
Answered(c) == pc[c] = "idle" \/ (pc[c] = "dwait" /\ reply[c] # "none")

Applied == \A f \in AllFiles : \A w \in stored[f] :
             w[2] < count[w[1]] \/ (w[2] = count[w[1]] /\ Answered(w[1]))

ServiceInv == Typed /\ Queues /\ Bindings /\ Transactions /\ Applied /\ ResultIsTruthful

LEMMA BindingsStep == Typed /\ Bindings /\ [Next]_vars => Bindings'
<1>. SUFFICES ASSUME Typed, Bindings, [Next]_vars PROVE Bindings'
  OBVIOUS
<1>. USE DEF mapVars, workVars, callerVars, otherVars
<1>1. /\ serverDBMap \in [Labels -> DBs] /\ fileDBMap \in [Files -> DBs \cup {NoDB}] /\ dbFile \in [DBs -> AllFiles]
      /\ thread \in ThreadType /\ handle \in [Callers -> DBs] /\ req \in [Callers -> Requests]
  BY DEF Typed, TypeOK, TypeMaps, TypeWorkers, TypeCallers, ThreadType
\* what every step but a worker's creation keeps
<1>2. ASSUME \A d \in DBs : Born(d) => thread'[d] # "none" /\ dbFile'[d] = dbFile[d],
             \A l \in Labels : serverDBMap'[l] = serverDBMap[l] \/ thread'[serverDBMap'[l]] # "none",
             \A f \in Files : fileDBMap'[f] = fileDBMap[f] \/ fileDBMap'[f] = NoDB \/ thread'[fileDBMap'[f]] # "none",
             \A c \in Callers : \/ handle'[c] = handle[c] \/ handle'[c] = Main
                                \/ \E l \in Labels : handle'[c] = serverDBMap[l]
      PROVE  Bindings'
  <2>1. dbFile'[Main] = MainFile /\ thread'[Main] # "none"
    BY <1>2, Numbers DEF Bindings
  <2>2. \A l \in Labels : thread'[serverDBMap'[l]] # "none"
    BY <1>1, <1>2 DEF Bindings
  <2>3. \A f \in Files : fileDBMap'[f] # NoDB => thread'[fileDBMap'[f]] # "none"
    BY <1>1, <1>2 DEF Bindings
  <2>4. \A c \in Callers : thread'[handle'[c]] # "none"
    <3>1. \A l \in Labels : thread'[serverDBMap[l]] # "none"
      BY <1>1, <1>2 DEF Bindings
    <3>2. \A c \in Callers : thread'[handle[c]] # "none"
      BY <1>1, <1>2 DEF Bindings
    <3>. QED  BY <1>2, <2>1, <3>1, <3>2
  <2>. QED  BY <2>1, <2>2, <2>3, <2>4 DEF Bindings, Born
<1>3. CASE UNCHANGED vars
  BY <1>2, <1>3 DEF vars, Born
<1>4. ASSUME NEW c \in Callers, (\E r \in Calls[c] : StartCall(c, r)) \/ Caller(c) PROVE Bindings'
  <2>1. UNCHANGED <<serverDBMap, fileDBMap, dbFile, thread>>
    BY <1>4 DEF StartCall, Caller, PutCall, GetCallResult, StopManager, JoinManager, Submit, GetResult
  <2>2. \A x \in Callers : handle'[x] = handle[x] \/ handle'[x] = Main
    BY <1>1, <1>4 DEF StartCall, Caller, PutCall, GetCallResult, StopManager, JoinManager, Submit, GetResult
  <2>. QED  BY <1>2, <2>1, <2>2 DEF Born
<1>5. ASSUME NEW d \in DBs, Worker(d) PROVE Bindings'
  <2>1. UNCHANGED <<serverDBMap, fileDBMap, dbFile, handle>>
    BY <1>5 DEF Worker, Open, TakeWork, RunQuery, RunCheckpoint, BatchBegin, BatchStatement, BatchCommit, BatchRollback
  <2>2. \A e \in DBs : Born(e) => thread'[e] # "none"
    BY <1>1, <1>5 DEF Worker, Open, TakeWork, RunQuery, RunCheckpoint, BatchBegin, BatchStatement, BatchCommit, BatchRollback,
       Respond, Born, ThreadType
  <2>. QED  BY <1>2, <2>1, <2>2
\* the rest of _addServer: the label's worker is one the file had, or a new one
<1>6. ASSUME NEW c \in Callers, NEW fm \in [Files -> DBs \cup {NoDB}], NEW sv, BindFile(c, fm, sv),
             \A f \in Files : fm[f] = fileDBMap[f] \/ fm[f] = NoDB, req[c].file # MainFile, UNCHANGED handle
      PROVE  Bindings'
  <2>1. PICK f \in Files, l \in Labels : f = req[c].file /\ l = req[c].label
    BY <1>6, ServedTyped DEF Typed, AllFiles
  <2>2. CASE /\ fm[f] # NoDB /\ serverDBMap' = [serverDBMap EXCEPT ![l] = fm[f]] /\ fileDBMap' = fm
             /\ UNCHANGED <<dbFile, thread>>
    <3>1. thread[fm[f]] # "none"
      BY <1>6, <2>2 DEF Bindings, Born
    <3>2. \A k \in Labels : serverDBMap'[k] = serverDBMap[k] \/ thread'[serverDBMap'[k]] # "none"
      BY <1>1, <2>2, <3>1
    <3>. QED  BY <1>2, <1>6, <2>2, <3>2 DEF Born
  <2>3. ASSUME NEW new \in Unborn, fileDBMap' = [fm EXCEPT ![f] = new],
               dbFile' = [dbFile EXCEPT ![new] = f], thread' = [thread EXCEPT ![new] = "starting"],
               serverDBMap' = [serverDBMap EXCEPT ![l] = new]
        PROVE  Bindings'
    <3>1. new \in DBs /\ thread[new] = "none" /\ thread'[new] = "starting"
      BY <1>1, <2>3 DEF Unborn, ThreadType
    <3>2. \A d \in DBs : Born(d) => thread'[d] # "none" /\ dbFile'[d] = dbFile[d]
      BY <1>1, <2>3, <3>1 DEF Born, ThreadType
    <3>3. \A k \in Labels : serverDBMap'[k] = serverDBMap[k] \/ thread'[serverDBMap'[k]] # "none"
      BY <1>1, <2>3, <3>1
    <3>4. \A g \in Files : fileDBMap'[g] = fileDBMap[g] \/ fileDBMap'[g] = NoDB \/ thread'[fileDBMap'[g]] # "none"
      BY <1>6, <2>3, <3>1
    <3>. QED  BY <1>2, <1>6, <3>2, <3>3, <3>4
  <2>4. CASE fileDBMap' = fm /\ UNCHANGED <<serverDBMap, dbFile, thread>>
    BY <1>2, <1>6, <2>4 DEF Born
  <2>. QED  BY <1>6, <2>1, <2>2, <2>3, <2>4 DEF BindFile
\* the manager's steps that create no worker
<1>7. ASSUME UNCHANGED <<dbFile, thread, handle>>,
             \A l \in Labels : serverDBMap'[l] = serverDBMap[l] \/ serverDBMap'[l] = Main,
             \A f \in Files : fileDBMap'[f] = fileDBMap[f] \/ fileDBMap'[f] = NoDB
      PROVE  Bindings'
  BY <1>2, <1>7 DEF Bindings, Born
<1>8. ASSUME ManagerStep PROVE Bindings'
  <2>1. ASSUME NEW c \in Callers, MgrGetDB(c) PROVE Bindings'
    <3>1. PICK l \in Labels : l = req[c].label
      BY ServedTyped DEF Typed
    <3>2. handle' = [handle EXCEPT ![c] = serverDBMap[l]] /\ UNCHANGED <<serverDBMap, fileDBMap, dbFile, thread>>
      BY <2>1, <3>1 DEF MgrGetDB
    <3>3. \A x \in Callers : handle'[x] = handle[x] \/ handle'[x] = serverDBMap[l]
      BY <1>1, <3>2
    <3>. QED  BY <1>2, <3>2, <3>3 DEF Born
  <2>2. ASSUME NEW c \in Callers, MgrDelServer(c) PROVE Bindings'
    <3>1. UNCHANGED <<fileDBMap, dbFile, thread, handle>> /\ serverDBMap' = [serverDBMap EXCEPT ![req[c].label] = Main]
      BY <2>2 DEF MgrDelServer, Drop, ReleaseLast
    <3>. QED  BY <1>1, <1>7, <3>1
  <2>3. ASSUME NEW c \in Callers, MgrAddServer(c) PROVE Bindings'
    <3>1. CASE \E sv : BindFile(c, fileDBMap, sv)
      BY <1>1, <1>6, <2>3, <3>1 DEF MgrAddServer
    <3>2. CASE UNCHANGED mapVars /\ UNCHANGED thread
      BY <1>7, <2>3, <3>2 DEF MgrAddServer
    <3>3. CASE ReleaseLast(c, serverDBMap[req[c].label]) /\ UNCHANGED serverDBMap
      BY <1>7, <2>3, <3>3 DEF MgrAddServer, ReleaseLast
    <3>. QED  BY <2>3, <3>1, <3>2, <3>3 DEF MgrAddServer
  <2>4. ASSUME MgrJoined PROVE Bindings'
    <3>. DEFINE fm == [fileDBMap EXCEPT ![dbFile[mgr.db]] = NoDB]
    <3>1. /\ fm \in [Files -> DBs \cup {NoDB}] /\ \A f \in Files : fm[f] = fileDBMap[f] \/ fm[f] = NoDB
      BY <1>1
    <3>2. PICK c \in Callers : c = mgr.who
      BY <2>4 DEF MgrJoined, Typed, Served
    <3>3. UNCHANGED handle /\ \/ req[c].file # MainFile /\ BindFile(c, fm, servers)
                              \/ Drop(c, fm, servers) /\ UNCHANGED serverDBMap
      BY <2>4, <3>2 DEF MgrJoined
    <3>. HIDE DEF fm
    <3>. QED  BY <1>6, <1>7, <3>1, <3>3 DEF Drop
  <2>5. ASSUME NEW d \in DBs, MgrShutdownStop(d) PROVE Bindings'
    BY <1>1, <1>7, <2>5 DEF MgrShutdownStop
  <2>6. CASE \/ MgrShutdownJoined \/ MgrCommitted \/ MgrEnd
             \/ (\E c \in Callers : MgrVisit(c)) \/ \E d \in DBs : MgrCommitVisit(d)
    BY <1>7, <2>6 DEF MgrShutdownJoined, MgrCommitted, MgrEnd, MgrVisit, MgrCommitVisit
  <2>. QED  BY <1>8, <2>1, <2>2, <2>3, <2>4, <2>5, <2>6 DEF ManagerStep
<1>. QED  BY <1>3, <1>4, <1>5, <1>8 DEF Next

LEMMA BusyWaits ==
  ASSUME Queues, NEW d \in DBs, NEW c \in Callers, Busy(d, c)
  PROVE  pc[c] = "dwait" /\ reply[c] = "none" /\ handle[c] = d /\ req[c].op \in {"query", "batch"}
BY DEF Queues, AtWorkers, Asking

\* A worker whose step is not its own is where it was.
LEMMA TransactionStays ==
  ASSUME Typed, Queues, Transactions, NEW d \in DBs, UNCHANGED <<job[d], txn[d]>>,
         thread'[d] # thread[d] => thread[d] # "busy" /\ thread'[d] # "busy",
         \A c \in Callers : pc[c] = "dwait" /\ reply[c] = "none" => UNCHANGED <<req[c], count[c]>>
  PROVE  /\ thread'[d] # "busy" => job'[d] = NoJob
         /\ InBatch(d)' => /\ job'[d].who \in Callers /\ req'[job'[d].who].op = "batch"
                           /\ txn'[d].open /\ txn'[d].writes = Written(d, job[d].step)'
         /\ ~InBatch(d)' => txn'[d] = NoTxn /\ job'[d].step = 0
<1>1. InBatch(d)' <=> InBatch(d)
  BY DEF InBatch
<1>2. ASSUME InBatch(d)
      PROVE  /\ job'[d].who \in Callers /\ req'[job'[d].who].op = "batch"
             /\ txn'[d].open /\ txn'[d].writes = Written(d, job[d].step)'
  <2>1. PICK c \in Callers : c = job[d].who
    BY <1>2 DEF Transactions
  <2>2. pc[c] = "dwait" /\ reply[c] = "none"
    BY <1>2, <2>1, BusyWaits DEF InBatch, Busy
  <2>3. UNCHANGED <<req[c], count[c]>>
    BY <2>2
  <2>. QED  BY <1>2, <2>1, <2>3 DEF Transactions, Written
<1>. QED  BY <1>1, <1>2 DEF Transactions

\* What a worker's step is to its callers: nothing, an answer without a write,
\* or an answer with all the writes of the request.
AnswersNoWrite(d) ==
  \E r \in {"ok", "error"} : Respond(d, r) /\ (job[d].who \in Callers => r = "error") /\ UNCHANGED stored
AnswersWritten(d) ==
  \E r \in {"ok", "error"} :
    /\ job[d].who \in Callers /\ Respond(d, r) /\ (r = "error" => req[job[d].who].op = "query")
    /\ stored' = [stored EXCEPT ![dbFile[d]] = @ \cup Writes(job[d].who)]

LEMMA BusyWith == ASSUME Typed, NEW d \in DBs, NEW at, NEW op, Working(d, at, op), op # "checkpoint"
                  PROVE  job[d].who \in Callers /\ req[job[d].who].op = op
BY BeforeWork, Names DEF Working

LEMMA WorkerStores ==
  ASSUME Typed, Queues, Transactions, NEW d \in DBs, Worker(d)
  PROVE  \/ UNCHANGED <<stored, reply>>
         \/ thread[d] = "busy" /\ (AnswersNoWrite(d) \/ AnswersWritten(d))
<1>1. CASE Open(d) \/ TakeWork(d)
  BY <1>1 DEF Open, TakeWork, workVars
<1>2. CASE RunQuery(d)
  <2>1. thread[d] = "busy" /\ job[d].who \in Callers /\ req[job[d].who].op = "query" /\ txn[d] = NoTxn
    BY <1>2, BusyWith DEF RunQuery, Working, Transactions, InBatch
  <2>2. Writes(job[d].who) = {Write(d, 1)}
    BY <2>1 DEF Writes, Write
  <2>3. CASE Respond(d, "error") /\ UNCHANGED stored
    BY <2>1, <2>3 DEF AnswersNoWrite
  <2>4. ASSUME Execute(d, Write(d, 1)), NEW r \in {"ok", "error"}, Respond(d, r)
        PROVE  AnswersWritten(d)
    BY <2>1, <2>2, <2>4 DEF AnswersWritten, Execute, NoTxn
  <2>. QED  BY <1>2, <2>1, <2>3, <2>4 DEF RunQuery
<1>3. CASE RunCheckpoint(d)
  <2>1. job[d].who \notin Callers
    BY <1>3, RequestTyped, Names DEF RunCheckpoint, Working, Typed, TypeOK, TypeCallers, Operations, ClientOps
  <2>. QED  BY <1>3, <2>1 DEF RunCheckpoint, Working, AnswersNoWrite
<1>4. CASE BatchBegin(d)
  BY <1>4 DEF BatchBegin, Working, AnswersNoWrite
<1>5. CASE BatchStatement(d)
  <2>1. txn[d].open
    BY <1>5 DEF BatchStatement, Working, Transactions, InBatch
  <2>. QED  BY <1>5, <2>1 DEF BatchStatement, Execute
<1>6. CASE BatchCommit(d)
  <2>1. /\ thread[d] = "busy" /\ job[d].who \in Callers /\ req[job[d].who].op = "batch"
        /\ txn[d].writes = Written(d, BatchLen)
    BY <1>6, BusyWith DEF BatchCommit, Working, Transactions, InBatch
  <2>2. Writes(job[d].who) = txn[d].writes
    BY <2>1 DEF Writes, Written, Stmts
  <2>. QED  BY <1>6, <2>1, <2>2 DEF BatchCommit, AnswersWritten
<1>7. CASE BatchRollback(d)
  BY <1>7 DEF BatchRollback, Working, AnswersNoWrite
<1>. QED  BY <1>1, <1>2, <1>3, <1>4, <1>5, <1>6, <1>7 DEF Worker

LEMMA TransactionsWorker ==
  ASSUME Typed, Queues, Transactions, NEW d \in DBs, Worker(d)
  PROVE  Transactions'
<1>. DEFINE T(e) ==
      /\ thread[e] # "busy" => job[e] = NoJob
      /\ InBatch(e) => /\ job[e].who \in Callers /\ req[job[e].who].op = "batch"
                       /\ txn[e].open /\ txn[e].writes = Written(e, job[e].step)
      /\ ~InBatch(e) => txn[e] = NoTxn /\ job[e].step = 0
<1>1. /\ thread \in ThreadType /\ job \in [DBs -> JobType] /\ txn \in [DBs -> TxnType]
  BY BeforeWork
<1>2. UNCHANGED <<req, count, pc>> /\ T(d)
  BY DEF Transactions, Worker, Open, TakeWork, RunQuery, RunCheckpoint, BatchBegin, BatchStatement, BatchCommit,
         BatchRollback, otherVars, callerVars
<1>3. ASSUME NEW e \in DBs, e # d PROVE T(e)'
  <2>1. UNCHANGED <<thread[e], job[e], txn[e]>>
    BY <1>1, <1>3 DEF Worker, Open, TakeWork, RunQuery, RunCheckpoint, BatchBegin, BatchStatement, BatchCommit,
       BatchRollback, Respond, Execute, workVars, ThreadType
  <2>. QED  BY <1>2, <2>1, TransactionStays
<1>4. ASSUME NEW r, Respond(d, r), txn'[d] = NoTxn PROVE T(d)'
  <2>1. thread'[d] = "idle" /\ job'[d] = NoJob
    BY <1>1, <1>4 DEF Respond, ThreadType
  <2>. QED  BY <1>4, <2>1 DEF InBatch, NoJob
<1>5. T(d)'
  <2>1. CASE Open(d)
    <3>1. thread[d] = "starting" /\ thread'[d] # "busy" /\ UNCHANGED <<job, txn>>
      BY <1>1, <2>1 DEF Open, ThreadType, workVars
    <3>. QED  BY <1>2, <3>1 DEF InBatch
  <2>2. CASE TakeWork(d)
    <3>1. /\ thread[d] = "idle" /\ thread'[d] \in {"ended", "busy"} /\ UNCHANGED txn
          /\ job'[d].at = job[d].at /\ job'[d].step = job[d].step
          /\ thread'[d] = "ended" => job'[d] = job[d]
      BY <1>1, <2>2 DEF TakeWork, ThreadType, JobType
    <3>. QED  BY <1>2, <3>1 DEF InBatch, NoJob
  <2>3. CASE RunQuery(d) \/ RunCheckpoint(d)
    <3>1. txn[d] = NoTxn
      BY <1>2, <2>3 DEF RunQuery, RunCheckpoint, Working, InBatch
    <3>2. txn'[d] = NoTxn
      BY <2>3, <3>1 DEF RunQuery, RunCheckpoint, Execute, NoTxn
    <3>. QED  BY <1>4, <2>3, <3>2 DEF RunQuery, RunCheckpoint
  <2>4. CASE BatchBegin(d)
    <3>1. /\ thread[d] = "busy" /\ txn[d] = NoTxn /\ job[d].step = 0
          /\ job[d].who \in Callers /\ req[job[d].who].op = "batch"
      BY <1>2, <2>4, BusyWith DEF BatchBegin, Working, InBatch
    <3>2. CASE UNCHANGED txn /\ Respond(d, "error")
      BY <1>4, <3>1, <3>2
    <3>3. CASE /\ txn' = [txn EXCEPT ![d].open = TRUE] /\ job' = [job EXCEPT ![d].at = "txn"]
               /\ UNCHANGED thread
      <4>1. /\ txn'[d].open /\ txn'[d].writes = {}
            /\ job'[d].at = "txn" /\ job'[d].step = 0 /\ job'[d].who = job[d].who
        BY <1>1, <3>1, <3>3 DEF NoTxn, TxnType, JobType
      <4>2. Written(d, job[d].step)' = {}
        BY <4>1 DEF Written
      <4>. QED  BY <1>2, <3>1, <3>3, <4>1, <4>2 DEF InBatch
    <3>. QED  BY <2>4, <3>2, <3>3 DEF BatchBegin
  <2>5. CASE BatchStatement(d)
    <3>1. /\ InBatch(d) /\ job[d].step \in Nat /\ thread[d] = "busy" /\ UNCHANGED thread
      BY <1>1, <2>5, Numbers DEF BatchStatement, Working, InBatch, JobType
    <3>2. CASE Execute(d, Write(d, job[d].step + 1)) /\ job' = [job EXCEPT ![d].step = @ + 1]
      <4>1. /\ txn' = [txn EXCEPT ![d].writes = @ \cup {Write(d, job[d].step + 1)}]
        BY <1>2, <3>1, <3>2 DEF Execute
      <4>2. /\ txn'[d].open /\ txn'[d].writes = txn[d].writes \cup {Write(d, job[d].step + 1)}
            /\ job'[d].at = job[d].at /\ job'[d].step = job[d].step + 1 /\ job'[d].who = job[d].who
        BY <1>1, <1>2, <3>1, <3>2, <4>1 DEF TxnType, JobType
      <4>3. \A n \in Nat : 1..(n + 1) = 1..n \cup {n + 1}
        OBVIOUS
      <4>4. Written(d, job[d].step + 1) = Written(d, job[d].step) \cup {Write(d, job[d].step + 1)}
        BY <3>1, <4>3 DEF Written, Write
      <4>5. Written(d, job[d].step)' = Written(d, job[d].step + 1)
        BY <1>2, <4>2 DEF Written
      <4>. QED  BY <1>2, <3>1, <4>2, <4>4, <4>5 DEF InBatch
    <3>3. CASE job' = [job EXCEPT ![d].at = "rollback"] /\ UNCHANGED txn
      <4>1. job'[d].at = "rollback" /\ job'[d].step = job[d].step /\ job'[d].who = job[d].who
        BY <1>1, <3>3 DEF JobType
      <4>2. Written(d, job[d].step)' = Written(d, job[d].step)
        BY <1>2, <4>1 DEF Written
      <4>. QED  BY <1>2, <3>1, <3>3, <4>1, <4>2 DEF InBatch
    <3>. QED  BY <2>5, <3>2, <3>3 DEF BatchStatement
  <2>6. CASE BatchCommit(d)
    <3>1. InBatch(d)
      BY <2>6 DEF BatchCommit, Working, InBatch
    <3>2. CASE txn' = [txn EXCEPT ![d] = NoTxn] /\ Respond(d, "ok")
      BY <1>1, <1>4, <3>2
    <3>3. CASE job' = [job EXCEPT ![d].at = "rollback"] /\ UNCHANGED <<txn, thread>>
      <4>1. job'[d].at = "rollback" /\ job'[d].step = job[d].step /\ job'[d].who = job[d].who
        BY <1>1, <3>3 DEF JobType
      <4>2. Written(d, job[d].step)' = Written(d, job[d].step)
        BY <1>2, <4>1 DEF Written
      <4>. QED  BY <1>2, <3>1, <3>3, <4>1, <4>2 DEF InBatch
    <3>. QED  BY <2>6, <3>2, <3>3 DEF BatchCommit
  <2>7. CASE BatchRollback(d)
    BY <1>1, <1>4, <2>7 DEF BatchRollback
  <2>. QED  BY <2>1, <2>2, <2>3, <2>4, <2>5, <2>6, <2>7 DEF Worker
<1>. QED  BY <1>3, <1>5 DEF Transactions

\* A caller's step, and the manager's, is nothing to a worker's transaction.
LEMMA TransactionsRest ==
  ASSUME Typed, Queues, Transactions, UNCHANGED <<job, txn>>,
         \A d \in DBs : thread'[d] # thread[d] => thread[d] = "none" /\ thread'[d] = "starting",
         \A c \in Callers : pc[c] = "dwait" /\ reply[c] = "none" => UNCHANGED <<req[c], count[c]>>
  PROVE  Transactions'
<1>1. ASSUME NEW d \in DBs
      PROVE  /\ thread'[d] # "busy" => job'[d] = NoJob
             /\ InBatch(d)' => /\ job'[d].who \in Callers /\ req'[job'[d].who].op = "batch"
                               /\ txn'[d].open /\ txn'[d].writes = Written(d, job[d].step)'
             /\ ~InBatch(d)' => txn'[d] = NoTxn /\ job'[d].step = 0
  <2>1. UNCHANGED <<job[d], txn[d]>> /\ (thread'[d] # thread[d] => thread[d] # "busy" /\ thread'[d] # "busy")
    OBVIOUS
  <2>. QED  BY <2>1, TransactionStays
<1>. QED  BY <1>1 DEF Transactions

LEMMA CallerRequests ==
  ASSUME Typed, NEW c \in Callers, (\E r \in Calls[c] : StartCall(c, r)) \/ Caller(c)
  PROVE  /\ UNCHANGED <<job, txn, stored, thread, dbFile, mgr>>
         /\ \A x \in Callers : x # c => UNCHANGED <<pc[x], req[x], count[x], reply[x], handle[x]>>
         /\ \/ pc[c] = "idle" /\ pc'[c] = "put" /\ count'[c] = count[c] + 1
            \/ /\ UNCHANGED <<req[c], count[c]>> /\ pc[c] # "idle"
               /\ pc[c] = "dwait" => reply[c] # "none" /\ pc'[c] = "idle"
               /\ reply'[c] # "none" => reply'[c] = reply[c]
               /\ pc'[c] = "dwait" => reply'[c] = reply[c] /\ pc[c] = "submit"
<1>1. /\ pc \in [Callers -> {"idle", "put", "mwait", "submit", "dwait", "stop", "join"}]
      /\ req \in [Callers -> Requests] /\ count \in [Callers -> Nat] /\ handle \in [Callers -> DBs]
      /\ reply \in [Callers \cup {Manager} -> {"none", "ok", "error"}]
  BY DEF Typed, TypeOK, TypeCallers
<1>2. UNCHANGED <<job, txn, stored, thread, dbFile, mgr>>
  BY DEF StartCall, Caller, PutCall, GetCallResult, StopManager, JoinManager, Submit, GetResult, mapVars, workVars
<1>3. ASSUME NEW x \in Callers, x # c PROVE UNCHANGED <<pc[x], req[x], count[x], reply[x], handle[x]>>
  BY <1>1, <1>3 DEF StartCall, Caller, PutCall, GetCallResult, StopManager, JoinManager, Submit, GetResult
<1>4. CASE \E r \in Calls[c] : StartCall(c, r)
  BY <1>1, <1>2, <1>3, <1>4 DEF StartCall
<1>5. CASE Caller(c)
  BY <1>1, <1>2, <1>3, <1>5 DEF Caller, PutCall, GetCallResult, StopManager, JoinManager, Submit, GetResult
<1>. QED  BY <1>4, <1>5

LEMMA TransactionsStep == Typed /\ Queues /\ Transactions /\ [Next]_vars => Transactions'
<1>. SUFFICES ASSUME Typed, Queues, Transactions, [Next]_vars PROVE Transactions'
  OBVIOUS
<1>1. ASSUME NEW c \in Callers, (\E r \in Calls[c] : StartCall(c, r)) \/ Caller(c) PROVE Transactions'
  <2>1. UNCHANGED <<job, txn, thread>>
        /\ \A x \in Callers : pc[x] = "dwait" /\ reply[x] = "none" => UNCHANGED <<req[x], count[x]>>
    BY <1>1, CallerRequests
  <2>. QED  BY <2>1, TransactionsRest
<1>2. CASE ManagerStep
  <2>1. ManagerLeaves
    BY <1>2, ManagerLeavesThem
  <2>2. UNCHANGED txn
    BY <1>2 DEF ManagerStep, MgrGetDB, MgrDelServer, MgrAddServer, MgrVisit, MgrJoined, MgrShutdownJoined, MgrCommitted,
       MgrEnd, MgrShutdownStop, MgrCommitVisit, workVars
  <2>. QED  BY <2>1, <2>2, TransactionsRest DEF ManagerLeaves
<1>3. CASE UNCHANGED vars
  BY <1>3, TransactionsRest DEF vars
<1>. QED  BY <1>1, <1>2, <1>3, TransactionsWorker DEF Next

----------------------------------------------------------------------------
(* Results.                                                                *)

LEMMA ManagerStores == ASSUME ManagerStep PROVE UNCHANGED stored
BY DEF ManagerStep, MgrGetDB, MgrDelServer, MgrAddServer, MgrVisit, MgrJoined, MgrShutdownJoined, MgrCommitted,
       MgrEnd, MgrShutdownStop, MgrCommitVisit, workVars

\* The manager answers nobody who waits for a worker, and moves nobody's worker.
LEMMA ManagerPasses ==
  ASSUME Typed, Queues, ManagerStep
  PROVE  /\ UNCHANGED <<pc, req, count, stored>>
         /\ \A c \in Callers : pc[c] = "dwait" => UNCHANGED <<reply[c], handle[c]>>
BY StepIsManagers, ManagerLeavesThem, ManagerStores DEF ManagerLeaves

LEMMA RespondTo ==
  ASSUME Typed, Queues, NEW d \in DBs, thread[d] = "busy", NEW r \in {"ok", "error"}, Respond(d, r),
         NEW c \in Callers, job[d].who = c
  PROVE  /\ reply'[c] = r /\ \A x \in Callers : x # c => reply'[x] = reply[x]
         /\ pc[c] = "dwait" /\ reply[c] = "none" /\ handle[c] = d /\ req[c].op \in {"query", "batch"}
<1>1. reply \in ReplyType /\ reply' = [reply EXCEPT ![c] = r]
  BY BeforeWork DEF Respond
<1>2. reply'[c] = r /\ \A x \in Callers : x # c => reply'[x] = reply[x]
  BY <1>1 DEF ReplyType
<1>. QED  BY <1>2, BusyWaits DEF Busy

LEMMA RespondToManager ==
  ASSUME Typed, NEW d \in DBs, NEW r, Respond(d, r), job[d].who \notin Callers
  PROVE  \A x \in Callers : reply'[x] = reply[x]
BY BeforeWork DEF Respond, ReplyType

LEMMA WorkerLeaves == ASSUME NEW d \in DBs, Worker(d) PROVE UNCHANGED <<pc, req, count, handle, dbFile, serverDBMap, callQueue, mgr>>
BY DEF Worker, Open, TakeWork, RunQuery, RunCheckpoint, BatchBegin, BatchStatement, BatchCommit, BatchRollback,
       otherVars, callerVars, mapVars

LEMMA AppliedStep == Typed /\ Queues /\ Transactions /\ Applied /\ [Next]_vars => Applied'
<1>. SUFFICES ASSUME Typed, Queues, Transactions, Applied, [Next]_vars PROVE Applied'
  OBVIOUS
<1>1. stored \in [AllFiles -> SUBSET WriteType] /\ count \in [Callers -> Nat] /\ dbFile \in [DBs -> AllFiles]
  BY BeforeWork DEF Typed, TypeOK, TypeCallers, TypeMaps
<1>2. \A f \in AllFiles : \A w \in stored[f] : w[1] \in Callers /\ w[2] \in Nat
  BY <1>1 DEF WriteType
<1>3. \A m, n \in Nat : m < n \/ m = n => m < n + 1
  OBVIOUS
<1>4. ASSUME NEW c \in Callers, (\E r \in Calls[c] : StartCall(c, r)) \/ Caller(c) PROVE Applied'
  <2>1. /\ UNCHANGED stored
        /\ \A x \in Callers : x # c => UNCHANGED <<pc[x], count[x], reply[x]>>
        /\ \/ pc[c] = "idle" /\ pc'[c] = "put" /\ count'[c] = count[c] + 1
           \/ UNCHANGED count[c] /\ pc[c] # "idle" /\ (pc[c] = "dwait" => pc'[c] = "idle")
    BY <1>4, CallerRequests
  <2>2. ASSUME NEW f \in AllFiles, NEW w \in stored[f]
        PROVE  w[2] < count'[w[1]] \/ (w[2] = count'[w[1]] /\ Answered(w[1])')
    <3>1. PICK x \in Callers, n \in Nat : x = w[1] /\ n = w[2]
      BY <1>2
    <3>2. n < count[x] \/ (n = count[x] /\ Answered(x))
      BY <3>1 DEF Applied
    <3>3. n < count'[x] \/ (n = count'[x] /\ Answered(x)')
      BY <1>1, <1>3, <2>1, <3>2 DEF Answered
    <3>. QED  BY <3>1, <3>3
  <2>. QED  BY <2>1, <2>2 DEF Applied
<1>5. CASE ManagerStep
  <2>1. UNCHANGED <<pc, count, stored>> /\ \A c \in Callers : pc[c] = "dwait" => UNCHANGED reply[c]
    BY <1>5, ManagerPasses
  <2>2. \A x \in Callers : Answered(x) => Answered(x)'
    BY <2>1 DEF Answered
  <2>. QED  BY <1>2, <2>1, <2>2 DEF Applied
<1>6. ASSUME NEW d \in DBs, Worker(d) PROVE Applied'
  <2>1. UNCHANGED <<pc, count>>
    BY <1>6, WorkerLeaves
  <2>2. CASE UNCHANGED <<stored, reply>>
    BY <2>1, <2>2 DEF Applied, Answered
  <2>3. ASSUME thread[d] = "busy", NEW r \in {"ok", "error"}, Respond(d, r) PROVE \A x \in Callers : Answered(x) => Answered(x)'
    <3>1. CASE job[d].who \in Callers
      BY <2>1, <2>3, <3>1, RespondTo DEF Answered
    <3>2. CASE job[d].who \notin Callers
      BY <2>1, <2>3, <3>2, RespondToManager DEF Answered
    <3>. QED  BY <3>1, <3>2
  <2>4. CASE thread[d] = "busy" /\ AnswersNoWrite(d)
    BY <1>2, <2>1, <2>3, <2>4 DEF AnswersNoWrite, Applied
  <2>5. CASE thread[d] = "busy" /\ AnswersWritten(d)
    <3>1. PICK c \in Callers, r \in {"ok", "error"} :
             c = job[d].who /\ Respond(d, r) /\ stored' = [stored EXCEPT ![dbFile[d]] = @ \cup Writes(c)]
      BY <2>5 DEF AnswersWritten
    <3>2. Answered(c)'
      BY <2>1, <2>5, <3>1, RespondTo DEF Answered
    <3>3. \A x \in Callers : Answered(x) => Answered(x)'
      BY <2>3, <2>5, <3>1
    <3>4. \A w \in Writes(c) : w[1] = c /\ w[2] = count[c]
      BY DEF Writes
    <3>5. \A f \in AllFiles : \A w \in stored'[f] : w \in stored[f] \/ w \in Writes(c)
      BY <1>1, <3>1
    <3>. QED  BY <1>2, <2>1, <3>2, <3>3, <3>4, <3>5 DEF Applied
  <2>. QED  BY <1>6, <2>2, <2>4, <2>5, WorkerStores
<1>7. CASE UNCHANGED vars
  BY <1>7 DEF vars, Applied, Answered
<1>. QED  BY <1>4, <1>5, <1>6, <1>7 DEF Next

\* What a result says of the file.
Truthful(c) ==
  pc[c] = "dwait" /\ reply[c] # "none" =>
    /\ reply[c] = "ok" => Writes(c) \subseteq stored[dbFile[handle[c]]]
    /\ reply[c] = "error" /\ req[c].op = "batch" => Writes(c) \cap stored[dbFile[handle[c]]] = {}

LEMMA TruthfulIs == ResultIsTruthful <=> \A c \in Clients : Truthful(c)
BY DEF ResultIsTruthful, Truthful

\* A caller whose request, worker and result stay keeps a truthful result, if
\* its file gains no write of its own.
LEMMA TruthfulStays ==
  ASSUME Typed, NEW c \in Callers, Truthful(c), UNCHANGED <<pc[c], req[c], count[c], handle[c], reply[c]>>,
         dbFile'[handle[c]] = dbFile[handle[c]],
         stored[dbFile[handle[c]]] \subseteq stored'[dbFile[handle[c]]],
         Writes(c) \cap stored'[dbFile[handle[c]]] \subseteq stored[dbFile[handle[c]]]
  PROVE  Truthful(c)'
<1>1. PICK d, f : d = handle[c] /\ f = dbFile[d]
  OBVIOUS
<1>2. dbFile'[handle'[c]] = f
  BY <1>1
<1>3. Writes(c)' = Writes(c)
  BY DEF Writes
<1>. QED  BY <1>1, <1>2, <1>3 DEF Truthful

\* A worker that has been started keeps its file.
LEMMA FilesStay ==
  ASSUME Typed, ManagerStep, NEW d \in DBs, Born(d)
  PROVE  dbFile'[d] = dbFile[d]
<1>1. dbFile \in [DBs -> AllFiles]
  BY DEF Typed, TypeOK, TypeMaps
<1>2. ASSUME NEW c, NEW fm, NEW sv, BindFile(c, fm, sv) PROVE dbFile'[d] = dbFile[d]
  BY <1>1, <1>2 DEF BindFile, Unborn, Born
<1>3. UNCHANGED dbFile \/ \E c, fm, sv : BindFile(c, fm, sv)
  BY DEF ManagerStep, MgrGetDB, MgrDelServer, MgrAddServer, MgrVisit, MgrJoined, MgrShutdownJoined, MgrCommitted,
         MgrEnd, MgrShutdownStop, MgrCommitVisit, Drop, ReleaseLast, mapVars
<1>. QED  BY <1>2, <1>3

LEMMA TruthfulWorker ==
  ASSUME ServiceInv, NEW d \in DBs, Worker(d), NEW c \in Clients
  PROVE  Truthful(c)'
<1>. USE DEF ServiceInv
<1>1. /\ stored \in [AllFiles -> SUBSET WriteType] /\ dbFile \in [DBs -> AllFiles] /\ handle \in [Callers -> DBs]
      /\ c \in Callers /\ count[c] \in Nat
  BY BeforeWork DEF Typed, TypeOK, TypeCallers, TypeMaps, Callers
<1>2. UNCHANGED <<pc, req, count, handle, dbFile>>
  BY WorkerLeaves
<1>3. Truthful(c)
  BY TruthfulIs
<1>4. ASSUME UNCHANGED reply[c], \A f \in AllFiles : stored[f] \subseteq stored'[f] /\ Writes(c) \cap stored'[f] \subseteq stored[f]
      PROVE  Truthful(c)'
  <2>1. PICK b \in DBs, f \in AllFiles : b = handle[c] /\ f = dbFile[b]
    BY <1>1
  <2>. QED  BY <1>1, <1>2, <1>3, <1>4, <2>1, TruthfulStays
<1>5. CASE UNCHANGED <<stored, reply>>
  BY <1>4, <1>5
<1>6. CASE thread[d] = "busy" /\ AnswersNoWrite(d)
  <2>1. PICK r \in {"ok", "error"} : Respond(d, r) /\ (job[d].who \in Callers => r = "error") /\ UNCHANGED stored
    BY <1>6 DEF AnswersNoWrite
  <2>2. CASE job[d].who = c
    <3>1. reply'[c] = "error" /\ pc[c] = "dwait" /\ reply[c] = "none"
      BY <1>1, <1>6, <2>1, <2>2, RespondTo
    <3>2. ~Answered(c)
      BY <3>1 DEF Answered
    <3>3. \A w \in Writes(c) : w[1] = c /\ w[2] = count[c] /\ ~(w[2] < count[c])
      BY <1>1 DEF Writes
    <3>4. \A f \in AllFiles : Writes(c) \cap stored[f] = {}
      BY <3>2, <3>3 DEF Applied
    <3>5. Writes(c)' = Writes(c)
      BY <1>2 DEF Writes
    <3>6. PICK b \in DBs, f \in AllFiles : b = handle[c] /\ f = dbFile[b]
      BY <1>1
    <3>. QED  BY <1>2, <2>1, <3>1, <3>4, <3>5, <3>6 DEF Truthful
  <2>3. CASE job[d].who # c
    <3>1. UNCHANGED reply[c]
      BY <1>1, <1>6, <2>1, <2>3, RespondTo, RespondToManager
    <3>. QED  BY <1>4, <2>1, <3>1
  <2>. QED  BY <2>2, <2>3
<1>7. CASE thread[d] = "busy" /\ AnswersWritten(d)
  <2>1. PICK x \in Callers, r \in {"ok", "error"} :
           /\ x = job[d].who /\ Respond(d, r) /\ (r = "error" => req[x].op = "query")
           /\ stored' = [stored EXCEPT ![dbFile[d]] = @ \cup Writes(x)]
    BY <1>7 DEF AnswersWritten
  <2>2. CASE x = c
    <3>0. job[d].who = c /\ thread[d] = "busy" /\ Respond(d, r)
      BY <1>7, <2>1, <2>2
    <3>1. reply'[c] = r /\ handle[c] = d
      BY <1>1, <3>0, RespondTo
    <3>2. Writes(c)' = Writes(c)
      BY <1>2 DEF Writes
    <3>3. PICK f \in AllFiles : f = dbFile[d]
      BY <1>1
    <3>4. Writes(c) \subseteq stored'[f]
      BY <1>1, <2>1, <2>2, <3>3
    <3>. QED  BY <1>2, <2>1, <2>2, <3>1, <3>2, <3>3, <3>4 DEF Truthful
  <2>3. CASE x # c
    <3>1. UNCHANGED reply[c]
      BY <1>1, <1>7, <2>1, <2>3, RespondTo
    <3>2. Writes(c) \cap Writes(x) = {}
      BY <2>3 DEF Writes
    <3>3. \A f \in AllFiles : stored[f] \subseteq stored'[f] /\ stored'[f] \subseteq stored[f] \cup Writes(x)
      BY <1>1, <2>1
    <3>. QED  BY <1>4, <3>1, <3>2, <3>3
  <2>. QED  BY <2>2, <2>3
<1>. QED  BY <1>5, <1>6, <1>7, WorkerStores

LEMMA TruthfulStep == ServiceInv /\ [Next]_vars => ResultIsTruthful'
<1>. SUFFICES ASSUME ServiceInv, [Next]_vars, NEW c \in Clients PROVE Truthful(c)'
  BY TruthfulIs DEF ResultIsTruthful, Truthful
<1>. USE DEF ServiceInv
<1>1. c \in Callers /\ handle[c] \in DBs /\ Truthful(c) /\ Born(handle[c])
  BY TruthfulIs DEF Callers, Typed, TypeOK, TypeCallers, Bindings
<1>2. ASSUME NEW x \in Callers, (\E r \in Calls[x] : StartCall(x, r)) \/ Caller(x) PROVE Truthful(c)'
  <2>1. CASE x = c
    <3>1. ~(pc'[c] = "dwait" /\ reply'[c] # "none")
      BY <1>2, <2>1, CallerRequests DEF Queues, Asking
    <3>. QED  BY <3>1 DEF Truthful
  <2>2. CASE x # c
    <3>1. UNCHANGED <<pc[c], req[c], count[c], reply[c], handle[c], stored, dbFile>>
      BY <1>1, <1>2, <2>2, CallerRequests
    <3>. QED  BY <1>1, <3>1, TruthfulStays
  <2>. QED  BY <2>1, <2>2
<1>3. CASE ManagerStep
  <2>1. UNCHANGED <<pc, req, count, stored>> /\ (pc[c] = "dwait" => UNCHANGED <<reply[c], handle[c]>>)
    BY <1>1, <1>3, ManagerPasses
  <2>2. CASE pc[c] = "dwait"
    <3>1. PICK d \in DBs : d = handle[c]
      BY <1>1
    <3>2. dbFile'[d] = dbFile[d]
      BY <1>1, <1>3, <3>1, FilesStay
    <3>3. dbFile'[handle[c]] = dbFile[handle[c]]
      BY <3>1, <3>2
    <3>. QED  BY <1>1, <2>1, <2>2, <3>3, TruthfulStays
  <2>3. CASE pc[c] # "dwait"
    BY <2>1, <2>3 DEF Truthful
  <2>. QED  BY <2>2, <2>3
<1>4. CASE UNCHANGED vars
  BY <1>4, <1>1, TruthfulStays DEF vars
<1>. QED  BY <1>2, <1>3, <1>4, TruthfulWorker DEF Next

LEMMA ServiceInit == Init => ServiceInv
<1>. SUFFICES ASSUME Init PROVE ServiceInv
  OBVIOUS
<1>1. Bindings
  BY Numbers DEF Init, Bindings, Born
<1>2. Transactions
  BY DEF Init, Transactions, InBatch, NoJob
<1>3. Applied
  BY DEF Init, Applied
<1>4. ResultIsTruthful
  BY DEF Init, ResultIsTruthful, Callers
<1>. QED  BY <1>1, <1>2, <1>3, <1>4, TypedInit, QueuesInit DEF ServiceInv

LEMMA ServiceStep == ServiceInv /\ [Next]_vars => ServiceInv'
BY TypedStep, QueuesStep, BindingsStep, TransactionsStep, AppliedStep, TruthfulStep DEF ServiceInv

\* What DBaccess.query and batch return is true of the file: "ok" only once all
\* the statements are committed, and an error of a batch only if none of them
\* is - with any number of callers, of workers, of labels moved meanwhile.
THEOREM ResultsAreTrue == Spec => []ResultIsTruthful
<1>1. ServiceInv => ResultIsTruthful
  BY DEF ServiceInv
<1>. QED  BY <1>1, ServiceInit, ServiceStep, PTL DEF Spec

----------------------------------------------------------------------------
(* The service: what a client sees of the threads.                         *)

Route(l) == dbFile[serverDBMap[l]]
Target(c) == dbFile[handle[c]]
Phase(c) == CASE pc[c] = "idle" -> "idle"
              [] pc[c] = "put" -> "asked"
              [] pc[c] = "mwait" ->
                   IF reply[c] = "none" \/ req[c].op = "commit" THEN "asked" ELSE "bound"
              [] pc[c] = "dwait" /\ reply[c] # "none" -> "done"
              [] OTHER -> "bound"

RouteNow == [l \in Labels |-> Route(l)]
PhaseNow == [c \in Clients |-> Phase(c)]
TargetNow == [c \in Clients |-> Target(c)]
KindNow == [c \in Clients |-> req[c].op]
AskedNow == [c \in Clients |-> count[c]]

\* The service's steps, in the terms above.
LEMMA ServiceSees ==
  /\ Service!svars = <<RouteNow, PhaseNow, TargetNow, KindNow, AskedNow, stored>>
  /\ \A l \in Labels, f \in AllFiles : 
       /\ RouteNow' = [RouteNow EXCEPT ![l] = f]
       /\ UNCHANGED <<PhaseNow, TargetNow, KindNow, AskedNow, stored>>
       => Service!Reroute(l, f)
  /\ /\ RouteNow' = [l \in Labels |-> MainFile]
     /\ UNCHANGED <<PhaseNow, TargetNow, KindNow, AskedNow, stored>>
     => Service!Close
<1>1. Service!svars = <<RouteNow, PhaseNow, TargetNow, KindNow, AskedNow, stored>>
  BY DEF Service!svars, RouteNow, PhaseNow, TargetNow, KindNow, AskedNow, Route, Phase, Target
<1>2. ASSUME NEW l \in Labels, NEW f \in AllFiles, RouteNow' = [RouteNow EXCEPT ![l] = f],
             UNCHANGED <<PhaseNow, TargetNow, KindNow, AskedNow, stored>>
      PROVE  Service!Reroute(l, f)
  BY <1>2 DEF Service!Reroute, RouteNow, PhaseNow, TargetNow, KindNow, AskedNow, Route, Phase, Target
<1>3. ASSUME RouteNow' = [l \in Labels |-> MainFile],
             UNCHANGED <<PhaseNow, TargetNow, KindNow, AskedNow, stored>>
      PROVE  Service!Close
  BY <1>3 DEF Service!Close, RouteNow, PhaseNow, TargetNow, KindNow, AskedNow, Route, Phase, Target
<1>. QED  BY <1>1, <1>2, <1>3

LEMMA ClientSees ==
  ASSUME NEW c \in Clients
  PROVE  /\ \A k \in {"query", "batch", "commit"} :
              /\ PhaseNow[c] = "idle" /\ PhaseNow' = [PhaseNow EXCEPT ![c] = "asked"]
              /\ KindNow' = [KindNow EXCEPT ![c] = k] /\ AskedNow' = [AskedNow EXCEPT ![c] = @ + 1]
              /\ UNCHANGED <<RouteNow, TargetNow, stored>>
              => Service!Ask(c, k)
         /\ \A l \in Labels :
              /\ PhaseNow[c] = "asked" /\ KindNow[c] # "commit"
              /\ PhaseNow' = [PhaseNow EXCEPT ![c] = "bound"]
              /\ TargetNow' = [TargetNow EXCEPT ![c] = RouteNow[l]]
              /\ UNCHANGED <<RouteNow, KindNow, AskedNow, stored>>
              => Service!Bind(c, l)
         /\ /\ PhaseNow[c] = "bound" /\ PhaseNow' = [PhaseNow EXCEPT ![c] = "done"]
            /\ stored' = [stored EXCEPT ![TargetNow[c]] = @ \cup Writes(c)]
            /\ UNCHANGED <<RouteNow, TargetNow, KindNow, AskedNow>>
            => Service!Apply(c)
         /\ /\ PhaseNow[c] = "bound" /\ PhaseNow' = [PhaseNow EXCEPT ![c] = "done"]
            /\ UNCHANGED <<RouteNow, TargetNow, KindNow, AskedNow, stored>>
            => Service!Fail(c)
         /\ /\ PhaseNow[c] # "idle" /\ PhaseNow' = [PhaseNow EXCEPT ![c] = "idle"]
            /\ TargetNow' = [TargetNow EXCEPT ![c] = MainFile]
            /\ UNCHANGED <<RouteNow, KindNow, AskedNow, stored>>
            => Service!Return(c)
<1>. USE DEF RouteNow, PhaseNow, TargetNow, KindNow, AskedNow, Route, Phase, Target
<1>1. ASSUME NEW k \in {"query", "batch", "commit"},
             PhaseNow[c] = "idle", PhaseNow' = [PhaseNow EXCEPT ![c] = "asked"],
             KindNow' = [KindNow EXCEPT ![c] = k], AskedNow' = [AskedNow EXCEPT ![c] = @ + 1],
             UNCHANGED <<RouteNow, TargetNow, stored>>
      PROVE  Service!Ask(c, k)
  BY <1>1, Zenon DEF Service!Ask
<1>2. ASSUME NEW l \in Labels, PhaseNow[c] = "asked", KindNow[c] # "commit",
             PhaseNow' = [PhaseNow EXCEPT ![c] = "bound"],
             TargetNow' = [TargetNow EXCEPT ![c] = RouteNow[l]],
             UNCHANGED <<RouteNow, KindNow, AskedNow, stored>>
      PROVE  Service!Bind(c, l)
  BY <1>2, Zenon DEF Service!Bind
<1>3. ASSUME PhaseNow[c] = "bound", PhaseNow' = [PhaseNow EXCEPT ![c] = "done"],
             stored' = [stored EXCEPT ![TargetNow[c]] = @ \cup Writes(c)],
             UNCHANGED <<RouteNow, TargetNow, KindNow, AskedNow>>
      PROVE  Service!Apply(c)
  <2>1. Service!Writes(c) = Writes(c)
    BY DEF Service!Writes, Writes
  <2>. QED  BY <1>3, <2>1, Zenon DEF Service!Apply
<1>4. ASSUME PhaseNow[c] = "bound", PhaseNow' = [PhaseNow EXCEPT ![c] = "done"],
             UNCHANGED <<RouteNow, TargetNow, KindNow, AskedNow, stored>>
      PROVE  Service!Fail(c)
  BY <1>4, Zenon DEF Service!Fail
<1>5. ASSUME PhaseNow[c] # "idle", PhaseNow' = [PhaseNow EXCEPT ![c] = "idle"],
             TargetNow' = [TargetNow EXCEPT ![c] = MainFile],
             UNCHANGED <<RouteNow, KindNow, AskedNow, stored>>
      PROVE  Service!Return(c)
  BY <1>5, Zenon DEF Service!Return
<1>. HIDE DEF RouteNow, PhaseNow, TargetNow, KindNow, AskedNow, Route, Phase, Target
<1>. QED  BY <1>1, <1>2, <1>3, <1>4, <1>5

\* A client that sees nothing of a step, and a step in which only c sees something.
ClientStays(c) == /\ UNCHANGED <<req[c].op, count[c]>>
                  /\ Phase(c)' = Phase(c) /\ Target(c)' = Target(c)
RoutesStay == \A l \in Labels : Route(l)' = Route(l)
OnlyTo(c) == RoutesStay /\ \A x \in Clients : x # c => ClientStays(x)

LEMMA NothingSeen ==
  ASSUME RoutesStay, \A x \in Clients : ClientStays(x), UNCHANGED stored
  PROVE  UNCHANGED Service!svars
<1>1. UNCHANGED <<RouteNow, PhaseNow, TargetNow, KindNow, AskedNow>>
  BY DEF RoutesStay, ClientStays, RouteNow, PhaseNow, TargetNow, KindNow, AskedNow
<1>. QED  BY <1>1, Zenon DEF Service!svars, RouteNow, PhaseNow, TargetNow, KindNow, AskedNow, Route, Phase, Target

LEMMA SeenByOne ==
  ASSUME NEW c \in Clients, OnlyTo(c)
  PROVE  /\ UNCHANGED RouteNow
         /\ PhaseNow[c] = Phase(c) /\ KindNow[c] = req[c].op /\ TargetNow[c] = Target(c)
         /\ PhaseNow' = [PhaseNow EXCEPT ![c] = Phase(c)']
         /\ TargetNow' = [TargetNow EXCEPT ![c] = Target(c)']
         /\ KindNow' = [KindNow EXCEPT ![c] = (req[c].op)']
         /\ AskedNow' = [AskedNow EXCEPT ![c] = count'[c]]
         /\ AskedNow[c] = count[c]
BY DEF OnlyTo, RoutesStay, ClientStays, RouteNow, PhaseNow, TargetNow, KindNow, AskedNow

\* What one client sees is one of the service's steps.
LEMMA OneSees ==
  ASSUME NEW c \in Clients, OnlyTo(c)
  PROVE  /\ /\ Phase(c) = "idle" /\ Phase(c)' = "asked" /\ req'[c].op \in {"query", "batch", "commit"}
            /\ count'[c] = count[c] + 1 /\ Target(c)' = Target(c) /\ UNCHANGED stored
            => \E k \in {"query", "batch", "commit"} : Service!Ask(c, k)
         /\ \A l \in Labels :
              /\ Phase(c) = "asked" /\ Phase(c)' = "bound" /\ req[c].op # "commit" /\ Target(c)' = Route(l)
              /\ UNCHANGED <<req[c].op, count[c], stored>>
              => Service!Bind(c, l)
         /\ /\ Phase(c) = "bound" /\ Phase(c)' = "done" /\ Target(c)' = Target(c)
            /\ UNCHANGED <<req[c].op, count[c]>>
            /\ stored' = [stored EXCEPT ![Target(c)] = @ \cup Writes(c)]
            => Service!Apply(c)
         /\ /\ Phase(c) = "bound" /\ Phase(c)' = "done" /\ Target(c)' = Target(c)
            /\ UNCHANGED <<req[c].op, count[c], stored>>
            => Service!Fail(c)
         /\ /\ Phase(c) # "idle" /\ Phase(c)' = "idle" /\ Target(c)' = MainFile
            /\ UNCHANGED <<req[c].op, count[c], stored>>
            => Service!Return(c)
<1>1. /\ Target(c)' = Target(c) => UNCHANGED TargetNow
      /\ UNCHANGED req[c].op => UNCHANGED KindNow
      /\ UNCHANGED count[c] => UNCHANGED AskedNow
  BY DEF OnlyTo, ClientStays, TargetNow, KindNow, AskedNow
<1>2. ASSUME Phase(c) = "idle", Phase(c)' = "asked", req'[c].op \in {"query", "batch", "commit"},
             count'[c] = count[c] + 1, Target(c)' = Target(c), UNCHANGED stored
      PROVE  \E k \in {"query", "batch", "commit"} : Service!Ask(c, k)
  <2>1. PICK k \in {"query", "batch", "commit"} : k = req'[c].op
    BY <1>2
  <2>2. /\ PhaseNow[c] = "idle" /\ PhaseNow' = [PhaseNow EXCEPT ![c] = "asked"]
        /\ KindNow' = [KindNow EXCEPT ![c] = k] /\ AskedNow' = [AskedNow EXCEPT ![c] = @ + 1]
        /\ UNCHANGED <<RouteNow, TargetNow, stored>>
    BY <1>1, <1>2, <2>1, SeenByOne
  <2>. QED  BY <2>2, ClientSees
<1>3. ASSUME NEW l \in Labels, Phase(c) = "asked", Phase(c)' = "bound", req[c].op # "commit", Target(c)' = Route(l),
             UNCHANGED <<req[c].op, count[c], stored>>
      PROVE  Service!Bind(c, l)
  <2>1. Route(l) = RouteNow[l]
    BY DEF RouteNow
  <2>2. /\ PhaseNow[c] = "asked" /\ KindNow[c] # "commit"
        /\ PhaseNow' = [PhaseNow EXCEPT ![c] = "bound"]
        /\ TargetNow' = [TargetNow EXCEPT ![c] = RouteNow[l]]
        /\ UNCHANGED <<RouteNow, KindNow, AskedNow, stored>>
    BY <1>1, <1>3, <2>1, SeenByOne
  <2>. QED  BY <2>2, ClientSees
<1>4. ASSUME Phase(c) = "bound", Phase(c)' = "done", Target(c)' = Target(c), UNCHANGED <<req[c].op, count[c]>>
      PROVE  /\ PhaseNow[c] = "bound" /\ PhaseNow' = [PhaseNow EXCEPT ![c] = "done"]
             /\ UNCHANGED <<RouteNow, TargetNow, KindNow, AskedNow>> /\ TargetNow[c] = Target(c)
  BY <1>1, <1>4, SeenByOne
<1>5. ASSUME Phase(c) # "idle", Phase(c)' = "idle", Target(c)' = MainFile, UNCHANGED <<req[c].op, count[c], stored>>
      PROVE  Service!Return(c)
  <2>1. /\ PhaseNow[c] # "idle" /\ PhaseNow' = [PhaseNow EXCEPT ![c] = "idle"]
        /\ TargetNow' = [TargetNow EXCEPT ![c] = MainFile]
        /\ UNCHANGED <<RouteNow, KindNow, AskedNow, stored>>
    BY <1>1, <1>5, SeenByOne
  <2>. QED  BY <2>1, ClientSees
<1>6. (/\ Phase(c) = "bound" /\ Phase(c)' = "done" /\ Target(c)' = Target(c)
       /\ UNCHANGED <<req[c].op, count[c]>>
       /\ stored' = [stored EXCEPT ![Target(c)] = @ \cup Writes(c)])
      => Service!Apply(c)
  BY <1>4, ClientSees
<1>7. (/\ Phase(c) = "bound" /\ Phase(c)' = "done" /\ Target(c)' = Target(c)
       /\ UNCHANGED <<req[c].op, count[c], stored>>)
      => Service!Fail(c)
  BY <1>4, ClientSees
<1>. QED  BY <1>2, <1>3, <1>5, <1>6, <1>7

\* A caller and its worker as they were.
LEMMA StaysAsIs ==
  ASSUME NEW c \in Callers, UNCHANGED <<pc[c], req[c], count[c], handle[c], reply[c]>>,
         dbFile'[handle[c]] = dbFile[handle[c]]
  PROVE  ClientStays(c)
<1>1. PICK d : d = handle[c]
  OBVIOUS
<1>. QED  BY <1>1 DEF ClientStays, Phase, Target

LEMMA ClientSteps ==
  ASSUME ServiceInv, NEW c \in Callers, (\E r \in Calls[c] : StartCall(c, r)) \/ Caller(c)
  PROVE  [Service!Next]_(Service!svars)
<1>. USE DEF ServiceInv
<1>1. /\ UNCHANGED <<stored, dbFile, serverDBMap, reply>> \/ (UNCHANGED <<stored, dbFile, serverDBMap>> /\ pc[c] \in {"mwait", "dwait"})
      /\ \A x \in Callers : x # c => UNCHANGED <<pc[x], req[x], count[x], reply[x], handle[x]>>
  BY CallerRequests DEF StartCall, Caller, PutCall, GetCallResult, StopManager, JoinManager, Submit, GetResult, mapVars
<1>2. UNCHANGED <<stored, dbFile, serverDBMap>>
  BY <1>1
<1>3. RoutesStay /\ \A x \in Clients : x # c => ClientStays(x)
  BY <1>1, <1>2, StaysAsIs DEF RoutesStay, Route, Callers
<1>4. CASE c \notin Clients
  BY <1>2, <1>3, <1>4, NothingSeen
<1>5. CASE c \in Clients
  <2>1. /\ OnlyTo(c) /\ (ClientStays(c) => [Service!Next]_(Service!svars))
    BY <1>2, <1>3, NothingSeen DEF OnlyTo
  <2>2. /\ pc \in [Callers -> {"idle", "put", "mwait", "submit", "dwait", "stop", "join"}]
        /\ req \in [Callers -> Requests] /\ count \in [Callers -> Nat] /\ handle \in [Callers -> DBs]
        /\ reply \in [Callers \cup {Manager} -> {"none", "ok", "error"}]
    BY DEF Typed, TypeOK, TypeCallers
  <2>3. /\ \A k \in {"query", "batch", "commit"} : Service!Ask(c, k) => Service!Next
        /\ Service!Return(c) => Service!Next
    BY <1>5 DEF Service!Next
  <2>4. ASSUME NEW r \in Calls[c], StartCall(c, r) PROVE [Service!Next]_(Service!svars)
    <3>1. r.op \in {"query", "batch", "commit"} /\ c \in Callers
      BY <1>5, ConstantsAssumption DEF ConstantsAssumption, ClientOps
    <3>2. /\ pc[c] = "idle" /\ pc'[c] = "put" /\ req'[c] = r /\ count'[c] = count[c] + 1
          /\ UNCHANGED handle
      BY <2>2, <2>4 DEF StartCall
    <3>3. Phase(c) = "idle" /\ Phase(c)' = "asked" /\ Target(c)' = Target(c) /\ req'[c].op = r.op
      BY <1>2, <3>2 DEF Phase, Target
    <3>. QED  BY <1>2, <1>5, <2>1, <2>3, <3>1, <3>2, <3>3, OneSees
  <2>5. CASE PutCall(c)
    <3>1. /\ pc[c] = "put" /\ pc'[c] = "mwait" /\ UNCHANGED <<req, count, handle, reply>> /\ reply[c] = "none"
      BY <2>2, <2>5 DEF PutCall, Queues, Asking
    <3>2. ClientStays(c)
      BY <1>2, <3>1 DEF ClientStays, Phase, Target
    <3>. QED  BY <2>1, <3>2
  <2>6. CASE GetCallResult(c)
    <3>1. /\ pc[c] = "mwait" /\ reply[c] # "none" /\ UNCHANGED <<req, count, handle>>
          /\ req[c].op \in {"query", "batch", "commit"}
      BY <1>5, <2>6 DEF GetCallResult, Queues, Asking, ClientOps
    <3>2. CASE req[c].op \in {"query", "batch"}
      <4>1. pc'[c] = "submit"
        BY <2>2, <2>6, <3>2 DEF GetCallResult
      <4>2. ClientStays(c)
        BY <1>2, <3>1, <3>2, <4>1 DEF ClientStays, Phase, Target
      <4>. QED  BY <2>1, <4>2
    <3>3. CASE req[c].op = "commit"
      <4>1. pc'[c] = "idle" /\ handle[c] = Main
        BY <2>2, <2>6, <3>3 DEF GetCallResult, Queues, Asking
      <4>2. Phase(c) = "asked" /\ Phase(c)' = "idle" /\ Target(c)' = MainFile
        BY <1>2, <3>1, <3>3, <4>1 DEF Phase, Target, Bindings
      <4>. QED  BY <1>2, <1>5, <2>1, <2>3, <3>1, <4>2, OneSees
    <3>. QED  BY <3>1, <3>2, <3>3
  <2>7. CASE StopManager(c) \/ JoinManager(c)
    BY <1>5, <2>7 DEF StopManager, JoinManager, Queues, Asking, ClientOps
  <2>8. CASE Submit(c)
    <3>1. pc[c] = "submit" /\ reply[c] = "none" /\ UNCHANGED <<req, count, reply>>
      BY <2>8 DEF Submit, Queues, Asking
    <3>2. CASE Accepts(handle[c])
      <4>1. pc'[c] = "dwait" /\ UNCHANGED handle
        BY <2>2, <2>8, <3>2 DEF Submit
      <4>2. ClientStays(c)
        BY <1>2, <3>1, <4>1 DEF ClientStays, Phase, Target
      <4>. QED  BY <2>1, <4>2
    <3>3. CASE ~Accepts(handle[c])
      <4>1. pc'[c] = "idle" /\ handle'[c] = Main
        BY <2>2, <2>8, <3>3 DEF Submit
      <4>2. Phase(c) = "bound" /\ Phase(c)' = "idle" /\ Target(c)' = MainFile
        BY <1>2, <3>1, <4>1 DEF Phase, Target, Bindings
      <4>. QED  BY <1>2, <1>5, <2>1, <2>3, <3>1, <4>2, OneSees
    <3>. QED  BY <3>2, <3>3
  <2>9. CASE GetResult(c)
    <3>1. /\ pc[c] = "dwait" /\ reply[c] # "none" /\ pc'[c] = "idle" /\ handle'[c] = Main /\ UNCHANGED <<req, count>>
      BY <2>2, <2>9 DEF GetResult
    <3>2. Phase(c) = "done" /\ Phase(c)' = "idle" /\ Target(c)' = MainFile
      BY <1>2, <3>1 DEF Phase, Target, Bindings
    <3>. QED  BY <1>2, <1>5, <2>1, <2>3, <3>1, <3>2, OneSees
  <2>. QED  BY <2>4, <2>5, <2>6, <2>7, <2>8, <2>9 DEF Caller
<1>. QED  BY <1>4, <1>5

LEMMA WorkerSteps ==
  ASSUME ServiceInv, NEW d \in DBs, Worker(d)
  PROVE  [Service!Next]_(Service!svars)
<1>. USE DEF ServiceInv
<1>1. UNCHANGED <<pc, req, count, handle, dbFile, serverDBMap>>
  BY WorkerLeaves
<1>2. RoutesStay /\ \A x \in Clients : reply'[x] = reply[x] => ClientStays(x)
  BY <1>1, StaysAsIs DEF RoutesStay, Route, Callers
<1>3. CASE UNCHANGED <<stored, reply>>
  BY <1>2, <1>3, NothingSeen
<1>4. ASSUME thread[d] = "busy", NEW r \in {"ok", "error"}, Respond(d, r), job[d].who \notin Callers, UNCHANGED stored
      PROVE  [Service!Next]_(Service!svars)
  BY <1>2, <1>4, RespondToManager, NothingSeen DEF Callers
<1>5. ASSUME thread[d] = "busy", NEW r \in {"ok", "error"}, Respond(d, r), NEW c \in Callers, c = job[d].who
      PROVE  /\ c \in Clients /\ OnlyTo(c) /\ Phase(c) = "bound" /\ Phase(c)' = "done"
             /\ Target(c) = dbFile[d] /\ Target(c)' = Target(c)
  <2>1. /\ reply'[c] = r /\ \A x \in Callers : x # c => reply'[x] = reply[x]
        /\ pc[c] = "dwait" /\ reply[c] = "none" /\ handle[c] = d /\ req[c].op \in {"query", "batch"}
    BY <1>5, RespondTo
  <2>2. c \in Clients
    BY <2>1 DEF Queues, Asking, ClientOps
  <2>. QED  BY <1>1, <1>2, <2>1, <2>2 DEF OnlyTo, Phase, Target, Callers
<1>6. CASE thread[d] = "busy" /\ AnswersNoWrite(d)
  <2>1. PICK r \in {"ok", "error"} : Respond(d, r) /\ UNCHANGED stored
    BY <1>6 DEF AnswersNoWrite
  <2>2. ASSUME NEW c \in Callers, c = job[d].who PROVE Service!Fail(c) /\ c \in Clients
    BY <1>1, <1>5, <1>6, <2>1, <2>2, OneSees
  <2>. QED  BY <1>4, <1>6, <2>1, <2>2 DEF Service!Next
<1>7. CASE thread[d] = "busy" /\ AnswersWritten(d)
  <2>1. PICK c \in Callers, r \in {"ok", "error"} :
           c = job[d].who /\ Respond(d, r) /\ stored' = [stored EXCEPT ![dbFile[d]] = @ \cup Writes(c)]
    BY <1>7 DEF AnswersWritten
  <2>2. Service!Apply(c) /\ c \in Clients
    BY <1>1, <1>5, <1>7, <2>1, OneSees
  <2>. QED  BY <2>2 DEF Service!Next
<1>. QED  BY <1>3, <1>6, <1>7, WorkerStores

\* Whom the manager answers it was serving.
LEMMA AnsweredIsServed ==
  ASSUME Typed, Queues, ManagerStep, NEW c \in Callers, reply'[c] # reply[c]
  PROVE  Takes(c) \/ Serves(c)
<1>1. CASE MgrEnd
  BY <1>1 DEF MgrEnd
<1>2. ASSUME NEW x \in Callers, ManagerActs(x) PROVE Takes(c) \/ Serves(c)
  BY <1>2 DEF ManagerActs, AnswersCall, GoesOn, InHand
<1>. QED  BY <1>1, <1>2, ManagerMoves

\* Only its answer to query() and batch() shows to their callers.
LEMMA OthersPass ==
  ASSUME ServiceInv, ManagerStep, \A x \in Callers : ~MgrGetDB(x), NEW c \in Clients
  PROVE  ClientStays(c)
<1>. USE DEF ServiceInv
<1>1. c \in Callers /\ handle[c] \in DBs /\ Born(handle[c])
  BY DEF Callers, Typed, TypeOK, TypeCallers, Bindings
<1>2. UNCHANGED <<pc, req, count>>
  BY ManagerPasses
<1>3. UNCHANGED handle
  BY DEF ManagerStep, MgrDelServer, MgrAddServer, MgrVisit, MgrJoined, MgrShutdownJoined, MgrCommitted,
         MgrEnd, MgrShutdownStop, MgrCommitVisit, callerVars
<1>4. PICK d \in DBs : d = handle[c] /\ dbFile'[d] = dbFile[d]
  BY <1>1, FilesStay
<1>5. CASE reply'[c] = reply[c]
  BY <1>1, <1>2, <1>3, <1>4, <1>5, StaysAsIs
<1>6. CASE reply'[c] # reply[c]
  <2>1. pc[c] = "mwait" /\ reply[c] = "none" /\ (req[c].op \in ClientOps <=> c \in Clients)
    BY <1>1, <1>6, StepIsManagers DEF Queues, Asking
  <2>2. req[c].op \notin {"query", "batch"}
    <3>1. CASE Takes(c)
      <4>1. callQueue \in Seq(Callers \cup {STOP}) /\ mgr.pc = "get" /\ Head(callQueue) = c /\ c # STOP
        BY <1>1, <3>1, Names DEF Takes, Typed, TypeOK, TypeManager
      <4>. QED  BY <4>1 DEF ManagerStep, MgrDelServer, MgrAddServer, MgrVisit, Serving, MgrJoined, MgrShutdownJoined,
              MgrCommitted, MgrEnd, MgrShutdownStop, MgrCommitVisit
    <3>2. CASE Serves(c)
      BY <3>2 DEF Serves, Queues, AtManager
    <3>. QED  BY <1>1, <1>6, <3>1, <3>2, AnsweredIsServed
  <2>3. req[c].op = "commit"
    BY <2>1, <2>2 DEF ClientOps
  <2>. QED  BY <1>2, <1>3, <1>4, <2>1, <2>3 DEF ClientStays, Phase, Target
<1>. QED  BY <1>5, <1>6

LEMMA RoutesMove ==
  ASSUME ServiceInv, ManagerStep
  PROVE  /\ \A l \in Labels : serverDBMap'[l] = serverDBMap[l] => Route(l)' = Route(l)
         /\ \A l \in Labels : Route(l)' \in AllFiles
<1>1. ASSUME NEW l \in Labels, serverDBMap'[l] = serverDBMap[l] PROVE Route(l)' = Route(l)
  <2>1. PICK d \in DBs : d = serverDBMap[l] /\ dbFile'[d] = dbFile[d]
    BY FilesStay DEF ServiceInv, Typed, TypeOK, TypeMaps, Bindings
  <2>. QED  BY <1>1, <2>1 DEF Route
<1>2. TypeMaps'
  BY TypedStep DEF ServiceInv, Next, Typed, TypeOK
<1>. QED  BY <1>1, <1>2 DEF Route, TypeMaps

\* A label moved is the service's Reroute, the labels cleared its Close.
LEMMA MoveIsReroute ==
  ASSUME ServiceInv, ManagerStep, UNCHANGED stored, \A x \in Clients : ClientStays(x), NEW l \in Labels,
         \A k \in Labels : k # l => serverDBMap'[k] = serverDBMap[k]
  PROVE  Service!Next
<1>1. PICK f \in AllFiles : f = Route(l)'
  BY RoutesMove
<1>2. RouteNow' = [RouteNow EXCEPT ![l] = f]
  <2>1. \A k \in Labels : k # l => Route(k)' = Route(k)
    BY RoutesMove
  <2>. QED  BY <1>1, <2>1 DEF RouteNow
<1>3. UNCHANGED <<PhaseNow, TargetNow, KindNow, AskedNow>>
  BY DEF ClientStays, PhaseNow, TargetNow, KindNow, AskedNow
<1>. QED  BY <1>2, <1>3, ServiceSees DEF Service!Next

LEMMA ManagerSteps == ASSUME ServiceInv, ManagerStep PROVE [Service!Next]_(Service!svars)
<1>. USE DEF ServiceInv
<1>1. UNCHANGED <<pc, req, count, stored>>
  BY ManagerPasses
<1>2. serverDBMap \in [Labels -> DBs] /\ handle \in [Callers -> DBs] /\ dbFile \in [DBs -> AllFiles]
  BY DEF Typed, TypeOK, TypeMaps, TypeCallers
<1>3. ASSUME NEW c \in Callers, MgrGetDB(c) PROVE Service!Next
  <2>1. Takes(c) /\ req[c].op \in {"query", "batch"}
    BY <1>3 DEF MgrGetDB, Serving, Takes
  <2>2. pc[c] = "mwait" /\ reply[c] = "none"
    BY <2>1, CallWaits
  <2>3. c \in Clients
    BY <2>1, <2>2 DEF Queues, Asking, ClientOps
  <2>4. PICK l \in Labels : l = req[c].label
    BY ServedTyped DEF Typed
  <2>5. /\ handle'[c] = serverDBMap[l] /\ reply'[c] = "ok" /\ UNCHANGED <<serverDBMap, dbFile>>
        /\ \A x \in Callers : x # c => handle'[x] = handle[x] /\ reply'[x] = reply[x]
    <3>1. reply \in [Callers \cup {Manager} -> {"none", "ok", "error"}]
      BY DEF Typed, TypeOK, TypeCallers
    <3>. QED  BY <1>2, <1>3, <2>4, <3>1 DEF MgrGetDB, Answer, mapVars
  <2>6. OnlyTo(c)
    BY <1>1, <2>5, StaysAsIs DEF OnlyTo, RoutesStay, Route, Callers
  <2>7. Phase(c) = "asked" /\ Phase(c)' = "bound" /\ req[c].op # "commit" /\ Target(c)' = Route(l)
    BY <1>1, <2>1, <2>2, <2>5 DEF Phase, Target, Route
  <2>8. Service!Bind(c, l)
    BY <1>1, <2>3, <2>6, <2>7, OneSees
  <2>. QED  BY <2>3, <2>8 DEF Service!Next
<1>4. ASSUME \A c \in Callers : ~MgrGetDB(c) PROVE [Service!Next]_(Service!svars)
  <2>1. \A x \in Clients : ClientStays(x)
    BY <1>4, OthersPass
  <2>2. ASSUME NEW l \in Labels, \A k \in Labels : k # l => serverDBMap'[k] = serverDBMap[k] PROVE Service!Next
    BY <1>1, <2>1, <2>2, MoveIsReroute
  <2>3. CASE UNCHANGED serverDBMap
    <3>1. RoutesStay
      BY <2>3, RoutesMove DEF RoutesStay
    <3>. QED  BY <1>1, <2>1, <3>1, NothingSeen
  <2>4. ASSUME NEW c \in Callers, MgrDelServer(c) PROVE Service!Next
    <3>1. PICK l \in Labels : l = req[c].label
      BY ServedTyped DEF Typed
    <3>2. \A k \in Labels : k # l => serverDBMap'[k] = serverDBMap[k]
      BY <1>2, <2>4, <3>1 DEF MgrDelServer
    <3>. QED  BY <2>2, <3>2
  <2>5. ASSUME NEW c \in Callers, NEW fm, NEW sv, BindFile(c, fm, sv) PROVE Service!Next
    <3>1. PICK l \in Labels : l = req[c].label
      BY ServedTyped DEF Typed
    <3>2. \A k \in Labels : k # l => serverDBMap'[k] = serverDBMap[k]
      BY <1>2, <2>5, <3>1 DEF BindFile
    <3>. QED  BY <2>2, <3>2
  <2>6. ASSUME NEW c \in Callers, MgrAddServer(c) PROVE UNCHANGED serverDBMap \/ \E fm, sv : BindFile(c, fm, sv)
    BY <2>6 DEF MgrAddServer, mapVars
  <2>7. CASE MgrJoined
    <3>1. mgr.who \in Callers
      BY <2>7 DEF MgrJoined, Typed, Served
    <3>2. UNCHANGED serverDBMap \/ \E fm, sv : BindFile(mgr.who, fm, sv)
      BY <2>7 DEF MgrJoined
    <3>. QED  BY <2>3, <2>5, <3>1, <3>2
  <2>8. ASSUME NEW d \in DBs, MgrShutdownStop(d) PROVE UNCHANGED serverDBMap \/ Service!Next
    <3>1. CASE d = Main
      <4>1. serverDBMap' = [l \in Labels |-> Main] /\ UNCHANGED dbFile
        BY <2>8, <3>1 DEF MgrShutdownStop
      <4>2. \A l \in Labels : Route(l)' = MainFile
        BY <4>1 DEF Route, Bindings
      <4>3. RouteNow' = [l \in Labels |-> MainFile]
        BY <4>2 DEF RouteNow
      <4>4. UNCHANGED <<PhaseNow, TargetNow, KindNow, AskedNow>>
        BY <2>1 DEF ClientStays, PhaseNow, TargetNow, KindNow, AskedNow
      <4>. QED  BY <1>1, <4>3, <4>4, ServiceSees DEF Service!Next
    <3>2. CASE d # Main
      BY <2>8, <3>2 DEF MgrShutdownStop
    <3>. QED  BY <3>1, <3>2
  <2>9. CASE MgrShutdownJoined \/ MgrCommitted \/ MgrEnd \/ (\E c \in Callers : MgrVisit(c))
             \/ \E d \in DBs : MgrCommitVisit(d)
    BY <2>3, <2>9 DEF MgrShutdownJoined, MgrCommitted, MgrEnd, MgrVisit, MgrCommitVisit, mapVars
  <2>. QED  BY <1>4, <2>3, <2>4, <2>5, <2>6, <2>7, <2>8, <2>9 DEF ManagerStep
<1>. QED  BY <1>3, <1>4

LEMMA ServiceStarts == Init => Service!Init
<1>. SUFFICES ASSUME Init PROVE Service!Init
  OBVIOUS
<1>1. \A c \in Clients : Phase(c) = "idle" /\ Target(c) = MainFile /\ req[c].op = "query" /\ count[c] = 0
  BY Numbers DEF Init, Phase, Target, Callers, NoReq
<1>2. \A l \in Labels : Route(l) = MainFile
  BY Numbers DEF Init, Route
<1>3. /\ RouteNow = [l \in Labels |-> MainFile] /\ PhaseNow = [c \in Clients |-> "idle"]
      /\ TargetNow = [c \in Clients |-> MainFile] /\ KindNow = [c \in Clients |-> "query"]
      /\ AskedNow = [c \in Clients |-> 0] /\ stored = [f \in AllFiles |-> {}]
  BY <1>1, <1>2 DEF RouteNow, PhaseNow, TargetNow, KindNow, AskedNow, Init
<1>. QED  BY <1>3, Zenon DEF Service!Init, RouteNow, PhaseNow, TargetNow, KindNow, AskedNow, Route, Phase, Target

LEMMA StepIsServices == ServiceInv /\ [Next]_vars => [Service!Next]_(Service!svars)
<1>. SUFFICES ASSUME ServiceInv, [Next]_vars PROVE [Service!Next]_(Service!svars)
  OBVIOUS
<1>1. CASE UNCHANGED vars
  <2>1. RoutesStay /\ UNCHANGED stored /\ \A x \in Clients : ClientStays(x)
    BY <1>1, StaysAsIs DEF vars, RoutesStay, Route, Callers
  <2>. QED  BY <2>1, NothingSeen
<1>. QED  BY <1>1, ClientSteps, WorkerSteps, ManagerSteps DEF Next

\* DBManager's threads are the store DBService describes: a request is bound to
\* one file, whatever its label is moved to meanwhile, and is applied there at
\* one instant, wholly or not at all, at most once.
THEOREM ServiceImplemented == Spec => ImplementsService
<1>1. Init /\ [][Next]_vars => []ServiceInv
  BY ServiceInit, ServiceStep, PTL
<1>2. ServiceInv /\ [Next]_vars => [Service!Next]_(Service!svars)
  BY StepIsServices
<1>. QED  BY <1>1, <1>2, ServiceStarts, PTL DEF Spec, ImplementsService, Service!Spec

----------------------------------------------------------------------------
(* The maps and the workers.                                               *)

Workers == DBs \ {Main}

\* The manager waits for a worker that addServer or delServer has released;
\* the manager is stopping the workers; it has begun to stop the last of them.
Releasing == mgr.pc = "join" /\ req[mgr.who].op \in {"add", "del"}
Shutting == mgr.pc \in {"next", "join"} /\ req[mgr.who].op = "shutdown"
Gone == ShutDown \/ mgr.pc = "ended" \/ (Shutting /\ mgr.pc = "join" /\ mgr.db = Main)

\* A worker that has not been made is not stopped, one that has has a file.
Fresh == \A d \in Workers : IF Born(d) THEN dbFile[d] \in Files ELSE ~stopping[d]

\* fileDBMap lists a worker under its file,
Listed == \A f \in Files : fileDBMap[f] # NoDB => dbFile[fileDBMap[f]] = f

\* and lists every worker that runs.  One that is not listed, its label having
\* been left to it by a move to a broken file, is never the last reference.
RunningListed ==
  ~Gone => \A d \in Workers : /\ Alive(d) => fileDBMap[dbFile[d]] = d
                              /\ Born(d) /\ fileDBMap[dbFile[d]] # d => servers[d] <= 0

\* The worker a release waits for is listed still, and has no reference.
Released1 ==
  /\ mgr.pc = "join" => mgr.db \in DBs
  /\ Releasing => /\ mgr.db \in Workers /\ Born(mgr.db) /\ servers[mgr.db] = 0
                  /\ fileDBMap[dbFile[mgr.db]] = mgr.db

Opened == Fresh /\ Listed /\ RunningListed /\ Released1 /\ OneWorkerPerFile

LEMMA OnlyReactor ==
  ASSUME Typed, Queues, NEW c \in Callers, pc[c] # "idle", req[c].op \in {"add", "del", "shutdown"}
  PROVE  c = Reactor
BY DEF Queues, Asking, Callers, ClientOps

LEMMA ReactorServed ==
  ASSUME Typed, Queues, Releasing \/ Shutting
  PROVE  mgr.who = Reactor /\ Serves(Reactor) /\ pc[Reactor] = "mwait" /\ reply[Reactor] = "none"
<1>1. PICK c \in Callers : c = mgr.who
  BY DEF Releasing, Shutting, Typed, Served
<1>2. Serves(c)
  BY <1>1 DEF Releasing, Shutting, Serves
<1>3. pc[c] = "mwait" /\ reply[c] = "none"
  BY <1>2 DEF Queues, AtManager
<1>4. c = Reactor
  BY <1>1, <1>3, OnlyReactor DEF Releasing, Shutting
<1>. QED  BY <1>1, <1>2, <1>3, <1>4

LEMMA ReactorTyped == Reactor \in Callers /\ Reactor \notin Clients
BY ConstantsAssumption DEF ConstantsAssumption, Callers

\* Whom the manager serves stays with it through what the others do.
LEMMA OthersLeaveReactor ==
  ASSUME ServiceInv, \/ \E c \in Callers : (\E r \in Calls[c] : StartCall(c, r)) \/ Caller(c)
                     \/ \E d \in DBs : Worker(d)
  PROVE  /\ UNCHANGED <<mgr, serverDBMap, fileDBMap, dbFile, servers, stopping>>
         /\ ShutDown => ShutDown' \/ mgr.pc = "ended"
         /\ pc[Reactor] = "mwait" /\ reply[Reactor] = "none" =>
              UNCHANGED <<pc[Reactor], req[Reactor], reply[Reactor]>>
         /\ ShutDown \/ pc[Reactor] = "mwait" => UNCHANGED req[Reactor]
<1>. USE DEF ServiceInv
<1>1. ASSUME NEW c \in Callers, (\E r \in Calls[c] : StartCall(c, r)) \/ Caller(c)
      PROVE  /\ UNCHANGED <<mgr, serverDBMap, fileDBMap, dbFile, servers, stopping>>
             /\ ShutDown => ShutDown' \/ mgr.pc = "ended"
             /\ pc[Reactor] = "mwait" /\ reply[Reactor] = "none" =>
                  UNCHANGED <<pc[Reactor], req[Reactor], reply[Reactor]>>
             /\ ShutDown \/ pc[Reactor] = "mwait" => UNCHANGED req[Reactor]
  <2>1. UNCHANGED <<mgr, serverDBMap, fileDBMap, dbFile, servers, stopping>>
    BY <1>1 DEF StartCall, Caller, PutCall, GetCallResult, StopManager, JoinManager, Submit, GetResult, mapVars
  <2>2. CASE c # Reactor
    <3>1. UNCHANGED <<pc[Reactor], req[Reactor], reply[Reactor]>>
      BY <1>1, <2>2, CallerRequests, ReactorTyped
    <3>. QED  BY <2>1, <3>1 DEF ShutDown
  <2>3. CASE c = Reactor
    <3>1. /\ pc \in [Callers -> {"idle", "put", "mwait", "submit", "dwait", "stop", "join"}]
          /\ req \in [Callers -> Requests]
      BY DEF Typed, TypeOK, TypeCallers
    <3>2. ~(ShutDown /\ pc[Reactor] = "idle") /\ ~(pc[Reactor] = "mwait" /\ pc[Reactor] = "idle")
      BY DEF ShutDown
    <3>3. ASSUME NEW r \in Calls[c], StartCall(c, r) PROVE pc[Reactor] = "idle"
      BY <2>3, <3>3 DEF StartCall
    <3>4. CASE Caller(c)
      <4>1. UNCHANGED req
        BY <3>4 DEF Caller, PutCall, GetCallResult, StopManager, JoinManager, Submit, GetResult
      <4>2. pc[Reactor] = "mwait" => reply[Reactor] # "none"
        BY <2>3, <3>4 DEF Caller, PutCall, GetCallResult, StopManager, JoinManager, Submit, GetResult
      <4>3. ASSUME ShutDown PROVE ShutDown' \/ mgr.pc = "ended"
        <5>1. CASE GetCallResult(c)
          BY <2>3, <3>1, <4>1, <4>3, <5>1 DEF GetCallResult, ShutDown
        <5>2. CASE StopManager(c)
          BY <2>3, <3>1, <4>1, <4>3, <5>2 DEF StopManager, ShutDown
        <5>3. CASE JoinManager(c)
          BY <5>3 DEF JoinManager, ManagerAlive
        <5>4. CASE PutCall(c) \/ Submit(c) \/ GetResult(c)
          BY <2>3, <4>3, <5>4 DEF PutCall, Submit, GetResult, ShutDown
        <5>. QED  BY <3>4, <5>1, <5>2, <5>3, <5>4 DEF Caller
      <4>. QED  BY <2>1, <4>1, <4>2, <4>3
    <3>. QED  BY <1>1, <2>1, <3>2, <3>3, <3>4
  <2>. QED  BY <2>2, <2>3
<1>2. ASSUME NEW d \in DBs, Worker(d)
      PROVE  /\ UNCHANGED <<mgr, serverDBMap, fileDBMap, dbFile, servers, stopping, pc, req>>
             /\ pc[Reactor] # "dwait" => UNCHANGED reply[Reactor]
  <2>1. UNCHANGED <<mgr, serverDBMap, fileDBMap, dbFile, servers, stopping, pc, req>>
    BY <1>2 DEF Worker, Open, TakeWork, RunQuery, RunCheckpoint, BatchBegin, BatchStatement, BatchCommit, BatchRollback,
       otherVars, callerVars, mapVars
  <2>2. pc[Reactor] # "dwait" => UNCHANGED reply[Reactor]
    <3>1. CASE UNCHANGED reply
      BY <3>1
    <3>2. ASSUME thread[d] = "busy", NEW r \in {"ok", "error"}, Respond(d, r) PROVE pc[Reactor] # "dwait" => UNCHANGED reply[Reactor]
      <4>1. CASE job[d].who \in Callers
        BY <3>2, <4>1, RespondTo, ReactorTyped
      <4>2. CASE job[d].who \notin Callers
        BY <3>2, <4>2, RespondToManager, ReactorTyped
      <4>. QED  BY <4>1, <4>2
    <3>. QED  BY <1>2, <3>1, <3>2, WorkerStores DEF AnswersNoWrite, AnswersWritten
  <2>. QED  BY <2>1, <2>2
<1>3. ASSUME NEW d \in DBs, Worker(d)
      PROVE  /\ ShutDown => ShutDown'
             /\ pc[Reactor] = "mwait" => UNCHANGED <<pc[Reactor], req[Reactor], reply[Reactor]>>
  BY <1>2, <1>3 DEF ShutDown
<1>. QED  BY <1>1, <1>2, <1>3

\* Once the workers are gone the manager makes no other.
LEMMA GoneStays == ServiceInv /\ [Next]_vars /\ Gone => Gone'
<1>. SUFFICES ASSUME ServiceInv, [Next]_vars, Gone PROVE Gone'
  OBVIOUS
<1>. USE DEF ServiceInv
<1>1. CASE \/ \E c \in Callers : (\E r \in Calls[c] : StartCall(c, r)) \/ Caller(c)
           \/ \E d \in DBs : Worker(d)
  <2>1. CASE ShutDown \/ mgr.pc = "ended"
    BY <1>1, <2>1, OthersLeaveReactor DEF Gone
  <2>2. CASE Shutting /\ mgr.pc = "join" /\ mgr.db = Main
    <3>1. UNCHANGED <<mgr, req[Reactor]>> /\ mgr.who = Reactor
      BY <1>1, <2>2, OthersLeaveReactor, ReactorServed
    <3>. QED  BY <2>2, <3>1 DEF Gone, Shutting
  <2>. QED  BY <2>1, <2>2 DEF Gone
<1>2. CASE ManagerStep
  <2>1. mgr.pc # "ended"
    BY <1>2 DEF ManagerStep, MgrGetDB, MgrDelServer, MgrAddServer, MgrVisit, Serving, MgrJoined, MgrShutdownJoined, MgrCommitted,
       MgrEnd, MgrShutdownStop, MgrCommitVisit
  <2>2. CASE ShutDown
    <3>1. UNCHANGED <<pc, req>> /\ (reply'[Reactor] # reply[Reactor] => pc[Reactor] = "mwait" /\ reply[Reactor] = "none")
      BY <1>2, StepIsManagers, ManagerPasses, ReactorTyped
    <3>. QED  BY <2>2, <3>1 DEF Gone, ShutDown
  <2>3. CASE Shutting /\ mgr.pc = "join" /\ mgr.db = Main
    <3>1. MgrShutdownJoined
      BY <1>2, <2>3 DEF ManagerStep, MgrGetDB, MgrDelServer, MgrAddServer, MgrVisit, Serving, MgrJoined, MgrCommitted,
         MgrEnd, MgrShutdownStop, MgrCommitVisit, Shutting
    <3>2. /\ mgr.who = Reactor /\ pc[Reactor] = "mwait" /\ req[Reactor].op = "shutdown"
      BY <2>3, ReactorServed DEF Shutting
    <3>3. reply' = [reply EXCEPT ![Reactor] = "ok"] /\ UNCHANGED <<pc, req>>
      BY <2>3, <3>1, <3>2 DEF MgrShutdownJoined, Answer, callerVars
    <3>4. reply'[Reactor] = "ok"
      BY <3>3, ReactorTyped DEF Typed, TypeOK, TypeCallers
    <3>. QED  BY <3>2, <3>3, <3>4 DEF Gone, ShutDown
  <2>. QED  BY <2>1, <2>2, <2>3 DEF Gone
<1>3. CASE UNCHANGED vars
  BY <1>3 DEF vars, Gone, ShutDown, Shutting
<1>. QED  BY <1>1, <1>2, <1>3 DEF Next

\* A step that makes no worker, and binds and releases none.
LEMMA QuietKeepsOpened ==
  ASSUME Opened, UNCHANGED <<fileDBMap, dbFile, servers>>,
         \A d \in DBs : /\ Alive(d)' => Alive(d)
                        /\ Born(d)' <=> Born(d)
                        /\ ~Born(d) => stopping'[d] = stopping[d],
         Gone => Gone',
         Releasing' => Releasing /\ mgr'.db = mgr.db,
         mgr'.pc = "join" => mgr'.db \in DBs
  PROVE  Opened'
<1>1. \A d \in Workers : d \in DBs
  BY DEF Workers
<1>2. Fresh'
  BY <1>1 DEF Opened, Fresh
<1>3. Listed'
  BY DEF Opened, Listed
<1>4. RunningListed'
  BY <1>1 DEF Opened, RunningListed
<1>5. Released1'
  <2>1. ASSUME Releasing'
        PROVE  mgr'.db \in Workers /\ Born(mgr.db)' /\ servers'[mgr'.db] = 0 /\ fileDBMap'[dbFile'[mgr'.db]] = mgr'.db
    <3>1. PICK d : d = mgr.db
      OBVIOUS
    <3>2. d \in Workers /\ Born(d) /\ servers[d] = 0 /\ fileDBMap[dbFile[d]] = d /\ mgr'.db = d
      BY <2>1, <3>1 DEF Opened, Released1
    <3>3. Born(d)'
      BY <1>1, <3>2
    <3>. QED  BY <3>2, <3>3 DEF Born
  <2>. QED  BY <2>1 DEF Released1
<1>6. OneWorkerPerFile'
  BY DEF Opened, OneWorkerPerFile
<1>. QED  BY <1>2, <1>3, <1>4, <1>5, <1>6 DEF Opened

\* What a release leaves of the maps, in fileDBMap and in the counts.
Left(fm, sv) ==
  /\ fm \in [Files -> DBs \cup {NoDB}] /\ sv \in [DBs -> Int]
  /\ \A f \in Files : fm[f] # NoDB => fm[f] = fileDBMap[f]
  /\ \A d \in Workers : /\ Alive(d) => fm[dbFile[d]] = d
                        /\ Born(d) /\ fm[dbFile[d]] # d => sv[d] <= 0

LEMMA DropKeepsOpened ==
  ASSUME Typed, Opened, NEW fm, NEW sv, Left(fm, sv), fileDBMap' = fm, servers' = sv,
         UNCHANGED <<dbFile, thread, stopping>>, mgr'.pc = "get"
  PROVE  Opened'
<1>1. Fresh' /\ OneWorkerPerFile'
  BY DEF Opened, Fresh, Born, OneWorkerPerFile, Alive
<1>2. Listed'
  BY DEF Opened, Listed, Left
<1>3. RunningListed'
  BY DEF RunningListed, Left, Alive, Born
<1>4. Released1'
  BY DEF Released1, Releasing
<1>. QED  BY <1>1, <1>2, <1>3, <1>4 DEF Opened

LEMMA BindKeepsOpened ==
  ASSUME Typed, Bindings, Opened, NEW c \in Callers, NEW fm, NEW sv, Left(fm, sv), BindFile(c, fm, sv),
         req[c].file # MainFile, UNCHANGED stopping
  PROVE  Opened'
<1>1. PICK f \in Files : f = req[c].file
  BY ServedTyped DEF Typed, AllFiles
<1>2. /\ fm \in [Files -> DBs \cup {NoDB}] /\ sv \in [DBs -> Int]
      /\ dbFile \in [DBs -> AllFiles] /\ thread \in ThreadType /\ MainFile \notin Files
      /\ fileDBMap \in [Files -> DBs \cup {NoDB}] /\ \A g \in Files : g \in AllFiles
  BY BeforeWork, ConstantsAssumption DEF Left, Typed, TypeOK, TypeMaps, ConstantsAssumption, AllFiles
<1>3. mgr'.pc = "get"
  BY BindAnswers DEF Answer, FreeMgr
<1>4. CASE fm[f] # NoDB /\ servers' = [sv EXCEPT ![fm[f]] = @ + 1] /\ fileDBMap' = fm /\ UNCHANGED <<dbFile, thread>>
  <2>1. dbFile[fm[f]] = f /\ fm[f] \in DBs
    BY <1>2, <1>4 DEF Opened, Listed, Left
  <2>2. \A d \in DBs : fm[dbFile[d]] # d => servers'[d] = sv[d]
    BY <1>2, <1>4, <2>1
  <2>3. servers' \in [DBs -> Int]
    BY <1>2, <1>4, <2>1
  <2>4. Left(fm, servers')
    BY <2>2, <2>3 DEF Left, Workers
  <2>5. PICK sw : sw = servers'
    OBVIOUS
  <2>. QED  BY <1>3, <1>4, <2>4, <2>5, DropKeepsOpened
<1>5. ASSUME NEW new \in Unborn, fm[f] = NoDB, fileDBMap' = [fm EXCEPT ![f] = new], servers' = [sv EXCEPT ![new] = 1],
             dbFile' = [dbFile EXCEPT ![new] = f], thread' = [thread EXCEPT ![new] = "starting"]
      PROVE  Opened'
  <2>1. new \in DBs /\ thread[new] = "none" /\ new # Main /\ new # NoDB
    BY Numbers DEF Unborn, Bindings, Born
  <2>2. /\ dbFile'[new] = f /\ thread'[new] = "starting" /\ fileDBMap'[f] = new /\ servers'[new] = 1
        /\ \A d \in DBs : d # new => dbFile'[d] = dbFile[d] /\ thread'[d] = thread[d] /\ servers'[d] = sv[d]
        /\ \A g \in Files : g # f => fileDBMap'[g] = fm[g]
    BY <1>2, <1>5, <2>1 DEF ThreadType
  <2>3. \A d \in DBs : d # new => (Born(d)' <=> Born(d)) /\ (Alive(d)' <=> Alive(d))
    BY <2>2 DEF Born, Alive
  <2>4. Born(new)' /\ ~Born(new)
    BY <2>1, <2>2 DEF Born
  <2>5. Fresh'
    BY <2>2, <2>3, <2>4 DEF Opened, Fresh, Workers
  <2>6. Listed'
    <3>1. ASSUME NEW g \in Files, fileDBMap'[g] # NoDB PROVE dbFile'[fileDBMap'[g]] = g
      <4>1. CASE g = f
        BY <2>2, <4>1
      <4>2. CASE g # f
        <5>1. fileDBMap'[g] = fileDBMap[g] /\ fileDBMap[g] \in DBs
          BY <1>2, <2>2, <3>1, <4>2 DEF Left
        <5>2. dbFile[fileDBMap[g]] = g /\ fileDBMap[g] # new
          BY <2>4, <3>1, <5>1 DEF Opened, Listed, Bindings
        <5>. QED  BY <2>2, <5>1, <5>2
      <4>. QED  BY <4>1, <4>2
    <3>. QED  BY <3>1 DEF Listed
  <2>7. \A d \in Workers : d # new /\ Alive(d) => dbFile[d] # f
    BY <1>5, <2>1, Numbers DEF Left, Workers
  <2>8. RunningListed'
    <3>1. ASSUME NEW d \in Workers
          PROVE  /\ Alive(d)' => fileDBMap'[dbFile'[d]] = d
                 /\ Born(d)' /\ fileDBMap'[dbFile'[d]] # d => servers'[d] <= 0
      <4>1. CASE d = new
        BY <2>2, <4>1
      <4>2. CASE d # new
        <5>1. d \in DBs /\ dbFile'[d] = dbFile[d] /\ servers'[d] = sv[d]
          BY <2>2, <4>2 DEF Workers
        <5>2. CASE dbFile[d] = f
          BY <1>5, <2>1, <2>3, <2>7, <4>2, <5>1, <5>2, Numbers DEF Left
        <5>3. CASE dbFile[d] # f
          <6>1. Born(d)' => dbFile[d] \in Files
            BY <2>3, <4>2, <5>1 DEF Opened, Fresh
          <6>2. Alive(d) => Born(d)
            BY DEF Alive, Born
          <6>. QED  BY <2>2, <2>3, <4>2, <5>1, <5>3, <6>1, <6>2 DEF Left
        <5>. QED  BY <5>2, <5>3
      <4>. QED  BY <4>1, <4>2
    <3>. QED  BY <3>1 DEF RunningListed
  <2>9. Released1'
    BY <1>3 DEF Released1, Releasing
  <2>10. OneWorkerPerFile'
    <3>1. dbFile[Main] = MainFile /\ f # MainFile /\ Main \in DBs
      BY <1>2, Numbers DEF Bindings
    <3>2. \A d \in DBs : d # new /\ Alive(d) => dbFile[d] # f
      BY <2>7, <3>1 DEF Workers
    <3>. QED  BY <2>2, <2>3, <3>2 DEF Opened, OneWorkerPerFile
  <2>. QED  BY <2>5, <2>6, <2>8, <2>9, <2>10 DEF Opened
<1>6. CASE fileDBMap' = fm /\ servers' = sv /\ UNCHANGED <<dbFile, thread>>
  BY <1>3, <1>6, DropKeepsOpened
<1>. QED  BY <1>1, <1>4, <1>5, <1>6 DEF BindFile

LEMMA LeftAsWas ==
  ASSUME Typed, Opened, ~Gone
  PROVE  Left(fileDBMap, servers)
BY DEF Left, Opened, RunningListed, Typed, TypeOK, TypeMaps

LEMMA LeftOneLess ==
  ASSUME Typed, Opened, ~Gone, NEW d \in DBs
  PROVE  Left(fileDBMap, Released(d))
<1>1. servers \in [DBs -> Int] /\ fileDBMap \in [Files -> DBs \cup {NoDB}]
  BY DEF Typed, TypeOK, TypeMaps
<1>2. \A e \in DBs : Released(d)[e] \in Int /\ Released(d)[e] <= servers[e]
  BY <1>1 DEF Released
<1>3. Released(d) \in [DBs -> Int]
  BY <1>1 DEF Released
<1>4. \A m, n \in Int : m <= n /\ n <= 0 => m <= 0
  OBVIOUS
<1>5. \A e \in Workers : Born(e) /\ fileDBMap[dbFile[e]] # e => Released(d)[e] <= 0
  BY <1>1, <1>2, <1>4 DEF Opened, RunningListed, Workers
<1>. QED  BY <1>1, <1>3, <1>5 DEF Left, Opened, RunningListed

LEMMA LeftOnJoin ==
  ASSUME Typed, Opened, ~Gone, Releasing, Joined(mgr.db)
  PROVE  Left([fileDBMap EXCEPT ![dbFile[mgr.db]] = NoDB], servers)
<1>1. PICK d, f : d = mgr.db /\ f = dbFile[d]
  OBVIOUS
<1>2. d \in Workers /\ d \in DBs /\ Born(d) /\ servers[d] = 0 /\ fileDBMap[f] = d /\ f \in Files /\ ~Alive(d)
  BY <1>1 DEF Opened, Released1, Fresh, Joined, Workers
<1>3. servers \in [DBs -> Int] /\ fileDBMap \in [Files -> DBs \cup {NoDB}]
  BY DEF Typed, TypeOK, TypeMaps
<1>. DEFINE fm == [fileDBMap EXCEPT ![f] = NoDB]
<1>4. fm \in [Files -> DBs \cup {NoDB}] /\ fm[f] = NoDB /\ \A g \in Files : g # f => fm[g] = fileDBMap[g]
  BY <1>2, <1>3
<1>. HIDE DEF fm
<1>5. ASSUME NEW e \in Workers
      PROVE  /\ Alive(e) => fm[dbFile[e]] = e
             /\ Born(e) /\ fm[dbFile[e]] # e => servers[e] <= 0
  <2>1. Alive(e) => Born(e)
    BY DEF Alive, Born
  <2>2. Born(e) => dbFile[e] \in Files
    BY DEF Opened, Fresh
  <2>3. CASE e = d
    BY <1>2, <2>3
  <2>4. CASE e # d
    <3>1. fileDBMap[dbFile[e]] = e => dbFile[e] # f
      BY <1>2, <2>4
    <3>. QED  BY <1>4, <2>1, <2>2, <3>1 DEF Opened, RunningListed
  <2>. QED  BY <2>3, <2>4
<1>6. Left(fm, servers)
  BY <1>3, <1>4, <1>5 DEF Left
<1>. QED  BY <1>1, <1>6 DEF fm

LEMMA ReleaseKeepsOpened ==
  ASSUME Typed, Queues, Bindings, Opened, ~Gone, NEW l \in Labels, NEW old \in DBs, old = serverDBMap[l], old # Main,
         NEW c \in Callers, ReleaseLast(c, old), UNCHANGED req, req[c].op \in {"add", "del"}
  PROVE  Opened'
<1>1. servers \in [DBs -> Int] /\ stopping \in [DBs -> BOOLEAN] /\ dbFile \in [DBs -> AllFiles]
  BY DEF Typed, TypeOK, TypeMaps, TypeWorkers
<1>2. /\ UNCHANGED <<fileDBMap, dbFile, thread>> /\ servers[old] = 1 /\ servers' = [servers EXCEPT ![old] = @ - 1]
      /\ mgr' = [pc |-> "join", who |-> c, db |-> old, todo |-> {}]
      /\ \A d \in DBs : d # old => stopping'[d] = stopping[d]
  BY <1>1 DEF ReleaseLast, Released, StopWorker
<1>3. Born(old) /\ old \in Workers
  BY DEF Bindings, Workers
<1>4. fileDBMap[dbFile[old]] = old
  BY <1>2, <1>3 DEF Opened, RunningListed
<1>5. servers'[old] = 0 /\ \A d \in DBs : d # old => servers'[d] = servers[d]
  BY <1>1, <1>2
<1>6. Fresh' /\ Listed' /\ OneWorkerPerFile'
  BY <1>2, <1>3 DEF Opened, Fresh, Listed, OneWorkerPerFile, Alive, Born, Workers
<1>7. RunningListed'
  BY <1>2, <1>4, <1>5 DEF Opened, RunningListed, Alive, Born, Workers
<1>8. Released1'
  BY <1>2, <1>3, <1>4, <1>5 DEF Released1, Born
<1>. QED  BY <1>6, <1>7, <1>8 DEF Opened

\* The workers are not gone while addServer or delServer is served.
LEMMA ServesBeforeGone ==
  ASSUME Typed, Queues, NEW c \in Callers, Takes(c) \/ Serves(c), req[c].op \in {"add", "del"}, ManagerStep
  PROVE  ~Gone /\ c = Reactor
<1>1. pc[c] = "mwait" /\ reply[c] = "none"
  BY CallWaits
<1>2. c = Reactor
  BY <1>1, OnlyReactor
<1>3. mgr.pc # "ended"
  BY DEF Takes, Serves
<1>4. ~Shutting \/ mgr.pc # "join"
  BY DEF Takes, Serves, Shutting
<1>. QED  BY <1>1, <1>2, <1>3, <1>4 DEF Gone, ShutDown

LEMMA OpenedManager == ASSUME ServiceInv, Opened, ManagerStep PROVE Opened'
<1>. USE DEF ServiceInv
<1>1. serverDBMap \in [Labels -> DBs] /\ stopping \in [DBs -> BOOLEAN] /\ mgr \in MgrType
  BY DEF Typed, TypeOK, TypeMaps, TypeWorkers, TypeManager, MgrType
<1>2. Gone => Gone'
  BY GoneStays DEF Next
<1>3. UNCHANGED <<pc, req>>
  BY ManagerPasses
<1>4. ASSUME NEW c \in Callers, MgrDelServer(c) PROVE Opened'
  <2>1. Takes(c) /\ req[c].op \in {"add", "del"}
    BY <1>4 DEF MgrDelServer, Serving, Takes
  <2>2. ~Gone
    BY <2>1, ServesBeforeGone
  <2>3. PICK l \in Labels, old \in DBs : l = req[c].label /\ old = serverDBMap[l]
    BY ServedTyped DEF Typed
  <2>4. CASE Drop(c, fileDBMap, servers) /\ UNCHANGED <<stopping, qq>>
    BY <2>2, <2>4, LeftAsWas, DropKeepsOpened DEF Drop, Answer, FreeMgr
  <2>5. CASE Drop(c, fileDBMap, Released(old)) /\ UNCHANGED <<stopping, qq>>
    BY <2>2, <2>5, LeftOneLess, DropKeepsOpened DEF Drop, Answer, FreeMgr
  <2>6. CASE old # Main /\ ReleaseLast(c, old)
    BY <1>3, <2>1, <2>2, <2>3, <2>6, ReleaseKeepsOpened
  <2>. QED  BY <1>4, <2>3, <2>4, <2>5, <2>6 DEF MgrDelServer
<1>5. ASSUME NEW c \in Callers, MgrAddServer(c) PROVE Opened'
  <2>1. Takes(c) /\ req[c].op = "add" /\ req[c].file # MainFile
    BY <1>5 DEF MgrAddServer, Serving, Takes
  <2>2. ~Gone
    BY <2>1, ServesBeforeGone
  <2>3. PICK l \in Labels, old \in DBs : l = req[c].label /\ old = serverDBMap[l]
    BY ServedTyped DEF Typed
  <2>4. CASE Answer(c, "ok") /\ UNCHANGED <<mapVars, stopping, thread, qq>>
    BY <2>2, <2>4, LeftAsWas, DropKeepsOpened DEF mapVars, Answer, FreeMgr
  <2>5. CASE BindFile(c, fileDBMap, servers) /\ UNCHANGED <<stopping, qq>>
    BY <2>1, <2>2, <2>5, LeftAsWas, BindKeepsOpened
  <2>6. CASE BindFile(c, fileDBMap, Released(old)) /\ UNCHANGED <<stopping, qq>>
    BY <2>1, <2>2, <2>6, LeftOneLess, BindKeepsOpened
  <2>7. CASE old # Main /\ ReleaseLast(c, old)
    BY <1>3, <2>1, <2>2, <2>3, <2>7, ReleaseKeepsOpened
  <2>. QED  BY <1>5, <2>3, <2>4, <2>5, <2>6, <2>7 DEF MgrAddServer
<1>6. ASSUME MgrJoined PROVE Opened'
  <2>. DEFINE fm == [fileDBMap EXCEPT ![dbFile[mgr.db]] = NoDB]
  <2>1. PICK c \in Callers : c = mgr.who
    BY <1>6 DEF MgrJoined, Served, Typed
  <2>2. Releasing /\ Serves(c) /\ req[c].op \in {"add", "del"} /\ Joined(mgr.db)
    BY <1>6, <2>1 DEF MgrJoined, Releasing, Serves
  <2>3. ~Gone
    BY <2>2, ServesBeforeGone
  <2>4. Left(fm, servers)
    BY <2>2, <2>3, LeftOnJoin
  <2>. HIDE DEF fm
  <2>5. UNCHANGED stopping /\ \/ BindFile(c, fm, servers) /\ req[c].file # MainFile
                              \/ Drop(c, fm, servers)
    BY <1>6, <2>1 DEF MgrJoined, fm
  <2>6. CASE BindFile(c, fm, servers) /\ req[c].file # MainFile
    BY <2>4, <2>5, <2>6, BindKeepsOpened
  <2>7. CASE Drop(c, fm, servers)
    BY <2>4, <2>5, <2>7, DropKeepsOpened DEF Drop, Answer, FreeMgr
  <2>. QED  BY <2>5, <2>6, <2>7
<1>7. ASSUME UNCHANGED <<fileDBMap, dbFile, servers, thread>>, mgr'.pc = "join" => mgr'.db \in DBs /\ ~Releasing',
             \A d \in DBs : ~Born(d) => stopping'[d] = stopping[d]
      PROVE  Opened'
  BY <1>2, <1>7, QuietKeepsOpened DEF Alive, Born, Releasing
<1>8. ASSUME NEW d \in DBs, MgrShutdownStop(d) PROVE Opened'
  <2>1. /\ UNCHANGED <<dbFile, servers, thread>> /\ mgr'.pc = "join" /\ mgr'.db = d /\ mgr'.who = mgr.who
        /\ req[mgr.who].op = "shutdown"
    BY <1>1, <1>8 DEF MgrShutdownStop, MgrType
  <2>2. \A e \in DBs : ~Born(e) => stopping'[e] = stopping[e]
    BY <1>1, <1>8 DEF MgrShutdownStop, StopWorker, Accepts, Alive, Born
  <2>3. ~Releasing' /\ Shutting'
    BY <1>3, <2>1 DEF Releasing, Shutting
  <2>4. CASE d # Main
    BY <1>7, <1>8, <2>1, <2>2, <2>3, <2>4 DEF MgrShutdownStop
  <2>5. CASE d = Main
    <3>1. fileDBMap' = [f \in Files |-> NoDB]
      BY <1>8, <2>5 DEF MgrShutdownStop
    <3>2. Fresh' /\ OneWorkerPerFile'
      BY <2>1, <2>2 DEF Opened, Fresh, Born, OneWorkerPerFile, Alive, Workers
    <3>3. Listed'
      BY <3>1 DEF Listed
    <3>4. RunningListed'
      BY <2>1, <2>3, <2>5 DEF RunningListed, Gone
    <3>5. Released1'
      BY <2>1, <2>3 DEF Released1
    <3>. QED  BY <3>2, <3>3, <3>4, <3>5 DEF Opened
  <2>. QED  BY <2>4, <2>5
<1>9. CASE MgrShutdownJoined \/ MgrCommitted \/ MgrEnd \/ (\E c \in Callers : MgrVisit(c) \/ MgrGetDB(c))
           \/ \E d \in DBs : MgrCommitVisit(d)
  <2>1. UNCHANGED <<fileDBMap, dbFile, servers, thread, stopping>>
    BY <1>9 DEF MgrShutdownJoined, MgrCommitted, MgrEnd, MgrVisit, MgrGetDB, MgrCommitVisit, mapVars
  <2>2. mgr'.pc # "join"
    <3>1. DOMAIN mgr = {"pc", "who", "db", "todo"}
      BY <1>1 DEF MgrType
    <3>2. ASSUME NEW c, NEW r, Answer(c, r) PROVE mgr'.pc # "join"
      BY <3>2 DEF Answer, FreeMgr
    <3>3. CASE MgrShutdownJoined
      BY <3>1, <3>2, <3>3 DEF MgrShutdownJoined
    <3>4. CASE MgrCommitted \/ MgrEnd
      BY <3>1, <3>4 DEF MgrCommitted, MgrEnd, FreeMgr
    <3>5. ASSUME NEW c \in Callers, MgrVisit(c) \/ MgrGetDB(c) PROVE mgr'.pc # "join"
      BY <3>2, <3>5 DEF MgrVisit, MgrGetDB
    <3>6. ASSUME NEW d \in DBs, MgrCommitVisit(d) PROVE mgr'.pc # "join"
      BY <3>1, <3>2, <3>6 DEF MgrCommitVisit
    <3>. QED  BY <1>9, <3>3, <3>4, <3>5, <3>6
  <2>. QED  BY <1>7, <2>1, <2>2
<1>. QED  BY <1>4, <1>5, <1>6, <1>8, <1>9 DEF ManagerStep

LEMMA OpenedStep == ServiceInv /\ Opened /\ [Next]_vars => Opened'
<1>. SUFFICES ASSUME ServiceInv, Opened, [Next]_vars PROVE Opened'
  OBVIOUS
<1>. USE DEF ServiceInv
<1>1. Gone => Gone'
  BY GoneStays
<1>2. CASE \/ \E c \in Callers : (\E r \in Calls[c] : StartCall(c, r)) \/ Caller(c)
           \/ \E d \in DBs : Worker(d)
  <2>1. UNCHANGED <<mgr, fileDBMap, dbFile, servers, stopping>>
    BY <1>2, OthersLeaveReactor
  <2>2. \A d \in DBs : (Alive(d)' => Alive(d)) /\ (Born(d)' <=> Born(d))
    <3>1. CASE \E c \in Callers : (\E r \in Calls[c] : StartCall(c, r)) \/ Caller(c)
      <4>1. UNCHANGED thread
        BY <3>1, CallerRequests
      <4>. QED  BY <4>1 DEF Alive, Born
    <3>2. ASSUME NEW e \in DBs, Worker(e) PROVE \A d \in DBs : (Alive(d)' => Alive(d)) /\ (Born(d)' <=> Born(d))
      BY <3>2, BeforeWork DEF Worker, Open, TakeWork, RunQuery, RunCheckpoint, BatchBegin, BatchStatement, BatchCommit,
         BatchRollback, Respond, workVars, Working, Born, Alive, ThreadType
    <3>. QED  BY <1>2, <3>1, <3>2
  <2>3. Releasing' => Releasing
    <3>1. CASE mgr.pc = "join"
      <4>1. PICK c \in Callers : c = mgr.who
        BY <3>1 DEF Typed, Served
      <4>2. Serves(c) /\ req[c].op \in {"add", "del", "shutdown"}
        BY <3>1, <4>1 DEF Serves, Queues, AtManager
      <4>3. Releasing \/ Shutting
        BY <3>1, <4>1, <4>2 DEF Releasing, Shutting
      <4>4. mgr.who = Reactor /\ UNCHANGED req[Reactor]
        BY <1>2, <4>3, ReactorServed, OthersLeaveReactor
      <4>. QED  BY <2>1, <4>4 DEF Releasing
    <3>2. CASE mgr.pc # "join"
      BY <2>1, <3>2 DEF Releasing
    <3>. QED  BY <3>1, <3>2
  <2>4. mgr'.pc = "join" => mgr'.db \in DBs
    BY <2>1 DEF Opened, Released1
  <2>. QED  BY <1>1, <2>1, <2>2, <2>3, <2>4, QuietKeepsOpened
<1>3. CASE UNCHANGED vars
  BY <1>1, <1>3, QuietKeepsOpened DEF vars, Alive, Born, Releasing, Opened, Released1
<1>. QED  BY <1>2, <1>3, OpenedManager DEF Next

LEMMA OpenedInit == Init => Opened
<1>. SUFFICES ASSUME Init PROVE Opened
  OBVIOUS
<1>. QED  BY Numbers DEF Init, Opened, Fresh, Listed, RunningListed, Released1, Releasing, FreeMgr, OneWorkerPerFile,
             Born, Alive, Workers

\* No file is open in two running workers, whatever labels were moved, shared
\* and dropped, also after a move to a file that cannot be opened.
THEOREM NoFileOpenTwice == Spec => []OneWorkerPerFile
<1>1. Init /\ [][Next]_vars => []ServiceInv
  BY ServiceInit, ServiceStep, PTL
<1>2. Opened => OneWorkerPerFile
  BY DEF Opened
<1>. QED  BY <1>1, <1>2, OpenedInit, OpenedStep, PTL DEF Spec

----------------------------------------------------------------------------
(* Reference counts.                                                       *)

LabelsOf(d) == {l \in Labels : serverDBMap[l] = d}
Others(d, l) == LabelsOf(d) \ {l}

\* A worker's references are its labels; it is listed just when it has one.
Counted(d) ==
  /\ servers[d] = Cardinality(LabelsOf(d))
  /\ LabelsOf(d) # {} /\ ~Shutting => ~stopping[d]
  /\ \A f \in Files : fileDBMap[f] = d <=> LabelsOf(d) # {} /\ dbFile[d] = f

\* The one a release waits for is listed, and only the label being moved has it.
LetGo(d) ==
  LET r == req[Reactor]
  IN /\ LabelsOf(d) \subseteq {r.label}
     /\ serverDBMap[r.label] = IF r.op = "add" /\ r.file # MainFile THEN d ELSE Main
     /\ \A f \in Files : fileDBMap[f] = d <=> dbFile[d] = f

AllCounted ==
  ~Gone => \A d \in Workers : IF Releasing /\ d = mgr.db THEN LetGo(d) ELSE Counted(d)

\* addServer is given a broken file only for a label that is not mapped.
Pending == pc[Reactor] = "put" \/ (pc[Reactor] = "mwait" /\ reply[Reactor] = "none")
NewIfBroken == Pending /\ req[Reactor].op = "add" /\ req[Reactor].file \in BrokenFiles
                 => serverDBMap[req[Reactor].label] = Main

\* The maps as if l had been taken out of them.
Removed(l, fm, sv) ==
  \A d \in Workers :
    /\ sv[d] = Cardinality(Others(d, l))
    /\ Others(d, l) # {} => ~stopping[d]
    /\ \A f \in Files : fm[f] = d <=> Others(d, l) # {} /\ dbFile[d] = f

LEMMA LabelsFinite == \A d, l : /\ IsFiniteSet(LabelsOf(d)) /\ IsFiniteSet(Others(d, l))
                                /\ Cardinality(LabelsOf(d)) \in Nat /\ Cardinality(Others(d, l)) \in Nat
<1>1. IsFiniteSet(Labels)
  BY ConstantsAssumption DEF ConstantsAssumption
<1>2. ASSUME NEW d, NEW l
      PROVE  /\ IsFiniteSet(LabelsOf(d)) /\ IsFiniteSet(Others(d, l))
             /\ Cardinality(LabelsOf(d)) \in Nat /\ Cardinality(Others(d, l)) \in Nat
  <2>1. LabelsOf(d) \in SUBSET Labels /\ Others(d, l) \in SUBSET Labels
    BY DEF LabelsOf, Others
  <2>2. IsFiniteSet(LabelsOf(d)) /\ IsFiniteSet(Others(d, l))
    BY <1>1, <2>1, FS_Subset
  <2>. QED  BY <2>2, FS_CardinalityType
<1>. QED  BY <1>2

\* A label that is not mapped to a worker is none of the worker's.
LEMMA NotOthers == ASSUME NEW d, NEW l, serverDBMap[l] # d PROVE Others(d, l) = LabelsOf(d)
BY DEF Others, LabelsOf

LEMMA RemovedNew ==
  ASSUME AllCounted, ~Gone, mgr.pc = "get", NEW l \in Labels, serverDBMap[l] = Main
  PROVE  Removed(l, fileDBMap, servers)
<1>1. ASSUME NEW d \in Workers PROVE Counted(d) /\ Others(d, l) = LabelsOf(d)
  BY NotOthers DEF AllCounted, Releasing, Workers
<1>. QED  BY <1>1 DEF Removed, Counted, Shutting

LEMMA RemovedShared ==
  ASSUME Typed, AllCounted, ~Gone, mgr.pc = "get", NEW l \in Labels, NEW old \in DBs, old = serverDBMap[l],
         old # Main, servers[old] # 1
  PROVE  Removed(l, fileDBMap, Released(old))
<1>1. servers \in [DBs -> Int]
  BY DEF Typed, TypeOK, TypeMaps
<1>2. \A d \in Workers : Counted(d) /\ d \in DBs
  BY DEF AllCounted, Releasing, Workers
<1>3. ASSUME NEW d \in Workers, d # old
      PROVE  Released(old)[d] = servers[d] /\ Others(d, l) = LabelsOf(d)
  BY <1>1, <1>2, <1>3, NotOthers DEF Released
<1>4. /\ Released(old)[old] = servers[old] - 1
      /\ Cardinality(Others(old, l)) = servers[old] - 1 /\ Others(old, l) # {} /\ LabelsOf(old) # {}
  <2>1. l \in LabelsOf(old) /\ servers[old] = Cardinality(LabelsOf(old)) /\ IsFiniteSet(LabelsOf(old))
    BY <1>2, LabelsFinite DEF LabelsOf, Workers, Counted
  <2>2. Cardinality(Others(old, l)) = servers[old] - 1
    BY <2>1, FS_RemoveElement DEF Others
  <2>3. Cardinality(Others(old, l)) # 0
    BY <1>1, <2>2
  <2>. QED  BY <1>1, <2>1, <2>2, <2>3, FS_EmptySet DEF Released
<1>5. ASSUME NEW d \in Workers
      PROVE  /\ Released(old)[d] = Cardinality(Others(d, l))
             /\ Others(d, l) # {} => ~stopping[d]
             /\ \A f \in Files : fileDBMap[f] = d <=> Others(d, l) # {} /\ dbFile[d] = f
  <2>1. CASE d = old
    BY <1>2, <1>4, <2>1 DEF Counted, Shutting
  <2>2. CASE d # old
    BY <1>2, <1>3, <2>2 DEF Counted, Shutting
  <2>. QED  BY <2>1, <2>2
<1>. QED  BY <1>5 DEF Removed

LEMMA RemovedLast ==
  ASSUME Typed, Queues, Opened, AllCounted, ~Gone, Releasing
  PROVE  Removed(req[Reactor].label, [fileDBMap EXCEPT ![dbFile[mgr.db]] = NoDB], servers)
<1>1. PICK d, f, l : d = mgr.db /\ f = dbFile[d] /\ l = req[Reactor].label
  OBVIOUS
<1>2. d \in Workers /\ Born(d) /\ servers[d] = 0 /\ fileDBMap[f] = d /\ f \in Files
  BY <1>1 DEF Opened, Released1, Fresh
<1>3. fileDBMap \in [Files -> DBs \cup {NoDB}] /\ d # NoDB /\ \A e \in Workers : e # NoDB
  BY <1>2, Numbers DEF Typed, TypeOK, TypeMaps, Workers
<1>. DEFINE fm == [fileDBMap EXCEPT ![f] = NoDB]
<1>4. fm[f] = NoDB /\ \A g \in Files : g # f => fm[g] = fileDBMap[g]
  BY <1>2, <1>3
<1>. HIDE DEF fm
<1>5. LetGo(d)
  BY <1>1, <1>2 DEF AllCounted
<1>6. serverDBMap[l] = d \/ serverDBMap[l] = Main
  BY <1>1, <1>5 DEF LetGo
<1>7. ASSUME NEW e \in Workers
      PROVE  /\ servers[e] = Cardinality(Others(e, l))
             /\ Others(e, l) # {} => ~stopping[e]
             /\ \A g \in Files : fm[g] = e <=> Others(e, l) # {} /\ dbFile[e] = g
  <2>1. CASE e = d
    <3>1. Others(d, l) = {}
      BY <1>1, <1>5 DEF LetGo, Others
    <3>2. \A g \in Files : fm[g] # d
      BY <1>1, <1>3, <1>4, <1>5 DEF LetGo
    <3>. QED  BY <1>2, <2>1, <3>1, <3>2, FS_EmptySet
  <2>2. CASE e # d
    <3>1. Counted(e) /\ ~Shutting
      BY <1>1, <2>2 DEF AllCounted, Releasing, Shutting
    <3>2. Others(e, l) = LabelsOf(e)
      BY <1>6, <2>2, NotOthers DEF Workers
    <3>3. \A g \in Files : fm[g] = e <=> fileDBMap[g] = e
      BY <1>2, <1>3, <1>4, <2>2
    <3>. QED  BY <3>1, <3>2, <3>3 DEF Counted
  <2>. QED  BY <2>1, <2>2
<1>8. Removed(l, fm, servers)
  BY <1>7 DEF Removed
<1>. QED  BY <1>1, <1>8 DEF fm

\* The label goes to Main, or stays there.
LEMMA DropCounts ==
  ASSUME Typed, NEW l \in Labels, NEW fm, NEW sv, Removed(l, fm, sv), fileDBMap' = fm, servers' = sv,
         serverDBMap' = [serverDBMap EXCEPT ![l] = Main], UNCHANGED <<dbFile, stopping>>
  PROVE  \A d \in Workers : Counted(d)'
<1>1. serverDBMap \in [Labels -> DBs]
  BY DEF Typed, TypeOK, TypeMaps
<1>2. ASSUME NEW d \in Workers PROVE LabelsOf(d)' = Others(d, l)
  <2>1. d # Main
    BY DEF Workers
  <2>2. serverDBMap'[l] = Main /\ \A k \in Labels : k # l => serverDBMap'[k] = serverDBMap[k]
    BY <1>1
  <2>. QED  BY <2>1, <2>2 DEF LabelsOf, Others
<1>. QED  BY <1>2 DEF Removed, Counted

LEMMA BindCounts ==
  ASSUME Typed, Bindings, Opened, NEW c \in Callers, NEW l \in Labels, l = req[c].label, req[c].file # MainFile,
         NEW fm, NEW sv, Left(fm, sv), Removed(l, fm, sv), BindFile(c, fm, sv),
         req[c].file \in BrokenFiles => serverDBMap[l] = Main, UNCHANGED stopping
  PROVE  \A d \in Workers : Counted(d)'
<1>1. PICK f \in Files : f = req[c].file
  BY ServedTyped DEF Typed, AllFiles
<1>2. /\ serverDBMap \in [Labels -> DBs] /\ dbFile \in [DBs -> AllFiles] /\ thread \in ThreadType
      /\ \A d \in Workers : d \in DBs /\ d # NoDB /\ d # Main
      /\ fm \in [Files -> DBs \cup {NoDB}] /\ sv \in [DBs -> Int]
  BY BeforeWork, Numbers DEF Left, Typed, TypeOK, TypeMaps, Workers
\* the label goes to worker b, which gains a reference
<1>3. ASSUME NEW b \in Workers, serverDBMap' = [serverDBMap EXCEPT ![l] = b],
             servers'[b] = Cardinality(Others(b, l)) + 1, ~stopping[b],
             \A g \in Files : fileDBMap'[g] = b <=> dbFile'[b] = g,
             \A d \in Workers : d # b => servers'[d] = sv[d] /\ dbFile'[d] = dbFile[d],
             \A d \in Workers : d # b => \A g \in Files : fileDBMap'[g] = d <=> fm[g] = d
      PROVE  \A d \in Workers : Counted(d)'
  <2>1. serverDBMap'[l] = b /\ \A k \in Labels : k # l => serverDBMap'[k] = serverDBMap[k]
    BY <1>2, <1>3
  <2>2. LabelsOf(b)' = Others(b, l) \cup {l} /\ l \notin Others(b, l)
    BY <2>1 DEF LabelsOf, Others
  <2>3. Cardinality(LabelsOf(b)') = Cardinality(Others(b, l)) + 1
    BY <2>2, LabelsFinite, FS_AddElement
  <2>4. Counted(b)'
    BY <1>3, <2>2, <2>3 DEF Counted
  <2>5. ASSUME NEW d \in Workers, d # b PROVE Counted(d)'
    <3>1. LabelsOf(d)' = Others(d, l)
      BY <2>1, <2>5 DEF LabelsOf, Others
    <3>. QED  BY <1>3, <2>5, <3>1 DEF Counted, Removed
  <2>. QED  BY <2>4, <2>5
<1>4. CASE /\ fm[f] # NoDB /\ servers' = [sv EXCEPT ![fm[f]] = @ + 1] /\ fileDBMap' = fm
           /\ serverDBMap' = [serverDBMap EXCEPT ![l] = fm[f]] /\ UNCHANGED dbFile
  <2>1. PICK b \in DBs : b = fm[f]
    BY <1>2, <1>4
  <2>2. dbFile[b] = f
    BY <1>4, <2>1 DEF Opened, Listed, Left
  <2>3. b \in Workers
    BY <2>2, ConstantsAssumption DEF Bindings, Workers, ConstantsAssumption
  <2>4. Others(b, l) # {} /\ ~stopping[b]
    BY <2>1, <2>3 DEF Removed
  <2>5. servers'[b] = sv[b] + 1 /\ \A d \in Workers : d # b => servers'[d] = sv[d]
    BY <1>2, <1>4, <2>1
  <2>6. \A g \in Files : fileDBMap'[g] = b <=> dbFile'[b] = g
    BY <1>4, <2>3, <2>4 DEF Removed
  <2>7. servers'[b] = Cardinality(Others(b, l)) + 1
    BY <2>3, <2>5 DEF Removed
  <2>. QED  BY <1>3, <1>4, <2>1, <2>3, <2>4, <2>5, <2>6, <2>7
<1>5. ASSUME NEW new \in Unborn, fm[f] = NoDB, fileDBMap' = [fm EXCEPT ![f] = new], servers' = [sv EXCEPT ![new] = 1],
             dbFile' = [dbFile EXCEPT ![new] = f], serverDBMap' = [serverDBMap EXCEPT ![l] = new]
      PROVE  \A d \in Workers : Counted(d)'
  <2>1. new \in Workers /\ ~Born(new)
    BY DEF Unborn, Bindings, Born, Workers
  <2>2. ~stopping[new]
    BY <2>1 DEF Opened, Fresh
  <2>3. Others(new, l) = {}
    BY <2>1 DEF Others, LabelsOf, Bindings
  <2>4. servers'[new] = Cardinality(Others(new, l)) + 1
    BY <1>2, <1>5, <2>1, <2>3, FS_EmptySet
  <2>5. \A d \in Workers : d # new => servers'[d] = sv[d] /\ dbFile'[d] = dbFile[d]
    BY <1>2, <1>5
  <2>6. dbFile'[new] = f /\ fileDBMap'[f] = new /\ \A g \in Files : g # f => fileDBMap'[g] = fm[g]
    BY <1>2, <1>5, <2>1
  <2>7. \A g \in Files : fm[g] # new
    BY <2>1, <2>3 DEF Removed
  <2>8. \A g \in Files : fileDBMap'[g] = new <=> dbFile'[new] = g
    BY <2>6, <2>7
  <2>9. \A d \in Workers : d # new => \A g \in Files : fileDBMap'[g] = d <=> fm[g] = d
    BY <1>2, <1>5, <2>6
  <2>. QED  BY <1>3, <1>5, <2>1, <2>2, <2>4, <2>5, <2>8, <2>9
<1>6. CASE fm[f] = NoDB /\ f \in BrokenFiles /\ fileDBMap' = fm /\ servers' = sv /\ UNCHANGED <<serverDBMap, dbFile>>
  <2>1. serverDBMap' = [serverDBMap EXCEPT ![l] = Main]
    BY <1>1, <1>2, <1>6
  <2>. QED  BY <1>6, <2>1, DropCounts
<1>. QED  BY <1>1, <1>4, <1>5, <1>6 DEF BindFile

LEMMA ReleaseCounts ==
  ASSUME Typed, Queues, AllCounted, ~Gone, mgr.pc = "get", NEW l \in Labels, NEW old \in DBs, old = serverDBMap[l],
         old # Main, l = req[Reactor].label, ReleaseLast(Reactor, old), UNCHANGED req,
         serverDBMap' = IF req[Reactor].op = "add" /\ req[Reactor].file # MainFile
                        THEN serverDBMap ELSE [serverDBMap EXCEPT ![l] = Main]
  PROVE  \A d \in Workers : IF d = old THEN LetGo(d)' ELSE Counted(d)'
<1>1. servers \in [DBs -> Int] /\ stopping \in [DBs -> BOOLEAN] /\ serverDBMap \in [Labels -> DBs]
  BY DEF Typed, TypeOK, TypeMaps, TypeWorkers
<1>2. /\ UNCHANGED <<fileDBMap, dbFile>> /\ servers[old] = 1
      /\ \A d \in DBs : d # old => stopping'[d] = stopping[d] /\ servers'[d] = servers[d]
  BY <1>1 DEF ReleaseLast, Released, StopWorker
<1>3. \A d \in Workers : Counted(d) /\ d \in DBs /\ d # Main
  BY DEF AllCounted, Releasing, Workers
<1>4. /\ serverDBMap'[l] = IF req[Reactor].op = "add" /\ req[Reactor].file # MainFile THEN old ELSE Main
      /\ \A k \in Labels : k # l => serverDBMap'[k] = serverDBMap[k]
  BY <1>1
<1>5. LabelsOf(old) = {l} /\ old \in Workers
  <2>1. l \in LabelsOf(old) /\ old \in Workers
    BY DEF LabelsOf, Workers
  <2>2. Cardinality(LabelsOf(old)) = 1
    BY <1>2, <1>3, <2>1 DEF Counted
  <2>3. PICK x : LabelsOf(old) = {x}
    BY <2>2, LabelsFinite, FS_Singleton
  <2>. QED  BY <2>1, <2>3
<1>6. LetGo(old)'
  <2>1. LabelsOf(old)' \subseteq {l}
    BY <1>4, <1>5 DEF LabelsOf
  <2>2. \A f \in Files : fileDBMap[f] = old <=> dbFile[old] = f
    BY <1>3, <1>5 DEF Counted
  <2>. QED  BY <1>2, <1>4, <2>1, <2>2 DEF LetGo
<1>7. ASSUME NEW d \in Workers, d # old PROVE Counted(d)'
  <2>1. LabelsOf(d)' = LabelsOf(d)
    BY <1>3, <1>4, <1>7 DEF LabelsOf
  <2>2. ~Shutting
    BY DEF Shutting
  <2>. QED  BY <1>2, <1>3, <1>7, <2>1, <2>2 DEF Counted
<1>. QED  BY <1>6, <1>7

LEMMA QuietKeepsCounted ==
  ASSUME AllCounted, UNCHANGED <<serverDBMap, fileDBMap, dbFile, servers>>, Gone => Gone',
         Releasing' <=> Releasing, Releasing => mgr'.db = mgr.db /\ UNCHANGED req[Reactor],
         UNCHANGED stopping \/ Shutting', Shutting => Shutting' \/ Gone'
  PROVE  AllCounted'
<1>1. \A d \in Workers : LabelsOf(d)' = LabelsOf(d)
  BY DEF LabelsOf
<1>2. ASSUME ~Gone', NEW d \in Workers, Releasing, d = mgr.db PROVE LetGo(d)'
  BY <1>1, <1>2 DEF AllCounted, LetGo
<1>3. ASSUME ~Gone', NEW d \in Workers, ~(Releasing /\ d = mgr.db) PROVE Counted(d)'
  BY <1>1, <1>3 DEF AllCounted, Counted
<1>. QED  BY <1>2, <1>3 DEF AllCounted

LEMMA CountedManager == ASSUME ServiceInv, Opened, AllCounted, NewIfBroken, ManagerStep PROVE AllCounted'
<1>. USE DEF ServiceInv
<1>1. serverDBMap \in [Labels -> DBs] /\ mgr \in MgrType
  BY DEF Typed, TypeOK, TypeMaps, TypeManager, MgrType
<1>2. UNCHANGED <<pc, req>> /\ (Gone => Gone')
  BY ManagerPasses, GoneStays DEF Next
<1>3. ASSUME NEW c, NEW r, Answer(c, r) PROVE ~Releasing'
  BY <1>3 DEF Answer, FreeMgr, Releasing
<1>4. ASSUME \A d \in Workers : Counted(d)', ~Releasing' PROVE AllCounted'
  BY <1>4 DEF AllCounted
<1>5. ASSUME NEW l \in Labels, NEW old \in DBs, old = serverDBMap[l], old # Main, l = req[Reactor].label,
             ReleaseLast(Reactor, old), req[Reactor].op \in {"add", "del"}, ~Gone, mgr.pc = "get",
             serverDBMap' = IF req[Reactor].op = "add" /\ req[Reactor].file # MainFile
                            THEN serverDBMap ELSE [serverDBMap EXCEPT ![l] = Main]
      PROVE  AllCounted'
  <2>1. Releasing' /\ mgr'.db = old
    BY <1>2, <1>5 DEF ReleaseLast, Releasing
  <2>2. \A d \in Workers : IF d = old THEN LetGo(d)' ELSE Counted(d)'
    BY <1>2, <1>5, ReleaseCounts
  <2>. QED  BY <2>1, <2>2 DEF AllCounted
<1>6. ASSUME NEW c \in Callers, MgrDelServer(c) PROVE AllCounted'
  <2>1. Takes(c) /\ mgr.pc = "get" /\ req[c].op \in {"add", "del"} /\ (req[c].op = "add" => req[c].file = MainFile)
    BY <1>6 DEF MgrDelServer, Serving, Takes
  <2>2. ~Gone /\ c = Reactor
    BY <2>1, ServesBeforeGone
  <2>3. PICK l \in Labels, old \in DBs : l = req[c].label /\ old = serverDBMap[l]
    BY ServedTyped DEF Typed
  <2>4. serverDBMap' = [serverDBMap EXCEPT ![l] = Main]
    BY <1>6, <2>3 DEF MgrDelServer
  <2>5. CASE old = Main /\ Drop(c, fileDBMap, servers) /\ UNCHANGED <<stopping, qq>>
    <3>1. \A d \in Workers : Counted(d)'
      BY <2>1, <2>2, <2>3, <2>4, <2>5, RemovedNew, DropCounts DEF Drop
    <3>. QED  BY <1>3, <1>4, <2>5, <3>1 DEF Drop
  <2>6. CASE old # Main /\ servers[old] # 1 /\ Drop(c, fileDBMap, Released(old)) /\ UNCHANGED <<stopping, qq>>
    <3>1. \A d \in Workers : Counted(d)'
      BY <2>1, <2>2, <2>3, <2>4, <2>6, RemovedShared, DropCounts DEF Drop
    <3>. QED  BY <1>3, <1>4, <2>6, <3>1 DEF Drop
  <2>7. CASE old # Main /\ ReleaseLast(c, old)
    BY <1>5, <2>1, <2>2, <2>3, <2>4, <2>7
  <2>. QED  BY <1>6, <2>3, <2>5, <2>6, <2>7 DEF MgrDelServer
<1>7. ASSUME NEW c \in Callers, MgrAddServer(c) PROVE AllCounted'
  <2>1. Takes(c) /\ mgr.pc = "get" /\ req[c].op = "add" /\ req[c].file # MainFile
    BY <1>7 DEF MgrAddServer, Serving, Takes
  <2>2. ~Gone /\ c = Reactor
    BY <2>1, ServesBeforeGone
  <2>3. PICK l \in Labels, old \in DBs : l = req[c].label /\ old = serverDBMap[l]
    BY ServedTyped DEF Typed
  <2>4. req[c].file \in BrokenFiles => old = Main
    BY <2>1, <2>2, <2>3, CallWaits DEF NewIfBroken, Pending
  <2>5. CASE Answer(c, "ok") /\ UNCHANGED <<mapVars, stopping, thread, qq>>
    BY <1>2, <1>3, <2>1, <2>5, QuietKeepsCounted DEF mapVars, Releasing, Shutting
  <2>6. CASE old = Main /\ BindFile(c, fileDBMap, servers) /\ UNCHANGED <<stopping, qq>>
    <3>1. \A d \in Workers : Counted(d)'
      BY <2>1, <2>2, <2>3, <2>4, <2>6, RemovedNew, LeftAsWas, BindCounts
    <3>. QED  BY <1>3, <1>4, <2>6, <3>1, BindAnswers
  <2>7. CASE old # Main /\ servers[old] # 1 /\ BindFile(c, fileDBMap, Released(old)) /\ UNCHANGED <<stopping, qq>>
    <3>1. \A d \in Workers : Counted(d)'
      BY <2>1, <2>2, <2>3, <2>4, <2>7, RemovedShared, LeftOneLess, BindCounts
    <3>. QED  BY <1>3, <1>4, <2>7, <3>1, BindAnswers
  <2>8. CASE old # Main /\ ReleaseLast(c, old) /\ UNCHANGED serverDBMap
    BY <1>5, <2>1, <2>2, <2>3, <2>8
  <2>. QED  BY <1>7, <2>3, <2>5, <2>6, <2>7, <2>8 DEF MgrAddServer
<1>8. ASSUME MgrJoined PROVE AllCounted'
  <2>. DEFINE fm == [fileDBMap EXCEPT ![dbFile[mgr.db]] = NoDB]
  <2>1. PICK c \in Callers : c = mgr.who
    BY <1>8 DEF MgrJoined, Served, Typed
  <2>2. Releasing /\ Serves(c) /\ req[c].op \in {"add", "del"} /\ Joined(mgr.db)
    BY <1>8, <2>1 DEF MgrJoined, Releasing, Serves
  <2>3. ~Gone /\ c = Reactor
    BY <1>8, <2>2, ServesBeforeGone DEF ManagerStep
  <2>4. PICK l \in Labels : l = req[c].label
    BY ServedTyped DEF Typed
  <2>5. Left(fm, servers) /\ Removed(l, fm, servers)
    BY <2>2, <2>3, <2>4, LeftOnJoin, RemovedLast
  <2>6. mgr.db \in Workers /\ LetGo(mgr.db)
    BY <2>2, <2>3 DEF AllCounted, Opened, Released1
  <2>. HIDE DEF fm
  <2>7. CASE req[c].op = "add" /\ req[c].file # MainFile /\ BindFile(c, fm, servers) /\ UNCHANGED stopping
    <3>1. serverDBMap[l] # Main
      BY <2>3, <2>4, <2>6, <2>7 DEF LetGo, Workers
    <3>2. pc[c] = "mwait" /\ reply[c] = "none"
      BY <2>2, CallWaits
    <3>3. req[c].file \notin BrokenFiles
      BY <2>3, <2>4, <2>7, <3>1, <3>2 DEF NewIfBroken, Pending
    <3>4. \A d \in Workers : Counted(d)'
      BY <2>4, <2>5, <2>7, <3>3, BindCounts
    <3>. QED  BY <1>3, <1>4, <2>7, <3>4, BindAnswers
  <2>8. CASE ~(req[c].op = "add" /\ req[c].file # MainFile) /\ Drop(c, fm, servers) /\ UNCHANGED <<serverDBMap, stopping>>
    <3>1. serverDBMap[l] = Main
      BY <2>3, <2>4, <2>6, <2>8 DEF LetGo
    <3>2. serverDBMap' = [serverDBMap EXCEPT ![l] = Main]
      BY <1>1, <2>8, <3>1
    <3>3. \A d \in Workers : Counted(d)'
      BY <2>5, <2>8, <3>2, DropCounts DEF Drop
    <3>. QED  BY <1>3, <1>4, <2>8, <3>3 DEF Drop
  <2>. QED  BY <1>8, <2>1, <2>7, <2>8 DEF MgrJoined, fm
<1>9. ASSUME NEW d \in DBs, MgrShutdownStop(d) PROVE AllCounted'
  <2>1. /\ UNCHANGED <<dbFile, servers>> /\ mgr'.pc = "join" /\ mgr'.db = d /\ mgr'.who = mgr.who
        /\ req[mgr.who].op = "shutdown" /\ mgr.pc = "next"
    BY <1>1, <1>9 DEF MgrShutdownStop, MgrType
  <2>2. ~Releasing' /\ ~Releasing /\ Shutting'
    BY <1>2, <2>1 DEF Releasing, Shutting
  <2>3. CASE d = Main
    BY <2>1, <2>2, <2>3 DEF Gone, AllCounted
  <2>4. CASE d # Main
    BY <1>2, <1>9, <2>1, <2>2, <2>4, QuietKeepsCounted DEF MgrShutdownStop
  <2>. QED  BY <2>3, <2>4
<1>10. ASSUME UNCHANGED <<mapVars, stopping>>, ~Releasing, ~Releasing', Shutting => Shutting' \/ Gone' PROVE AllCounted'
  BY <1>2, <1>10, QuietKeepsCounted DEF mapVars
<1>11. CASE MgrShutdownJoined
  <2>1. UNCHANGED <<mapVars, stopping>> /\ mgr.pc = "join" /\ req[mgr.who].op = "shutdown"
    BY <1>11 DEF MgrShutdownJoined
  <2>2. CASE mgr.db # Main /\ mgr' = [mgr EXCEPT !.pc = "next"]
    <3>1. mgr'.pc = "next" /\ mgr'.who = mgr.who
      BY <1>1, <2>2 DEF MgrType
    <3>. QED  BY <1>2, <1>10, <2>1, <3>1 DEF Releasing, Shutting
  <2>3. CASE mgr.db = Main /\ Answer(mgr.who, "ok")
    <3>1. Gone
      BY <2>1, <2>3 DEF Gone, Shutting
    <3>. QED  BY <1>2, <1>3, <1>10, <2>1, <2>3, <3>1 DEF Releasing
  <2>. QED  BY <1>11, <2>2, <2>3 DEF MgrShutdownJoined
<1>12. ASSUME MgrCommitted \/ MgrEnd \/ (\E c \in Callers : MgrVisit(c) \/ MgrGetDB(c)) \/ \E d \in DBs : MgrCommitVisit(d)
       PROVE  AllCounted'
  <2>1. DOMAIN mgr = {"pc", "who", "db", "todo"}
    BY <1>1 DEF MgrType
  <2>2. UNCHANGED <<mapVars, stopping>> /\ ~Releasing /\ ~Shutting
    BY <1>12 DEF MgrCommitted, MgrEnd, MgrVisit, MgrGetDB, MgrCommitVisit, Serving, Releasing, Shutting
  <2>3. CASE MgrCommitted \/ MgrEnd
    <3>1. mgr'.pc # "join"
      BY <2>1, <2>3 DEF MgrCommitted, MgrEnd, FreeMgr
    <3>. QED  BY <1>10, <2>2, <3>1 DEF Releasing
  <2>4. ASSUME NEW c \in Callers, MgrVisit(c) \/ MgrGetDB(c) PROVE AllCounted'
    BY <1>3, <1>10, <2>2, <2>4 DEF MgrVisit, MgrGetDB, Releasing
  <2>5. ASSUME NEW d \in DBs, MgrCommitVisit(d) PROVE AllCounted'
    <3>1. mgr'.pc # "join" \/ Answer(mgr.who, "error")
      BY <2>1, <2>5 DEF MgrCommitVisit
    <3>. QED  BY <1>3, <1>10, <2>2, <3>1 DEF Releasing
  <2>. QED  BY <1>12, <2>3, <2>4, <2>5
<1>. QED  BY <1>6, <1>7, <1>8, <1>9, <1>11, <1>12 DEF ManagerStep

LEMMA CountedStep == ServiceInv /\ Opened /\ AllCounted /\ NewIfBroken /\ [Next]_vars => AllCounted'
<1>. SUFFICES ASSUME ServiceInv, Opened, AllCounted, NewIfBroken, [Next]_vars PROVE AllCounted'
  OBVIOUS
<1>. USE DEF ServiceInv
<1>1. Gone => Gone'
  BY GoneStays
<1>2. CASE \/ \E c \in Callers : (\E r \in Calls[c] : StartCall(c, r)) \/ Caller(c)
           \/ \E d \in DBs : Worker(d)
  <2>1. UNCHANGED <<mgr, serverDBMap, fileDBMap, dbFile, servers, stopping>>
    BY <1>2, OthersLeaveReactor
  <2>2. CASE Releasing \/ Shutting
    <3>1. mgr.who = Reactor /\ UNCHANGED req[Reactor]
      BY <1>2, <2>2, ReactorServed, OthersLeaveReactor
    <3>. QED  BY <1>1, <2>1, <3>1, QuietKeepsCounted DEF Releasing, Shutting
  <2>3. CASE ~(Releasing \/ Shutting)
    <3>1. ~Releasing'
      <4>1. CASE mgr.pc = "join"
        <5>1. PICK c \in Callers : c = mgr.who
          BY <4>1 DEF Typed, Served
        <5>2. req[c].op \in {"add", "del", "shutdown"}
          BY <4>1, <5>1 DEF Queues, AtManager
        <5>. QED  BY <2>3, <4>1, <5>1, <5>2 DEF Releasing, Shutting
      <4>2. CASE mgr.pc # "join"
        BY <2>1, <4>2 DEF Releasing
      <4>. QED  BY <4>1, <4>2
    <3>. QED  BY <1>1, <2>1, <2>3, <3>1, QuietKeepsCounted
  <2>. QED  BY <2>2, <2>3
<1>3. CASE UNCHANGED vars
  BY <1>1, <1>3, QuietKeepsCounted DEF vars, Releasing, Shutting
<1>. QED  BY <1>2, <1>3, CountedManager DEF Next

LEMMA NewIfBrokenStep == ASSUME ~RemapBroken PROVE ServiceInv /\ NewIfBroken /\ [Next]_vars => NewIfBroken'
<1>. SUFFICES ASSUME ServiceInv, NewIfBroken, [Next]_vars PROVE NewIfBroken'
  OBVIOUS
<1>. USE DEF ServiceInv
<1>0. MainFile \notin BrokenFiles
  BY ConstantsAssumption DEF ConstantsAssumption
<1>1. ASSUME Pending' => Pending, UNCHANGED <<serverDBMap, req[Reactor]>> PROVE NewIfBroken'
  BY <1>1 DEF NewIfBroken
<1>2. ASSUME NEW c \in Callers, (\E r \in Calls[c] : StartCall(c, r)) \/ Caller(c) PROVE NewIfBroken'
  <2>1. CASE c # Reactor
    <3>1. UNCHANGED <<pc[Reactor], req[Reactor], reply[Reactor], serverDBMap>>
      BY <1>2, <2>1, CallerRequests, ReactorTyped, OthersLeaveReactor
    <3>. QED  BY <1>1, <3>1 DEF Pending
  <2>2. CASE c = Reactor
    <3>1. /\ pc \in [Callers -> {"idle", "put", "mwait", "submit", "dwait", "stop", "join"}]
          /\ req \in [Callers -> Requests] /\ reply \in [Callers \cup {Manager} -> {"none", "ok", "error"}]
      BY DEF Typed, TypeOK, TypeCallers
    <3>2. ASSUME NEW r \in Calls[c], StartCall(c, r) PROVE NewIfBroken'
      <4>1. req'[Reactor] = r /\ UNCHANGED serverDBMap /\ MayRequest(c, r)
        BY <2>2, <3>1, <3>2 DEF StartCall, mapVars
      <4>. QED  BY <4>1 DEF MayRequest, NewIfBroken
    <3>3. CASE Caller(c)
      <4>1. UNCHANGED <<serverDBMap, req>>
        BY <3>3 DEF Caller, PutCall, GetCallResult, StopManager, JoinManager, Submit, GetResult, mapVars
      <4>2. Pending' => Pending
        BY <2>2, <3>1, <3>3 DEF Caller, PutCall, GetCallResult, StopManager, JoinManager, Submit, GetResult, Pending
      <4>. QED  BY <1>1, <4>1, <4>2
    <3>. QED  BY <1>2, <3>2, <3>3
  <2>. QED  BY <2>1, <2>2
<1>3. ASSUME NEW d \in DBs, Worker(d) PROVE NewIfBroken'
  <2>1. UNCHANGED <<pc, req, serverDBMap>>
    BY <1>3, WorkerLeaves
  <2>2. CASE pc[Reactor] = "mwait" /\ reply[Reactor] # "none"
    <3>1. UNCHANGED reply[Reactor]
      <4>1. ASSUME thread[d] = "busy", NEW r \in {"ok", "error"}, Respond(d, r) PROVE UNCHANGED reply[Reactor]
        <5>1. CASE job[d].who \in Callers
          BY <2>2, <4>1, <5>1, RespondTo, ReactorTyped
        <5>2. CASE job[d].who \notin Callers
          BY <4>1, <5>2, RespondToManager, ReactorTyped
        <5>. QED  BY <5>1, <5>2
      <4>. QED  BY <1>3, <4>1, WorkerStores DEF AnswersNoWrite, AnswersWritten
    <3>. QED  BY <1>1, <2>1, <3>1 DEF Pending
  <2>3. CASE ~(pc[Reactor] = "mwait" /\ reply[Reactor] # "none")
    BY <1>1, <2>1, <2>3 DEF Pending
  <2>. QED  BY <2>2, <2>3
<1>4. CASE ManagerStep
  <2>1. UNCHANGED <<pc, req>> /\ (Pending' => Pending)
    BY <1>4, ManagerPasses, StepIsManagers, ReactorTyped DEF Pending
  <2>2. CASE UNCHANGED serverDBMap
    BY <1>1, <2>1, <2>2
  <2>3. ASSUME NEW c \in Callers, Takes(c) \/ Serves(c), NEW r \in {"ok", "error"}, Answer(c, r),
               req[c].op \in {"add", "del"}
        PROVE  NewIfBroken'
    <3>1. c = Reactor /\ pc[c] = "mwait"
      BY <1>4, <2>3, ServesBeforeGone, CallWaits
    <3>2. reply'[c] # "none"
      BY <2>3, AnswerGiven DEF AnswersCall
    <3>. QED  BY <2>1, <3>1, <3>2 DEF NewIfBroken, Pending
  <2>4. ASSUME NEW c \in Callers, MgrDelServer(c) PROVE NewIfBroken'
    <3>1. Takes(c) /\ req[c].op \in {"add", "del"} /\ (req[c].op = "add" => req[c].file = MainFile)
      BY <2>4 DEF MgrDelServer, Serving, Takes
    <3>2. c = Reactor
      BY <1>4, <3>1, ServesBeforeGone
    <3>. QED  BY <1>0, <2>1, <3>1, <3>2 DEF NewIfBroken
  <2>5. ASSUME NEW c \in Callers, MgrAddServer(c) PROVE NewIfBroken'
    <3>1. Takes(c) /\ req[c].op = "add"
      BY <2>5 DEF MgrAddServer, Serving, Takes
    <3>2. UNCHANGED serverDBMap \/ \E r \in {"ok", "error"} : Answer(c, r)
      BY <2>5, BindAnswers DEF MgrAddServer, mapVars
    <3>. QED  BY <2>2, <2>3, <3>1, <3>2
  <2>6. CASE MgrJoined
    <3>1. PICK c \in Callers : c = mgr.who
      BY <2>6 DEF MgrJoined, Served, Typed
    <3>2. Serves(c) /\ req[c].op \in {"add", "del"} /\ \E r \in {"ok", "error"} : Answer(c, r)
      BY <2>6, <3>1, BindAnswers DEF MgrJoined, Serves, Drop
    <3>. QED  BY <2>3, <3>2
  <2>7. ASSUME NEW d \in DBs, MgrShutdownStop(d) PROVE NewIfBroken'
    <3>1. mgr.who = Reactor /\ req[Reactor].op = "shutdown"
      BY <2>7, ReactorServed DEF MgrShutdownStop, Shutting
    <3>. QED  BY <2>1, <3>1 DEF NewIfBroken
  <2>8. CASE MgrShutdownJoined \/ MgrCommitted \/ MgrEnd \/ (\E c \in Callers : MgrVisit(c) \/ MgrGetDB(c))
             \/ \E d \in DBs : MgrCommitVisit(d)
    BY <2>2, <2>8 DEF MgrShutdownJoined, MgrCommitted, MgrEnd, MgrVisit, MgrGetDB, MgrCommitVisit, mapVars
  <2>. QED  BY <1>4, <2>4, <2>5, <2>6, <2>7, <2>8 DEF ManagerStep
<1>5. CASE UNCHANGED vars
  BY <1>1, <1>5 DEF vars, Pending
<1>. QED  BY <1>2, <1>3, <1>4, <1>5 DEF Next

LEMMA CountedInit == Init => AllCounted /\ NewIfBroken
<1>. SUFFICES ASSUME Init PROVE AllCounted /\ NewIfBroken
  OBVIOUS
<1>1. ASSUME NEW d \in Workers PROVE Counted(d) /\ ~Releasing
  <2>1. d \in DBs /\ d # Main /\ d # NoDB
    BY Numbers DEF Workers
  <2>2. LabelsOf(d) = {}
    BY <2>1 DEF Init, LabelsOf
  <2>3. servers[d] = 0 /\ \A f \in Files : fileDBMap[f] # d
    BY <2>1 DEF Init
  <2>4. ~Releasing
    BY DEF Init, FreeMgr, Releasing
  <2>. QED  BY <2>2, <2>3, <2>4, FS_EmptySet DEF Counted
<1>2. NewIfBroken
  BY ReactorTyped DEF Init, NewIfBroken, Pending
<1>. QED  BY <1>1, <1>2 DEF AllCounted

LEMMA CountedAgrees == Bindings /\ Opened /\ AllCounted => WorkersAgree
<1>. SUFFICES ASSUME Bindings, Opened, AllCounted, mgr.pc = "get", ~ShutDown PROVE MapsAgree
  BY DEF WorkersAgree, MapsAgree, Opened
<1>1. ASSUME NEW d \in Workers
      PROVE  /\ servers[d] = Cardinality({l \in Labels : serverDBMap[l] = d})
             /\ d \in Mapped => thread[d] # "none" /\ ~stopping[d]
             /\ \A f \in Files : fileDBMap[f] = d <=> d \in Mapped /\ dbFile[d] = f
  <2>1. ~Gone /\ ~Releasing /\ ~Shutting
    BY DEF Gone, Releasing, Shutting
  <2>2. Counted(d)
    BY <2>1 DEF AllCounted
  <2>3. d \in Mapped <=> LabelsOf(d) # {}
    BY DEF Mapped, LabelsOf, Workers
  <2>4. d \in Mapped => thread[d] # "none"
    BY <2>3 DEF LabelsOf, Bindings, Born
  <2>5. d \in Mapped => ~stopping[d]
    BY <2>1, <2>2, <2>3 DEF Counted
  <2>6. servers[d] = Cardinality({l \in Labels : serverDBMap[l] = d})
    BY <2>2 DEF Counted, LabelsOf
  <2>7. \A f \in Files : fileDBMap[f] = d <=> d \in Mapped /\ dbFile[d] = f
    BY <2>2, <2>3 DEF Counted
  <2>. QED  BY <2>4, <2>5, <2>6, <2>7
<1>. QED  BY <1>1 DEF MapsAgree, Workers

\* Whatever addServer, delServer and moves are made, of labels that share files,
\* every label is served by a running worker, the counts are the labels mapped
\* and fileDBMap lists just the mapped - provided no label that is mapped is
\* moved to a file DBaccess() raises for.
THEOREM WorkersAlwaysAgree == ASSUME ~RemapBroken PROVE Spec => []WorkersAgree
<1>1. Init /\ [][Next]_vars => []ServiceInv
  BY ServiceInit, ServiceStep, PTL
<1>2. ServiceInv /\ NewIfBroken /\ [Next]_vars => NewIfBroken'
  BY NewIfBrokenStep
<1>3. Init => Opened /\ AllCounted /\ NewIfBroken
  BY OpenedInit, CountedInit
<1>4. ServiceInv /\ (Opened /\ AllCounted /\ NewIfBroken) /\ [Next]_vars => (Opened /\ AllCounted /\ NewIfBroken)'
  BY <1>2, OpenedStep, CountedStep
<1>5. ServiceInv /\ Opened /\ AllCounted => WorkersAgree
  BY CountedAgrees DEF ServiceInv
<1>. QED  BY <1>1, <1>3, <1>4, <1>5, PTL DEF Spec
=============================================================================
