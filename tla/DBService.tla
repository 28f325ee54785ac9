----------------------------- MODULE DBService -----------------------------
(***************************************************************************)
(* What util/db.py promises to the handlers that use it: a request names a  *)
(* network, is bound once to the database file that network is routed to,   *)
(* and is then applied to that file at a single instant, wholly or not at   *)
(* all, at most once.  Threads, queues, locks and transactions are absent.  *)
(***************************************************************************)
EXTENDS Naturals

CONSTANTS Clients,      \* threads that call query() and batch()
          Labels,       \* server labels
          AllFiles,     \* database files, MainFile among them
          MainFile,
          Stmts         \* statements of a batch

VARIABLES route,        \* label -> file
          phase,        \* client -> "idle", "asked", "bound" or "done"
          target,       \* client -> the file its request is bound to
          kind,         \* client -> "query", "batch" or "commit" (a checkpoint)
          asked,        \* client -> number of requests made so far
          stored        \* file -> committed writes <<client, request, stmt>>

svars == <<route, phase, target, kind, asked, stored>>

Writes(c) == {<<c, asked[c], i>> : i \in IF kind[c] = "batch" THEN Stmts ELSE {1}}

Init == /\ route = [l \in Labels |-> MainFile]
        /\ phase = [c \in Clients |-> "idle"]
        /\ target = [c \in Clients |-> MainFile]
        /\ kind = [c \in Clients |-> "query"]
        /\ asked = [c \in Clients |-> 0]
        /\ stored = [f \in AllFiles |-> {}]

Reroute(l, f) == /\ route' = [route EXCEPT ![l] = f]
                 /\ UNCHANGED <<phase, target, kind, asked, stored>>

Close == /\ route' = [l \in Labels |-> MainFile]
         /\ UNCHANGED <<phase, target, kind, asked, stored>>

Ask(c, k) == /\ phase[c] = "idle"
             /\ phase' = [phase EXCEPT ![c] = "asked"]
             /\ kind' = [kind EXCEPT ![c] = k]
             /\ asked' = [asked EXCEPT ![c] = @ + 1]
             /\ UNCHANGED <<route, target, stored>>

Bind(c, l) == /\ phase[c] = "asked" /\ kind[c] # "commit"
              /\ phase' = [phase EXCEPT ![c] = "bound"]
              /\ target' = [target EXCEPT ![c] = route[l]]
              /\ UNCHANGED <<route, kind, asked, stored>>

Apply(c) == /\ phase[c] = "bound"
            /\ phase' = [phase EXCEPT ![c] = "done"]
            /\ stored' = [stored EXCEPT ![target[c]] = @ \cup Writes(c)]
            /\ UNCHANGED <<route, target, kind, asked>>

\* The request fails and leaves no trace in the file.
Fail(c) == /\ phase[c] = "bound"
           /\ phase' = [phase EXCEPT ![c] = "done"]
           /\ UNCHANGED <<route, target, kind, asked, stored>>

\* The caller goes on: with its answer, or refused before anything ran.
Return(c) == /\ phase[c] # "idle"
             /\ phase' = [phase EXCEPT ![c] = "idle"]
             /\ target' = [target EXCEPT ![c] = MainFile]
             /\ UNCHANGED <<route, kind, asked, stored>>

Next == \/ \E l \in Labels, f \in AllFiles : Reroute(l, f)
        \/ Close
        \/ \E c \in Clients :
              \/ \E k \in {"query", "batch", "commit"} : Ask(c, k)
              \/ \E l \in Labels : Bind(c, l)
              \/ Apply(c) \/ Fail(c) \/ Return(c)

Spec == Init /\ [][Next]_svars
============================================================================
