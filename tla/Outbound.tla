------------------------------ MODULE Outbound ------------------------------
(***************************************************************************)
(* How a handler's call of a bot method reaches a connection: Container's   *)
(* __getattr__, _queuer, _setBotinst and _checkQueue (util/container.py)     *)
(* with the connections of BurlyBotFactory (util/client.py), one at a time.  *)
(*                                                                         *)
(* A handler takes a method (bot.sendmsg) and calls it then or later, as     *)
(* Container.later and send_and_wait do with the method they are given.  A   *)
(* call is one line here; a connection sends its lines as LineQueue says,    *)
(* which Throttle implements.                                               *)
(***************************************************************************)
EXTENDS Naturals, Sequences

CONSTANTS Handlers,
          Raising,        \* calls that raise in the reactor (their arguments)
          MaxCalls,       \* bound: calls of a handler
          MaxConns        \* bound: connections

ASSUME OutboundAssumption ==
  MaxCalls \in Nat /\ MaxConns \in Nat /\ Raising \subseteq Handlers \X (1..MaxCalls)

Msg == Handlers \X (1..MaxCalls)
Conn == 1..MaxConns

VARIABLES
  pc, to, made, \* handler: where it stands, the route its method is bound to, calls made
  calls,        \* reactor.callFromThread's queue
  conn, open,   \* the last connection, and whether it is open
  botinst,      \* Container._botinst
  outqueue,     \* Container._outqueue
  checks,       \* delayed calls of _checkQueue pending
  given,        \* lines each connection was given (history)
  failed        \* calls that ended in an exception (history)

handlerVars == <<pc, to, made>>
connVars == <<conn, open, botinst>>
outboundVars == <<handlerVars, calls, connVars, outqueue, checks, given, failed>>

None == 0                 \* no connection; as a route, the outqueue

OutboundInit ==
  /\ pc = [h \in Handlers |-> "idle"]
  /\ to = [h \in Handlers |-> None]
  /\ made = [h \in Handlers |-> 0]
  /\ calls = <<>>
  /\ conn = None /\ open = FALSE /\ botinst = None
  /\ outqueue = <<>> /\ checks = 0
  /\ given = [c \in Conn |-> <<>>]
  /\ failed = {}

----------------------------------------------------------------------------
(* A handler's thread.                                                     *)

\* the first read of _botinst
Look(h) ==
  /\ pc[h] = "idle" /\ made[h] < MaxCalls
  /\ to' = [to EXCEPT ![h] = None]
  /\ pc' = [pc EXCEPT ![h] = IF botinst = None THEN "taken" ELSE "looked"]
  /\ UNCHANGED <<made, calls, connVars, outqueue, checks, given, failed>>

\* the second: the method of whatever it is by now, None's included
Bind(h) ==
  /\ pc[h] = "looked"
  /\ IF botinst # None
     THEN /\ to' = [to EXCEPT ![h] = botinst]
          /\ pc' = [pc EXCEPT ![h] = "taken"]
          /\ UNCHANGED <<made, failed>>
     ELSE /\ made' = [made EXCEPT ![h] = @ + 1]
          /\ failed' = failed \cup {<<h, made[h] + 1>>}
          /\ pc' = [pc EXCEPT ![h] = "idle"]
          /\ UNCHANGED to
  /\ UNCHANGED <<calls, connVars, outqueue, checks, given>>

\* the call itself: callFromThread of the method, or of _queuer
Invoke(h) ==
  /\ pc[h] = "taken"
  /\ made' = [made EXCEPT ![h] = @ + 1]
  /\ calls' = Append(calls, [to |-> to[h], msg |-> <<h, made[h] + 1>>])
  /\ pc' = [pc EXCEPT ![h] = "idle"]
  /\ UNCHANGED <<to, connVars, outqueue, checks, given, failed>>

----------------------------------------------------------------------------
(* The reactor's thread.                                                   *)

\* a line in given, with the way it came (history)
AsLine(m, route) == [msg |-> m, by |-> route]

\* A bot method of connection c, run in the reactor.
Perform(c, m, route) ==
  IF m \in Raising THEN failed' = failed \cup {m} /\ UNCHANGED given
  ELSE given' = [given EXCEPT ![c] = Append(@, AsLine(m, route))] /\ UNCHANGED failed

RunCall ==
  /\ calls # <<>>
  /\ calls' = Tail(calls)
  /\ LET c == Head(calls).to  m == Head(calls).msg IN
     \/ c # None /\ Perform(c, m, "direct") /\ UNCHANGED outqueue
     \/ /\ c = None
        /\ outqueue' = Append(outqueue, m)
        /\ UNCHANGED <<given, failed>>
  /\ UNCHANGED <<handlerVars, connVars, checks>>

\* the loop gets through n queued calls: none of them raises, and the next one does
GetsThrough(n) ==
  /\ \A i \in 1..n : outqueue[i] \notin Raising
  /\ n < Len(outqueue) => outqueue[n + 1] \in Raising
Handed(n) == [i \in 1..n |-> AsLine(outqueue[i], "queued")]

\* Mutant: the queue is read and not emptied.
CheckKeepingQueue ==
  /\ checks > 0
  /\ given' = IF botinst = None THEN given
              ELSE [given EXCEPT ![botinst] = @ \o Handed(Len(outqueue))]
  /\ checks' = checks - 1
  /\ UNCHANGED <<handlerVars, calls, connVars, outqueue, failed>>

\* Mutant: checks on one call at a time, and not again.
CheckOne ==
  /\ checks > 0 /\ checks' = checks - 1
  /\ IF botinst = None \/ outqueue = <<>> THEN UNCHANGED <<outqueue, given, failed>>
     ELSE Perform(botinst, Head(outqueue), "queued") /\ outqueue' = Tail(outqueue)
  /\ UNCHANGED <<handlerVars, calls, connVars>>

\* _checkQueue: the whole queue, up to a call that raises; another check if any
\* was made and none raised.
CheckQueue ==
  /\ checks > 0
  /\ \/ /\ botinst = None \/ outqueue = <<>>
        /\ checks' = checks - 1
        /\ UNCHANGED <<outqueue, given, failed>>
     \/ /\ botinst # None /\ outqueue # <<>>
        /\ \E n \in 0..Len(outqueue) :
             /\ GetsThrough(n)
             /\ given' = [given EXCEPT ![botinst] = @ \o Handed(n)]
             /\ outqueue' = SubSeq(outqueue, n + 2, Len(outqueue))
             /\ IF n = Len(outqueue) THEN UNCHANGED <<checks, failed>>
                ELSE checks' = checks - 1 /\ failed' = failed \cup {outqueue[n + 1]}
  /\ UNCHANGED <<handlerVars, calls, connVars>>

\* buildProtocol: one connection at a time
Connect ==
  /\ ~open /\ conn < MaxConns
  /\ conn' = conn + 1 /\ open' = TRUE
  /\ UNCHANGED <<handlerVars, calls, botinst, outqueue, checks, given, failed>>

\* signedOn
SignedOn ==
  /\ open /\ botinst = None
  /\ botinst' = conn /\ checks' = checks + 1
  /\ UNCHANGED <<handlerVars, calls, conn, open, outqueue, given, failed>>

\* connectionLost, before or after signedOn
ConnectionLost ==
  /\ open
  /\ open' = FALSE /\ botinst' = None /\ checks' = checks + 1
  /\ UNCHANGED <<handlerVars, calls, conn, outqueue, given, failed>>

OutboundNext == \/ \E h \in Handlers : Look(h) \/ Bind(h) \/ Invoke(h)
        \/ RunCall \/ CheckQueue \/ Connect \/ SignedOn \/ ConnectionLost

\* The reactor runs what is due; handlers and the network owe nothing.
OutboundFairness == WF_outboundVars(RunCall) /\ WF_outboundVars(CheckQueue)
OutboundSpec == OutboundInit /\ [][OutboundNext]_outboundVars /\ OutboundFairness

----------------------------------------------------------------------------
(* Properties.                                                             *)

\* The values the variables range over.
OutboundTypeOK ==
  /\ pc \in [Handlers -> {"idle", "looked", "taken"}]
  /\ to \in [Handlers -> Conn \cup {None}]
  /\ made \in [Handlers -> 0..MaxCalls]
  /\ calls \in Seq([to : Conn \cup {None}, msg : Msg])
  /\ conn \in Conn \cup {None} /\ open \in BOOLEAN
  /\ botinst \in {None, conn} /\ (botinst # None => open)
  /\ outqueue \in Seq(Msg) /\ checks \in Nat
  /\ given \in [Conn -> Seq([msg : Msg, by : {"direct", "queued"}])]
  /\ failed \subseteq Msg

\* A call that was made is in one place, once: among the reactor's calls, in the
\* outqueue, with one connection, or it raised.  Connecting, losing connections
\* and checking the queue neither lose nor repeat one (__getattr__, _checkQueue).
Places(m) ==
  {<<"calls", None, i>> : i \in {j \in 1..Len(calls) : calls[j].msg = m}}
  \cup {<<"outqueue", None, i>> : i \in {j \in 1..Len(outqueue) : outqueue[j] = m}}
  \cup {<<"failed", None, 0>> : f \in failed \cap {m}}
  \cup (UNION {{<<"given", c, i>> : i \in {j \in 1..Len(given[c]) : given[c][j].msg = m}}
                : c \in Conn})
InOnePlace ==
  \A m \in Msg : IF m[2] <= made[m[1]] THEN \E p \in Places(m) : Places(m) = {p}
                                       ELSE Places(m) = {}

\* The calls of a handler that went the same way, bound to the connection or
\* through the outqueue, reach a connection in the order it made them.  (One that
\* was queued is overtaken by a later one that was bound: they need not agree.)
SameRouteInOrder ==
  \A c \in Conn : \A i, j \in 1..Len(given[c]) :
    LET x == given[c][i]  y == given[c][j] IN
    i < j /\ x.by = y.by /\ x.msg[1] = y.msg[1] => x.msg[2] < y.msg[2]

\* The whole of it: whatever connects, is lost or is checked meanwhile, every call of
\* a bot method that was made is in one place, and those that went the same way are in
\* the order their handler made them.
CallsKeepOrder == OutboundTypeOK /\ InOnePlace /\ SameRouteInOrder

\* What waits in the outqueue while a check is pending is handed to the connection
\* as long as it lasts and no call raises (_checkQueue).
BacklogLeaves ==
  outqueue # <<>> /\ checks > 0
    ~> outqueue = <<>> \/ botinst = None \/ failed \cap Raising # {}

\* What the comment in _setBotinst says, "keep checking this outqueue 2 seconds
\* later if there is still elements left", and the one on later(), that bot methods
\* "are safe to pass": what waits while the bot is signed on is sent.
QueuedIsSent ==
  outqueue # <<>> /\ botinst # None ~> outqueue = <<>> \/ botinst = None
============================================================================
