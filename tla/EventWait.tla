----------------------------- MODULE EventWait -----------------------------
(***************************************************************************)
(* Container.send_and_wait (util/container.py) and the wait map of the      *)
(* dispatcher (util/dispatcher.py): a handler thread registers for events,  *)
(* sends, and iterates over what comes back, while the reactor thread runs  *)
(* the queued calls and dispatches events one after the other.              *)
(*                                                                         *)
(* Time is counted in half seconds, the timeout of the generator's get().   *)
(* A step of a handler or of the reactor takes none of it.                  *)
(***************************************************************************)
EXTENDS Naturals, Sequences, SequencesExt

CONSTANTS Waiters,
          Kinds,            \* event types
          Interested,       \* waiter -> kinds of its interestede, {NoKind} for None
          Stops,            \* waiter -> kinds of its stope
          NoKind,
          Nobody,           \* whom an event is about that answers no waiter
          Timeout,          \* bound: the timeout of every waiter
          MaxEvents,        \* bound: events dispatched
          LastStart,        \* bound: no wait begins later
          MaxTime           \* bound: the clock

ASSUME WaitAssumption ==
  /\ NoKind \notin Kinds /\ Nobody \notin Waiters
  /\ Interested \in [Waiters -> SUBSET (Kinds \cup {NoKind})]
  /\ Stops \in [Waiters -> SUBSET (Kinds \cup {NoKind})]
  /\ \A w \in Waiters : Interested[w] \cup Stops[w] # {}    \* WaitData's check
  /\ Timeout \in Nat /\ MaxEvents \in Nat /\ MaxTime \in Nat
  /\ LastStart \in Nat

VARIABLES
  calls,      \* reactor.callFromThread's queue of <<function, waiter>>
  waitmap,    \* kind -> waiters; an absent key is an empty set
  disp,       \* the dispatchEvent under way: [left, put, ended]
  wq, done,   \* WaitData.q and WaitData.done
  pc,         \* where each generator stands
  since,      \* when its get() began
  expired,    \* when its timeout is over
  connected,  \* _botinst is set
  now,
  log,        \* the events dispatched: [kind, about], about whom they are
  from, upto, \* the span of log a waiter was registered for (history)
  got,        \* the events its consumer was given (history)
  outcome     \* how its generator ended (history)

genVars == <<pc, since, expired, got, outcome>>
vars == <<calls, waitmap, disp, wq, done, pc, since, expired, connected, now, log,
          from, upto, got, outcome>>

NoDispatch == [left |-> {}, put |-> {}, ended |-> {}, busy |-> FALSE]
Open == MaxEvents + 1     \* upto of a waiter still registered
Never == MaxEvents + 2    \* from of a waiter never registered

Init ==
  /\ calls = <<>>
  /\ waitmap = [k \in Kinds \cup {NoKind} |-> {}]
  /\ disp = NoDispatch
  /\ wq = [w \in Waiters |-> <<>>]
  /\ done = [w \in Waiters |-> FALSE]
  /\ pc = [w \in Waiters |-> "idle"]
  /\ since = [w \in Waiters |-> 0]
  /\ expired = [w \in Waiters |-> 0]
  /\ connected \in BOOLEAN
  /\ now = 0
  /\ log = <<>>
  /\ from = [w \in Waiters |-> Never]
  /\ upto = [w \in Waiters |-> Open]
  /\ got = [w \in Waiters |-> <<>>]
  /\ outcome = [w \in Waiters |-> "none"]

Move(w, to) == pc' = [pc EXCEPT ![w] = to]
Call(f, w) == calls' = Append(calls, <<f, w>>)
End(w, how) == Move(w, "cleanup") /\ outcome' = [outcome EXCEPT ![w] = how]

reactorVars == <<waitmap, disp, done, connected, now, log, from, upto>>

----------------------------------------------------------------------------
(* The generator, in the handler's thread.                                 *)

Start(w) ==
  /\ pc[w] = "idle" /\ now <= LastStart
  /\ expired' = [expired EXCEPT ![w] = now + Timeout]
  /\ Move(w, "connecting")
  /\ UNCHANGED <<reactorVars, calls, wq, since, got, outcome>>

\* while not self._botinst: nothing is registered yet, nothing to clean up
AwaitBot(w) ==
  /\ pc[w] = "connecting"
  /\ \/ connected /\ Move(w, "register") /\ UNCHANGED outcome
     \/ /\ ~connected /\ expired[w] < now
        /\ Move(w, "finished")
        /\ outcome' = [outcome EXCEPT ![w] = "timeout"]
  /\ UNCHANGED <<reactorVars, calls, wq, since, expired, got>>

\* Mutant: the order of the two calls is swapped.
SendFirst(w) ==
  /\ \/ pc[w] = "register" /\ Call("send", w) /\ Move(w, "send")
     \/ pc[w] = "send" /\ Call("add", w) /\ Move(w, "loop")
  /\ UNCHANGED <<reactorVars, wq, since, expired, got, outcome>>

\* addWaitData is queued before f is called
RegisterAndSend(w) ==
  /\ \/ pc[w] = "register" /\ Call("add", w) /\ Move(w, "send")
     \/ pc[w] = "send" /\ Call("send", w) /\ Move(w, "loop")
  /\ UNCHANGED <<reactorVars, wq, since, expired, got, outcome>>

\* while not wd.done
Loop(w) ==
  /\ pc[w] = "loop"
  /\ \/ done[w] /\ Move(w, "drain") /\ UNCHANGED since
     \/ ~done[w] /\ Move(w, "get") /\ since' = [since EXCEPT ![w] = now]
  /\ UNCHANGED <<reactorVars, calls, wq, expired, got, outcome>>

\* One yield and what the handler's for loop does with it (adminfuncs.py): it
\* breaks at the event about what it sent, which closes the generator, and
\* passes over the others.
Yield(w, back) ==
  /\ wq[w] # <<>>
  /\ wq' = [wq EXCEPT ![w] = Tail(@)]
  /\ got' = [got EXCEPT ![w] = Append(@, Head(wq[w]))]
  /\ IF log[Head(wq[w])].about = w THEN End(w, "found")
                                   ELSE Move(w, back) /\ UNCHANGED outcome

GetItem(w) ==
  /\ pc[w] = "get"
  /\ Yield(w, "loop")
  /\ UNCHANGED <<reactorVars, calls, since, expired>>

\* Mutant: each get() gets the whole timeout again.
GetEmptyAgain(w) ==
  /\ pc[w] = "get" /\ wq[w] = <<>> /\ now > since[w]
  /\ Move(w, "loop") /\ expired' = [expired EXCEPT ![w] = now + Timeout]
  /\ UNCHANGED <<reactorVars, calls, wq, since, got, outcome>>

\* except Empty: the only place the timeout is looked at
GetEmpty(w) ==
  /\ pc[w] = "get" /\ wq[w] = <<>> /\ now > since[w]
  /\ IF expired[w] < now THEN End(w, "timeout")
                         ELSE Move(w, "loop") /\ UNCHANGED outcome
  /\ UNCHANGED <<reactorVars, calls, wq, since, expired, got>>

Drain(w) ==
  /\ pc[w] = "drain"
  /\ \/ Yield(w, "drain")
     \/ wq[w] = <<>> /\ End(w, "returned") /\ UNCHANGED <<wq, got>>
  /\ UNCHANGED <<reactorVars, calls, since, expired>>

\* finally: delWaitData
Cleanup(w) ==
  /\ pc[w] = "cleanup"
  /\ Call("del", w) /\ Move(w, "finished")
  /\ UNCHANGED <<reactorVars, wq, since, expired, got, outcome>>

Generator(w) == \/ AwaitBot(w) \/ RegisterAndSend(w) \/ Loop(w) \/ GetItem(w)
                \/ GetEmpty(w) \/ Drain(w) \/ Cleanup(w)

----------------------------------------------------------------------------
(* The reactor thread.                                                     *)

\* Mutant: only the kinds of interest are looked up.
WithoutInterest(w) ==
  [k \in DOMAIN waitmap |-> IF k \in Interested[w] THEN waitmap[k] \ {w} ELSE waitmap[k]]

Without(w) == [k \in DOMAIN waitmap |-> waitmap[k] \ {w}]

\* delWaitData
Unregister(w) ==
  /\ waitmap' = Without(w)
  /\ upto' = [upto EXCEPT ![w] = IF @ = Open THEN Len(log) ELSE @]

\* The next callFromThread; the network alone hears of a send.
RunCall ==
  /\ calls # <<>> /\ ~disp.busy
  /\ calls' = Tail(calls)
  /\ LET w == Head(calls)[2] IN
     \/ /\ Head(calls)[1] = "add"
        /\ waitmap' = [k \in DOMAIN waitmap |->
                         IF k \in Interested[w] \cup Stops[w] THEN waitmap[k] \cup {w}
                                                              ELSE waitmap[k]]
        /\ from' = [from EXCEPT ![w] = Len(log)]
        /\ UNCHANGED upto
     \/ Head(calls)[1] = "del" /\ Unregister(w) /\ UNCHANGED from
     \/ Head(calls)[1] = "send" /\ UNCHANGED <<waitmap, from, upto>>
  /\ UNCHANGED <<genVars, disp, wq, done, connected, now, log>>

\* dispatchEvent: an event from the network, about a waiter's request or none
Dispatch(k, w) ==
  /\ connected /\ ~disp.busy /\ Len(log) < MaxEvents
  /\ log' = Append(log, [kind |-> k, about |-> w])
  /\ disp' = [left |-> waitmap[k], put |-> {}, ended |-> {}, busy |-> TRUE]
  /\ UNCHANGED <<genVars, calls, waitmap, wq, done, connected, now, from, upto>>

Event == log[Len(log)]
Stopped(w) == Event.kind \in Stops[w]

\* Mutant: done is set before the stop event is queued.
DispatchDoneFirst(w) ==
  /\ disp.busy
  /\ \/ /\ w \in disp.left /\ Stopped(w)
        /\ disp' = [disp EXCEPT !.left = @ \ {w}, !.put = @ \cup {w}]
        /\ done' = [done EXCEPT ![w] = TRUE] /\ UNCHANGED wq
     \/ /\ w \in disp.left /\ ~Stopped(w)
        /\ disp' = [disp EXCEPT !.left = @ \ {w}]
        /\ wq' = [wq EXCEPT ![w] = Append(@, Len(log))] /\ UNCHANGED done
     \/ /\ w \in disp.put
        /\ disp' = [disp EXCEPT !.put = @ \ {w}, !.ended = @ \cup {w}]
        /\ wq' = [wq EXCEPT ![w] = Append(@, Len(log))] /\ UNCHANGED done
  /\ UNCHANGED <<genVars, calls, waitmap, connected, now, log, from, upto>>

\* for wd in wdset: the event is queued and only then, at a stop, done is set
DispatchTo(w) ==
  /\ disp.busy
  /\ \/ /\ w \in disp.left /\ disp.put = {}
        /\ wq' = [wq EXCEPT ![w] = Append(@, Len(log))]
        /\ disp' = [disp EXCEPT !.left = @ \ {w}, !.put = IF Stopped(w) THEN {w} ELSE {}]
        /\ UNCHANGED done
     \/ /\ w \in disp.put
        /\ done' = [done EXCEPT ![w] = TRUE]
        /\ disp' = [disp EXCEPT !.put = {}, !.ended = @ \cup {w}]
        /\ UNCHANGED wq
  /\ UNCHANGED <<genVars, calls, waitmap, connected, now, log, from, upto>>

\* for x in remove: delWaitData(x)
DispatchEnd ==
  /\ disp.busy /\ disp.left = {} /\ disp.put = {}
  /\ disp' = NoDispatch
  /\ waitmap' = [k \in DOMAIN waitmap |-> waitmap[k] \ disp.ended]
  /\ upto' = [w \in Waiters |-> IF w \in disp.ended THEN Len(log) ELSE upto[w]]
  /\ UNCHANGED <<genVars, calls, wq, done, connected, now, log, from>>

Reactor == RunCall \/ (\E w \in Waiters : DispatchTo(w)) \/ DispatchEnd

Connect == /\ ~connected /\ connected' = TRUE
           /\ UNCHANGED <<genVars, calls, waitmap, disp, wq, done, now, log, from, upto>>

\* Half a second passes when every generator sleeps.
Asleep(w) ==
  \/ pc[w] \in {"idle", "finished"}
  \/ pc[w] = "connecting" /\ ~connected /\ ~(expired[w] < now)
  \/ pc[w] = "get" /\ wq[w] = <<>> /\ since[w] = now

Tick == /\ now < MaxTime /\ \A w \in Waiters : Asleep(w)
        /\ now' = now + 1
        /\ UNCHANGED <<genVars, calls, waitmap, disp, wq, done, connected, log, from, upto>>

Next == \/ \E w \in Waiters : Start(w) \/ Generator(w)
        \/ Reactor
        \/ \E k \in Kinds, w \in Waiters \cup {Nobody} : Dispatch(k, w)
        \/ Connect \/ Tick

Spec == Init /\ [][Next]_vars

----------------------------------------------------------------------------
(* Properties.                                                             *)

\* The states the variables range over.
TypeOK ==
  /\ calls \in Seq({"add", "send", "del"} \X Waiters)
  /\ waitmap \in [Kinds \cup {NoKind} -> SUBSET Waiters]
  /\ disp \in [left : SUBSET Waiters, put : SUBSET Waiters, ended : SUBSET Waiters,
               busy : BOOLEAN]
  /\ wq \in [Waiters -> Seq(1..MaxEvents)]
  /\ done \in [Waiters -> BOOLEAN]
  /\ pc \in [Waiters -> {"idle", "connecting", "register", "send", "loop", "get",
                         "drain", "cleanup", "finished"}]
  /\ since \in [Waiters -> 0..MaxTime]
  /\ expired \in [Waiters -> 0..(LastStart + Timeout)]
  /\ connected \in BOOLEAN
  /\ now \in 0..MaxTime
  /\ log \in Seq([kind : Kinds, about : Waiters \cup {Nobody}])
  /\ from \in [Waiters -> 0..Never]
  /\ upto \in [Waiters -> 0..Never]
  /\ got \in [Waiters -> Seq(1..MaxEvents)]
  /\ outcome \in [Waiters -> {"none", "found", "returned", "timeout"}]

\* What a waiter has been given and what waits in its queue are exactly the
\* events of its kinds dispatched while it was registered, each once and in their
\* order; the span ends with the stop event (send_and_wait, dispatchEvent,
\* delWaitData).
Wanted(w, i) == log[i].kind \in Interested[w] \cup Stops[w]
Delivered(w) == got[w] \o wq[w]
Span(w) ==
  IF from[w] = Never THEN {}
  ELSE LET last == IF upto[w] # Open THEN upto[w]
                   ELSE IF disp.busy /\ w \in disp.left THEN Len(log) - 1 ELSE Len(log)
       IN {i \in 1..last : i > from[w] /\ Wanted(w, i)}
Increasing(s) == \A i, j \in DOMAIN s : i < j => s[i] < s[j]
DeliveredInOrder ==
  \A w \in Waiters : Increasing(Delivered(w)) /\ ToSet(Delivered(w)) = Span(w)

\* What f sends leaves only after the waiter is registered, so an answer to it
\* cannot be dispatched too early to be seen.
RegisteredBeforeSend ==
  \A i \in 1..Len(calls) : calls[i][1] = "send" =>
    LET w == calls[i][2] IN
    from[w] # Never \/ \E j \in 1..(i - 1) : calls[j] = <<"add", w>>

\* However a generator ends, it ends cleanly: once the reactor has caught up the wait
\* map has forgotten it, and one that returns by itself has given out its stop event,
\* the last (send_and_wait's finally and its last drain, delWaitData).
Forgotten(w) == \A k \in Kinds \cup {NoKind} : w \notin waitmap[k]
EndsCleanly ==
  \A w \in Waiters :
    /\ pc[w] = "finished" /\ calls = <<>> /\ ~disp.busy => Forgotten(w)
    /\ outcome[w] = "returned" => got[w] # <<>> /\ log[Last(got[w])].kind \in Stops[w]

\* A wait is over when the timeout it began with is, but for two half seconds (the last
\* get(), and a connection that came as late as can be) and one for each event it was
\* given, whether a connection or an event comes or not (send_and_wait looks at the time
\* while it has no connection and in `except Empty').
EndsInTime ==
  /\ TypeOK
  /\ \A w \in Waiters : pc[w] \notin {"idle", "finished"} => now <= LastStart + Timeout + 2 + Len(got[w])

\* The comment in send_and_wait: timeout is "run for this long total (never
\* resets on events)".  A half second is the grain of the get().
TimeoutIsTotal == \A w \in Waiters : pc[w] = "get" => now <= expired[w] + 1
============================================================================
