-------------------------- MODULE WebhookListener --------------------------
(***************************************************************************)
(* util/webhook.py and pyburlybot_modules/webhook.py: the one listening     *)
(* port of the process, claimed and released by module reloads, and what    *)
(* becomes of the requests it takes: events to every server, of which an    *)
(* authorized "reload" reloads all modules, this one included.             *)
(*                                                                         *)
(* The reactor closes a port later than it is told to.  The steps of _chain *)
(* run at once unless one waits for a close; a reload is one reactor turn.  *)
(***************************************************************************)
EXTENDS Naturals, Sequences, FiniteSets, SequencesExt

CONSTANTS Addresses, NoAddress,
          Servers,                  \* those configured to load the module
          Hooks, ReloadHook, NoHook,
          Configs,                  \* [address, secrets, promoted] the options may be
          MaxReloads,               \* bound: reloads beyond those of requests
          MaxRequests               \* bound: accepted reload requests

ASSUME WebhookAssumption ==
  /\ NoAddress \notin Addresses /\ "stop" \notin Addresses \cup {NoAddress}
  /\ ReloadHook \in Hooks /\ NoHook \notin Hooks
  /\ IsFiniteSet(Servers) /\ Servers # {}
  /\ Configs \subseteq [address : Addresses \cup {NoAddress}, secrets : SUBSET Hooks,
                        promoted : SUBSET Hooks]

\* bound: _seen_events is a deque of 64, which forgets nothing of fewer requests
ASSUME SeenAssumption == MaxRequests \in 0..64

VARIABLES
  config,       \* the options; an address of NoAddress is listen_port 0
  taken,        \* addresses other programs listen at
  handler,      \* WebhookListener.handler is set
  address,      \* _address
  port,         \* where _port listens
  closing,      \* sockets the reactor has still to close
  chain,        \* steps of _chain not run yet: "stop" or an address to start
  unclaimed,    \* pending calls of _stop_if_unclaimed
  turn,         \* calls of init and unload left in this reactor turn
  gen,          \* which import of the modules is current
  requests,     \* requests accepted as "reload" events (history)
  posted,       \* requests whose event waits for the reactor
  events,       \* <<server, request, gen>>: a thread that is to run reload_event
  seen,         \* <<gen, request>>: _seen_events, of up to 64
  asked,        \* requests whose thread waits for _reallyReload
  reloads       \* requests that reloaded or whose reload raised, in order (history)

netVars == <<address, port, closing, chain>>
eventVars == <<gen, requests, posted, events, seen, asked, reloads>>
vars == <<config, taken, handler, netVars, unclaimed, turn, eventVars>>

Inits(n) == [s \in 1..n |-> "init"]

Init ==
  /\ config \in Configs /\ taken \in SUBSET Addresses
  /\ handler = FALSE /\ address = NoAddress /\ port = NoAddress /\ closing = {}
  /\ chain = <<>> /\ unclaimed = 0 /\ turn = Inits(Cardinality(Servers))
  /\ gen = 0 /\ requests = <<>> /\ posted = {} /\ events = {} /\ seen = {} /\ asked = {}
  /\ reloads = <<>>

----------------------------------------------------------------------------
(* The listener.                                                           *)

\* Mutant: nobody waits for a close.
RunningOn == chain # <<>>

\* _enqueue: a step runs at once unless the one before waits for a close
Running == chain # <<>> /\ closing = {}

Quiet == turn = <<>> /\ ~Running

\* _stop_port
StopPort ==
  /\ Running /\ Head(chain) = "stop" /\ chain' = Tail(chain)
  /\ port' = NoAddress /\ closing' = closing \cup ({port} \ {NoAddress})
  /\ UNCHANGED <<address, config, taken, handler, unclaimed, turn, eventVars>>

\* _start_port; listenTCP raises for an address in use, which the chain survives
StartPort ==
  /\ Running /\ Head(chain) # "stop" /\ chain' = Tail(chain)
  /\ \/ address # Head(chain) /\ UNCHANGED <<address, port>>
     \/ address = Head(chain) /\ address \in taken \cup closing
        /\ address' = NoAddress /\ UNCHANGED port
     \/ address = Head(chain) /\ address \notin taken \cup closing
        /\ port' = address /\ UNCHANGED address
  /\ UNCHANGED <<closing, config, taken, handler, unclaimed, turn, eventVars>>

Closed(a) ==
  /\ a \in closing /\ closing' = closing \ {a}
  /\ UNCHANGED <<address, port, chain, config, taken, handler, unclaimed, turn, eventVars>>

\* listen
Listen(a) ==
  /\ handler' = TRUE
  /\ IF address = a THEN UNCHANGED <<address, chain>>
     ELSE address' = a /\ chain' = chain \o <<"stop", a>>
  /\ UNCHANGED <<port, closing, unclaimed>>

\* release
Release == handler' = FALSE /\ unclaimed' = unclaimed + 1 /\ UNCHANGED netVars

StopIfUnclaimed ==
  /\ unclaimed > 0 /\ Quiet /\ unclaimed' = unclaimed - 1
  /\ IF handler THEN UNCHANGED <<address, chain>>
     ELSE address' = NoAddress /\ chain' = Append(chain, "stop")
  /\ UNCHANGED <<port, closing, config, taken, handler, turn, eventVars>>

----------------------------------------------------------------------------
(* Reloads.                                                                *)

\* init() for a server, or unload()
ModuleCall ==
  /\ turn # <<>> /\ ~Running /\ turn' = Tail(turn)
  /\ IF Head(turn) = "init" /\ config.address # NoAddress THEN Listen(config.address)
                                                          ELSE Release
  /\ UNCHANGED <<config, taken, eventVars>>

\* _reallyReload: the options are read anew, the module unloaded if it was loaded, and
\* loaded for the servers that are configured to, or for those before one whose load raises
ReloadAll ==
  /\ Quiet /\ config' \in Configs /\ gen' = gen + 1
  /\ \E n \in 0..Cardinality(Servers), before \in {<<>>, <<"unload">>} :
       /\ before = <<>> => ~handler
       /\ turn' = before \o Inits(n)
  /\ UNCHANGED <<taken, handler, netVars, unclaimed, requests, posted, events, seen>>

\* Stage 1 raises before it changes anything, for a configuration it cannot use.
ReloadRaises ==
  /\ Quiet
  /\ UNCHANGED <<config, taken, handler, netVars, unclaimed, turn, gen, requests, posted, events, seen>>

\* an operator's !reload
OperatorReloads == gen - Len(reloads) < MaxReloads /\ ReloadAll /\ UNCHANGED <<asked, reloads>>

\* Container.reloadModules of one server: init() without unload()
ReloadOwn ==
  /\ Quiet /\ handler /\ turn' = <<"init">>
  /\ UNCHANGED <<config, taken, handler, netVars, unclaimed, eventVars>>

----------------------------------------------------------------------------
(* Requests.  A request names a hook or none, proves to know one hook's     *)
(* secret or none, and is well-formed or flawed.                           *)

Flaws == {"none", "big", "method", "json"}
Request == [hook : Hooks \cup {NoHook}, proof : Hooks \cup {NoHook}, flaw : Flaws]

\* hook_secret, is_authorized
Authorized(r) == r.hook \in config.secrets /\ r.proof = r.hook

\* gotLength, render and handle up to the events
Answer(r) == CASE ~handler              -> 503
               [] r.flaw = "big"        -> 413
               [] r.hook = NoHook       -> 404
               [] r.flaw = "method"     -> 405
               [] r.flaw = "json"       -> 400
               [] OTHER                 -> 202

\* The hook's own event is posted too if it is in event_hooks.
Receive(r) ==
  /\ Quiet /\ port # NoAddress /\ Len(requests) < MaxRequests
  /\ Answer(r) = 202 /\ r.hook = ReloadHook /\ r.hook \in config.promoted
  /\ requests' = Append(requests, [proof |-> r.proof, authorized |-> Authorized(r)])
  /\ posted' = posted \cup {Len(requests) + 1}
  /\ UNCHANGED <<config, taken, handler, netVars, unclaimed, turn, gen, events, seen, asked, reloads>>

\* _postEvent: one dispatch for every server, in one reactor turn
Dispatch(i) ==
  /\ Quiet /\ i \in posted /\ posted' = posted \ {i}
  /\ events' = events \cup (Servers \X {i} \X {gen})
  /\ UNCHANGED <<config, taken, handler, netVars, unclaimed, turn, gen, requests, seen, asked, reloads>>

\* Mutant: a thread asks for the reload whatever another has seen.
HandleAgain(e) ==
  /\ e \in events /\ events' = events \ {e}
  /\ IF requests[e[2]].authorized
     THEN asked' = asked \cup {e} /\ seen' = seen \cup {<<e[3], e[2]>>} ELSE UNCHANGED <<asked, seen>>
  /\ UNCHANGED <<config, taken, handler, netVars, unclaimed, turn, gen, requests, posted, reloads>>

\* Mutant: a handler of modules that were replaced meanwhile does nothing.
HandleCurrent(e) ==
  /\ e \in events /\ events' = events \ {e}
  /\ IF requests[e[2]].authorized /\ e[3] = gen /\ <<gen, e[2]>> \notin seen
     THEN asked' = asked \cup {e} /\ seen' = seen \cup {<<gen, e[2]>>} ELSE UNCHANGED <<asked, seen>>
  /\ UNCHANGED <<config, taken, handler, netVars, unclaimed, turn, gen, requests, posted, reloads>>

\* reload_event in a server's thread
Handle(e) ==
  /\ e \in events /\ events' = events \ {e}
  /\ IF requests[e[2]].authorized /\ <<e[3], e[2]>> \notin seen
     THEN asked' = asked \cup {e} /\ seen' = seen \cup {<<e[3], e[2]>>} ELSE UNCHANGED <<asked, seen>>
  /\ UNCHANGED <<config, taken, handler, netVars, unclaimed, turn, gen, requests, posted, reloads>>

\* the exception is printed and raised again: the handler ends either way
EventReloads(e) ==
  /\ e \in asked /\ asked' = asked \ {e} /\ reloads' = Append(reloads, e[2])
  /\ ReloadAll \/ ReloadRaises

Ids == 1..MaxRequests
Threads == Servers \X Ids \X (0..MaxReloads + MaxRequests)

Next == \/ StopPort \/ StartPort \/ StopIfUnclaimed \/ ModuleCall \/ OperatorReloads \/ ReloadOwn
        \/ \E a \in Addresses : Closed(a)
        \/ \E r \in Request : Receive(r)
        \/ \E i \in Ids : Dispatch(i)
        \/ \E e \in Threads : Handle(e) \/ EventReloads(e)

\* The reactor runs what is due; pool threads run what they are given.
Fairness ==
  /\ WF_vars(StopPort) /\ WF_vars(StartPort) /\ WF_vars(ModuleCall) /\ SF_vars(StopIfUnclaimed)
  /\ \A a \in Addresses : WF_vars(Closed(a))
  /\ \A i \in Ids : SF_vars(Dispatch(i))
  /\ \A e \in Threads : WF_vars(Handle(e)) /\ SF_vars(EventReloads(e))

Spec == Init /\ [][Next]_vars /\ Fairness

----------------------------------------------------------------------------
(* Properties.                                                             *)

Settled == turn = <<>> /\ chain = <<>> /\ closing = {} /\ unclaimed = 0

\* When nothing is under way the port listens where the options of the last load say, if
\* the module is loaded and nobody else has the address, and else nowhere; _address says
\* so too.  Claims, releases, closes and late _stop_if_unclaimed calls come in any order
\* (listen, release, _enqueue).
PortFollowsClaim ==
  Settled => /\ port = address
             /\ port = IF handler /\ config.address \notin taken THEN config.address ELSE NoAddress

\* An event reloads the bot once, or fails to once, however many servers get it and whatever
\* generation their handlers are of, and only for a request that knew the hook's own secret
\* (is_authorized, reload_event with _seen_events).
OneReloadPerRequest ==
  /\ IsInjective(reloads)
  /\ \A n \in DOMAIN reloads : requests[reloads[n]].proof = ReloadHook

\* An authorized reload that was answered 202 is carried out, were it to raise, even when
\* other reloads replace the modules meanwhile (reload_event, call_in_reactor), and the
\* listener comes to rest (the chain never jams).
WorkIsDone ==
  /\ \A i \in Ids : (i \in DOMAIN requests /\ requests[i].authorized) ~> (i \in ToSet(reloads))
  /\ []<>(chain = <<>>)
=============================================================================
