# A specification of pyBurlyBot

pyBurlyBot is an IRC bot: a Twisted reactor that talks to several networks, a
pool of threads in which the handlers of its modules run, one more thread that
routes database calls, and one thread per SQLite file. Little of it is hard
line by line; what is hard is what happens *between* the lines of these
threads. This directory holds TLA+ models of the parts where that matters,
TLC runs over small instances of them, and proofs checked by TLAPS.

Lines of code are quoted as `file:line` of the repository.

## 1. Inventory

| Component (code) | State it keeps | Operations | Hard behaviour | What makes it correct |
|---|---|---|---|---|
| Database manager (`util/db.py`) | label → worker map, file → worker map, reference counts, a queue per thread, SQLite transactions | `query`, `batch`, `dbcommit`, `addServer`, `delServer`, `shutdown` | every call is two queue hops between three threads; workers are stopped and replaced under callers that already hold them | nothing is queued behind `_STOP`; a result tells the truth about the file; one connection per file; maps and counts agree; accepted work is answered |
| Event waits (`Container.send_and_wait`, `util/container.py`; `waitmap` of `util/dispatcher.py`) | wait map, a queue and a `done` flag per waiter | register, send, wait, drain, unregister; `dispatchEvent` | generator thread and reactor share the queue and the flag without a lock | every event of the span once and in order; registered before anything is sent; nothing stays registered; every wait ends |
| Outgoing calls (`Container.__getattr__`, `_queuer`, `_checkQueue`) | `_botinst`, `_outqueue`, delayed checks | take a method, call it, drain the backlog, connect, lose the connection | `_botinst` changes between two reads and between taking a method and calling it | no call lost or doubled; order of calls that go the same way; the backlog leaves |
| Send throttle (`BurlyBot.sendLine`, `util/client.py`) | `_dqueue`, `_lines`, `_lastmsg`, `_lastCL` | `sendLine`, `_sendLine` | clock against delayed calls; direct against queued lines | order; flood limit; a queue always has a timer |
| Self-update (`updaterelaunch.py`, `reload.py`) | `_update_lock`, `_restart_pending`, `_Pending`, `_seen_events`: per generation of the module | webhook post, debounce, check, merge, pip, reload, restart | the module reloads itself while its own threads run; `reactor.stop` joins threads that wait for the reactor | a trigger is never lost; merged changes are loaded; a pending restart is remembered |
| Message text (`sendmsg`, `_buildmsg`, `assembleMsgWLen`, `client.py`; `splitEncodedUnicode`, `helpers.py`) | none | split a message, fill a template | bytes against characters, rooms that are too small | every line fits, as much is sent as there is room for |
| Settings and lifecycle (`util/settings.py`, `pyBurlyBot.py`) | options, registry of servers, factories | `load`, `reloadStage1/2`, `shutdown`, SIGHUP | a reload changes servers, databases, connections and modules step by step, any step may raise; delayed calls run between reloads | after a reload every configured server has one connection, database and dispatcher; no module instance is left without `unload` |
| Module loading and dispatch (`util/dispatcher.py`, `moduleloader.py`, `mapping.py`) | loaded modules, mappings by event and priority | import, `REQUIRES`, activation, hook chains, unload | a requirement that fails, circles, several servers over one registry | a module is active only with what it requires; events go to the current instances |
| Timers (`util/timer.py`) | named timers | add, restart, delete by prefix, run | a timer's function runs in the pool while it is deleted | a module's timers go with it; one timer per name |
| Alerts and reminders (`alert.py`, `remind_common.py`) | rows of alerts, a looping timer, one-shot timers | add, check, claim, deliver, sign-on, reload | a crash between claim and delivery; a gap between two checks | an alert is delivered once, in time |
| Tell, users, aliases (`tell.py`, `users.py`, `alias.py`) | tables of tells, users, groups, aliases | tell, remind, deliver, alias, group | lookups and inserts of handlers interleave | a tell is delivered once, to somebody who can have it |
| Network state (`util/state.py`, handlers of `client.py`) | channels, users, modes, hostmasks | JOIN, PART, KICK, QUIT, NICK, MODE, WHO, NAMES | the picture is rebuilt from a stream that may start in the middle | picture = server's state for every joined channel |
| Registration and identity (`client.py`, `wrapper.py`) | CAP/SASL stage, nick tries, STATUS lookups, their cache | CAP, AUTHENTICATE, 433, STATUS answers, `isadmin` | answers that come late, or for another nick; a lookup that is shared | logged in before it signs on; an identity given is the sender's; each command decided once |
| Webhook (`util/webhook.py`, `webhook.py`) | a port, its claims, a chain of delayed steps | claim, release, accept, dispatch, reload | release and claim across a reload, a request that reloads the module which took it | the port listens exactly where it is claimed; one reload per request |
| AI chat harness (`bbm.py`, `codex_api.py`, `util/ws.py`) | conversations, mutes, follow-ups; a WebSocket per turn | hear, request, tools, deliver, mute, sweep | lines of one nick answered at once; answers in pieces and out of order | a conversation is pairs of line and reply; muted means silent; a turn's answer is whole |
| Test server and smoke test (`microirc*.py`) | clients of the relay, counts of the test client, three processes | relay, register, send a command, count, stop | threads of the relay, deadlines against late replies, a bot that will not stop | passes only if every command was answered; nothing left running |
| HTTP, paste and helpers; API commands; export and environment tools | none that outlives a call | requests, formatting | none | – |

How they meet: handlers are called by the dispatcher with an event and a
`Container`. They reach the bot through the container (`callFromThread`, or the
outqueue while the bot is away), the database through the manager's and a
worker's queue, and wait for answers of the network through the dispatcher's
wait map. Settings creates and removes the containers, databases, dispatchers
and connections, and reloads the modules; the self-update drives settings.

The hazards this code is exposed to are listed, each at its line, in
`PROJECT.json`, with the properties that would catch it. Eight have none, for there
the code does what the hazard says; a finding tells how, and a property that comes
near makes the exception by name:

| Hazard | What the code does | Its exception |
|---|---|---|
| `db.py:161` | a call is put behind the manager's `_STOP` | `CallReturns` is refuted |
| `db.py:211` | a worker dies opening its connection, its queue is never read | `"failed"` in `AcceptedIsAnswered` |
| `container.py:282` | events that keep coming keep a wait from expiring | `TimeoutIsTotal` is refuted; `EndsInTime` counts the events |
| `updaterelaunch.py:234` | a reload forgets a pending restart | `RestartIsRemembered` is refuted |
| `updaterelaunch.py:243` | a thread and the stopping reactor wait for each other | `RestartHappens` is refuted |
| `tell.py:216` | alias takes a name another command looked up, the row is stranded | `raced` in `NothingStranded`, `MembersAreReached` |
| `settings.py:802` | a reload that raised leaves servers unconnected | `cut` in `RunsAsConfigured` |
| `settings.py:777` | a late `delServer` drops a new server's database | `hurried` in `RunsAsConfigured` |

Others are caught in part; their notes say which part is not: calls that fail between
two reads of `_botinst` or reach a dead connection (`container.py:101`), timers set
after `unload` (`overtaken`, `timer.py:156`), a turn whose server never ceases to send
what no deadline is looked at for (`codex_api.py:110`), a nick that changes hands while
it is asked about (`moved`, `client.py:393`), an `ACK` in several lines or a server
without CAP (`client.py:287`), and a late reply that comes during the next command's
wait (`microirc.py:595`).

## 2. The modules

| Module | Models | Abstract counterpart |
|---|---|---|
| `DBManager` | the manager thread, the workers and their callers | `DBService` |
| `EventWait` | `send_and_wait` against the reactor's dispatch | – |
| `Throttle` | the throttle of one connection | `LineQueue` |
| `Outbound` | handlers → container → connections; a connection sends as `LineQueue` says | uses `LineQueue`'s promise |
| `MessageText` | how a message becomes lines | what is asked of the lines |
| `UpdateRelaunch` | pushes, checks, hot reload, restart | – |
| `IrcState` | the methods of `Network` and `Channel` as operators on a picture | – |
| `NetworkState` | server, wire, connection and `irc_*` handlers over `IrcState` | the server's own state |
| `ModuleLoading` | loading a module with its requirements, as operators | `Closure`, what should be active |
| `Lifecycle` | settings, servers, databases, connections and modules from start to exit | the configuration |
| `Alerts` | alerts over timers, threads, reloads and crashes | – |
| `Users` | users, aliases and groups: handlers with a step per query | – |
| `Tell` | tells and reminders over `Users`, with crashes | – |
| `WebhookListener` | the port, its requests and the reloads they ask for | – |
| `Registration` | the bot's connection until it is signed on, then its lookups; server, services and users | – |
| `Relay` | the test server's threads, as a server for `Registration` | – |
| `SmokeTest` | harness, relay, bot and test client together | – |
| `CodexTurn` | one turn over a WebSocket | the turn's items as the server has them |
| `Bbm` | the chat harness over `CodexTurn` | – |
| `DBManagerProofs`, `SendingProofs`, `EventProofs`, `WebhookListenerProofs`, `TellProofs`, `AlertsProofs`, `BbmProofs`, `ConnectProofs` | theorems and proofs (section 4) | |
| `MC*` | the constants of the TLC runs; `MCSending` puts `Throttle`, `Outbound` and `MessageText` into one run, `MCConnect` the networks and the smoke test | |

Each definition stands for the lines `PROJECT.json` ("map") names. Operators
commented `Mutant:` are plausible bugs of the definition that follows them; no
action of the specification uses them. Each was put in place of that
definition once, and TLC then refuted the property it is listed with.

### DBManager

A caller goes `idle → put → mwait → submit → dwait → idle`: the manager's
`is_alive` check, the put into its queue, the wait for the worker, `_submit` on
that worker under its lock, the wait for the result. These are separate actions
because any thread may run between them. The manager is a program counter:
`get` takes the next entry and answers, or goes to `join` (it waits in `stop()`
for a worker's thread), `next` (visits the workers one after the other for
`_shutdown` or `_dbcommit`) or `await` (a checkpoint it submitted itself).
A worker thread opens its connection, takes entries, executes statements one
action each, and commits or rolls back. `stored` is what has been committed to
each file, so a batch that is half done is visible as `txn`. SQLite is external:
any statement, `BEGIN`, `COMMIT` or open may fail.

A label without an entry in `serverDBMap` is one mapped to `Main`, which is
what `_getDB` makes of it. Worker objects are numbered; `MaxDB` bounds how many
are created. An entry of a queue is its caller, for a caller blocks on its one
call; the call's arguments are in `req`.

Left out: `dbCheckCreateTable` and the callers' conversion of rows.

### EventWait

`calls` is the queue of `callFromThread`. A dispatch is not atomic: the event
is put into one waiter's queue after the other and `done` is set after the put
(`DispatchTo`), while the generators go on. Time is counted in half seconds,
the `timeout` of the generator's `get`; `since` and `expired` are the times it
compares. An event is about a waiter's own request or about nobody's; the
handler's loop breaks at its own, as the admin commands do. `log`, `from`,
`upto`, `got` and `outcome` are history for the properties.

### Throttle and LineQueue

The three branches of `sendLine` are `AfterPause`, `UnderThreshold` and
`Throttled`; `_sendLine` is `DrainLine`. `Second` ticks are a second and a
delayed call may come up to `Late` ticks late. `LineQueue` is the promise to
those who send: each line leaves once, in its turn, in the end.

### Outbound and MessageText

`Look`, `Bind` and `Invoke` are the two reads of `_botinst` in `__getattr__`
and the call of what they returned; a call that raises in the reactor ends the
loop of `_checkQueue` (`Done`). A call gives its connection a line, which it
writes as `LineQueue` says.

What a message becomes is a function of the call: `MessageText` is
`sendmsg` with `_buildmsg`, `assembleMsgWLen` and `splitEncodedUnicode`, over
texts that are sequences of characters of one to three bytes. A template's
fields are `{0}` each; `how` is the way its texts share the room (`fcfs`, even
shares, whole texts with a separator). As `_buildmsg` asks `if strins:`, no texts, and
one text that is empty, go the way of a plain message (`Templated`, `Literal`): the
template is sent with its `{0}`, which `WholeTextsWhenTheyFit` excepts and a finding
tells. `TooLongAnyway` names the two findings `LinesFit` excepts.

### UpdateRelaunch

The module's globals are indexed by generation: a reload starts a new one, and
a thread of the old one keeps the old lock and flags, as Python does.
`remote`, `origin` and `head` are the branch, what was fetched and what was
merged; `core` and `mods` what the process runs. `thread[t].at` walks through
`_check_and_apply` and its two callers. git and pip may fail at any step, and so may a
hot reload (`ReloadRaises`: a configuration it cannot use): the merge is done, the
modules it brought are not loaded, no admin is told, and the next check finds nothing
to do. `dropped` (history) holds those commits. `ModulesAreLoaded` excepts them;
`NoReloadIsLost`, which does not, is in no run and TLC refutes it: a finding. A
`!reload` may raise too, and then changes nothing.

### IrcState and NetworkState

`util/state.py` keeps a user twice, by nick in the network and by nick in each
channel, and trusts its methods to keep both pointing to one object. `IrcState`
therefore gives objects an identity: a picture is `users` (nick → object),
`user` (object → its nick and channels) and `chan` (channel → users, ops,
voices, modes, bans, topic). Objects nobody refers to are collected. Each method
is an operator from picture to picture, so that `NetworkState` can put its
handlers together as the code does; `_userrename`, which can raise half way, is
the set of its outcomes.

`NetworkState` has the server's truth (`nickOf`, `member`, `ranks`, `flags`,
`bans`, `topic`, `account`), one ordered `wire`, and the bot's side
(`nickname`, `pic`, `accounts`). The server is external: it tells the bot
what a member of a channel is told, with account-notify and extended-join and
without multi-prefix. The two sides are compared when the wire is empty.
`renamed`, `lost` and `raised` are history: `renamed` excepts a bot that changed
its own nick, which `irc_NICK` does not take to the picture; `lost` the
accounts of nicks whose holder left the bot's sight by PART or KICK, which
nothing tells the bot to forget. Both are findings.

Left out: motd, idents and hosts, the except and invite lists (handled as the
ban list is), channel modes other than `m`, account tags of messages, case
folding, and the events the handlers dispatch.

### ModuleLoading and Lifecycle

`LoadModule` follows `load_module` and `_load_requirements` depth first with
what is active, imported and wrong so far; the properties compare it with
`Closure`, a set defined without an order. Instances of modules are pairs of
module and generation. `Lifecycle` has a `reactor` that is idle or between two
steps of a load: `reloadStage1`, `reloadStage2` with its databases, reset, per
server loading and connecting, each of which may raise. `later` holds the delayed
calls (`delServer`, the stages of `shutdown`), which run between loads, as do
the losses and sign-ons of connections. The operator edits the configuration
file at any time; `faults` is what is wrong with the source of the modules.
`cut`, `hurried` and `complete` are history by which the properties except the
findings (a reload that raised, a server back within a second). The databases
are `DBManager`'s promise: label → file. What a removed server's dispatcher still
holds (`_disconnect` leaves it) is forgotten, for nothing in the model reads it.

### Alerts

A thread is a value in a bag: at which query it is, what it holds and which
groups of alerts it still has to see to (in any order: the code's is that of the
rows, and nothing depends on it). `RunLoop`
and `RunOnce` are the timers' turns in the reactor; `Check`, `Claim` and `Send`
the three steps of a delivery; `Insert` and `RestartTimer` the command;
`SetupTimer` what a sign-on or a reload's posted sign-on starts. A crash empties
everything but the table. The clock has half seconds, the code reads whole
ones, so that truncation shows.

### Users and Tell

Every action of `Users` is one query, or batch, with the Python up to the next:
`t.at` names the query, `ret` the place to return to from `get_username` and
`get_groupname`, which are subroutines. A message starts three threads in its
slot: `user_update`, `deliver_tell` and its command. `tells` remembers which row
was told when and how often it was sent. `orphaned` (history) says that `alias
~del` took a user's own alias while other names still led to it. From then on
the user can become somebody's alias, and what is told to the older names is kept
where, once they are deleted as well, nobody's messages claim it. That takes four
commands, so the run of two cannot show it: the attempt to prove
`NothingStranded` without the exception did, and TLC confirmed it on a longer run.
It is a finding, and `NothingStranded` and `MembersAreReached` except it.

Any two commands interleave, alias commands too, and there the code has a race: an
`aliasuser` that has found a name free (`Takes`) renames and binds it while another
command goes by that name, having looked it up and not written yet (`GoesBy`). `Clash`
is that state of two threads, and `raced` (history) that it came about; the two
properties except the rest of such a run. What they catch is everything else two
commands, an alias command among them, can do to each other query by query.

### WebhookListener

`chain` is the deferred chain of `_start_port` and `_stop_port`, which waits for
a socket that is `closing`; `turn` the calls of `init` and `unload` left in a
reload. A request has an address of a hook, a proof of a secret or none, and a
flaw or none; `seen` is `_seen_events` per generation, a deque of 64 which
`SeenAssumption` (at most 64 requests) keeps from forgetting any: beyond that the
code may reload again, a finding. A reload may raise: before it changes anything
(`ReloadRaises`), which `reload_event` prints and raises on, or at a server's modules, so
that those of the servers after it stay unloaded (`ReloadAll` with fewer `init`s).
That `createDatabases` raises between the two is in `Lifecycle` only.

### Registration, Relay and SmokeTest

`up` and `down` are the lines on their way. The server is external for
networks: what it offers, in how many lines, grants, accepts as a login and
holds in use is in `conf`. Services look at a nick at one time and answer later.
Users speak, change nick in or out of the bot's sight, and leave. For the smoke
test the server is `Relay`: a thread per client that changes the state under
`state_lock` and sends afterwards, line by line, so that lines of two threads
interleave. The bot in it is the same `Registration`, up to its commands'
replies. `SmokeTest` adds the client's drain and wait with their deadlines and
the harness's interrupt, terminate, kill.

### CodexTurn and Bbm

A turn is a phase (`call`, `drain`, `read`), what it collected and whether the
deadline passed; the server answers calls, sends items before or after the
answer, splits a message in two frames, pings between or beside them, refuses, closes or
falls silent. Notifications the client ignores and pings it can send without end, also
during the calls, where the code looks at no deadline. In `Bbm` each
line heard has its handler's own copy of the conversation and the clock as it
read them; `Gc`, `CheckMute`, `FollowUp`, `Snapshot`, `Chat`, `Deliver` and
`Remember` are the sections between which other handlers run. A conversation
is a sequence of (who, line), so that a text is known by the line it answers.

## 3. The runs

| Run | Question | States |
|---|---|---|
| `db_manager` | Two handlers, the reactor (three calls) and up to three workers: are queues, maps and files in order, are answers truthful, and do the threads implement `DBService`? | 1.0 M |
| `db_liveness` | Is accepted work answered, whatever is released or shut down? | 94 k |
| `event_wait` | Two generators of different interest: delivery, registration order, no leftovers, ends with the stop event or in time | 2.3 M |
| `sending` | Three legs: is a queue always armed, the flood limit kept and `LineQueue` implemented; is each call in one place and the backlog sent; does each message fit? | 0.8 M |
| `update_relaunch` | Are triggers and module changes kept across reloads, some of which raise, and restarts? | 84 k |
| `lifecycle` | Does what runs after a load agree with the configuration, and does every instance end? | 0.8 M |
| `alerts` | Is each alert sent once and in time, and do timers come and go with the module? | 0.7 M |
| `tell` | Is each tell sent once, and can everything that waits be had? | 0.9 M |
| `network_state` | Is the bot's picture the server's once it has heard everything, and are its references sound all along? | 1.8 M |
| `connect` | Does registration end logged in, are identities those of the senders, is a smoke test's verdict honest and everything stopped? | 0.2 M |
| `webhook` | Does the port follow its claim; is each request one reload? | 22 k |
| `bbm` | Are conversations sound, mutes kept, turns whole, and do handlers end? | 0.5 M |

All runs pass. The findings in `PROJECT.json` are disagreements of the code with
a comment or document, or with itself, met while modelling; each quotes both
sides. Where the property a finding names is in a module but in no run
(`CallReturns`, `TimeoutIsTotal`, `QueuedIsSent`, `RestartIsRemembered`,
`RestartHappens`, `MergeIsClassified`, `NoReloadIsLost`, `TopicIsCurrent`), TLC refutes it as it
stands; where it is a property of a run,
the finding names the exception the property makes, or the change of the
instance, without which TLC refutes it.

### Bounds and why they suffice

- *DBManager*: two labels and three files let a label be added, moved, shared
  and dropped, with one file that cannot be constructed and one that cannot be
  opened; two handlers make one hold a worker while the other's calls pass;
  three reactor calls are the shortest sequence that remaps a shared worker and
  reuses its file. Batches have two statements: one can fail after another.
- *EventWait*: two waiters, for the interplay of two entries of one dispatch;
  two events, so one follows a stop event; a timeout of half a second and three
  seconds of clock, so that a wait expires before, between and after them.
- *Sending*: a threshold of two and five lines: the count is reached, lines
  queue, the queue empties and a direct line follows. `Late = 1` of two ticks
  per second makes queued lines late by half a second. Lines are told apart by
  their place, so two values show every overtaking. `LastAsk` and `MaxTime` let
  every queue drain before the clock ends, so liveness is not cut short. Two
  handlers with two calls each over two connections: one call can be queued,
  another bound to a dead connection, another raise. Messages have up to four
  characters of one to three bytes in rooms of one to ten bytes, so that every
  boundary falls inside, before and after a character; a split message may have
  three lines where the code allows four. The legs share no state, so one run
  takes one of them in each behaviour.
- *UpdateRelaunch*: two worker threads (one waits for the lock of the other),
  two pushes (module and dependency), one post delivered to two servers, one
  admin command; three reloads.
- *Lifecycle*: two labels, of which one is configured always and the other
  comes and goes; four modules with a shared requirement and a circle, one
  denied to a server; each kind of fault. Three server objects and two loads
  are a server removed and made again.
- *Alerts*: the interval is three seconds, so that an alert can be due within
  it, at its end, and beyond; two alerts, three threads and one reload,
  disconnect or crash over almost two intervals.
- *Tell*: three nicks of which two are one user's at first, and a group; two messages
  at work at once, of ten kinds, each with three threads whose queries interleave freely;
  tables with an alias, a member and a tell that waits, so that a rename has something
  to move.
- *NetworkState*: two users, two channels, four nicks: nicks can be exchanged
  through a third, one user can be in both channels and the other in one. Each
  behaviour has one `concern` (accounts, ranks with requests, modes with
  requests, topics with the bot's own nick) besides coming, going and changing
  nick, and three or four events, four being what it takes to leave, change
  hands and return. `MaxWire = 1`: a message may be on its way while the bot
  asks or loses the connection; more would only delay handlers, which do not
  look at the server's state. Users are on the channels at first (`Starts`), so
  that no events are spent on it.
- *Connect*: every kind of server (capabilities, lines, grants, login, nicks in
  use) and payloads that are a multiple of the chunk's length and not;
  for the lookups two users and two nicks, one registered, with two to four
  events: a command, an exchange of nicks, another command. One smoke test of
  two commands, one with a nick collision and a bot that may crash.
- *WebhookListener*: two addresses and a disabled listener, two servers, one
  reload of an operator beside one a request asks for: a stop, a start and a
  late `_stop_if_unclaimed` overlap. Of the 64 requests `SeenAssumption` allows the run
  has one, for each server's thread and each generation of the module to come upon.
- *Bbm*: three lines of one nick with a context of one exchange and one
  follow-up; the window is none and the sleep one of three units of the clock, so that
  conversations and mutes expire and are swept while lines come. One codex turn, of
  which at most three frames are on their way at a time, enough for a message in two
  pieces with a ping between; a turn has up to two items, before or after the answer,
  and `MaxItems` bounds as well what the client has kept of a call when more comes. How
  many frames there are in all is not bounded.

Deadlock is not checked: each model may stop when its bounded events are used
up. That nobody waits for ever is what the liveness properties say.

### Fairness

Threads that are started are scheduled by the operating system and the reactor
runs what is due: weak fairness of every started worker, generator, handler and
of the reactor. Time passes. In `WebhookListener` fairness of the calls that
wait for the reactor is strong, because other turns of the reactor come
between, and it takes its calls in order. No fairness is given to what the code
does not control: handlers need not call, networks need not connect, users and
services need not answer, nobody need push. Where something external is needed
for an end, it is a deadline of the code (a socket's timeout, a lookup's timer,
the harness's waits), or the network server of `connect`, which answers what it
is sent. In `Bbm` a turn's deadline passes (`CodexDeadline`), and of its server nothing
is asked: `HandlersEnd` says that a handler ends, or that its server goes on for ever
with frames during a call or with pings, which are read without a look at any deadline
(`Unhurried`; a finding). `EndsInTime`, `Punctual` and the like are invariants about a clock.
`Lifecycle`, `Alerts`, `Tell` and `NetworkState` have safety properties only
and need none. `AcceptedIsAnswered` excepts a worker whose thread died opening
its connection: `DBaccess.run` then leaves its queue, and its callers, behind.

## 4. The proofs

All theorems hold for every value of the constants allowed by the `ASSUME`s
(which TLC evaluates in the runs), and use no fairness. Each inductive
invariant below was first an invariant of a TLC run on the run's own instance, but
for the one of `NetworkState`, of which TLC saw the form without a quantifier over
sequences.

**DBManagerProofs.** `TypeCorrect`: `TypeOK` is not inductive alone, for
the manager's actions read the request of the caller they serve; the invariant
`Typed` adds `Served`, that a manager that is not at `get` serves a caller.
`WorkNeverBehindStop`: `NothingBehindStop` is the promise in the
comment on `_submit` (`util/db.py:251`). Its strengthening `QueueInv` adds that
a worker not yet created has an untouched queue. Every action is first shown to
be one of a few *kinds* of queue step (nothing, append work to an accepting
worker, append `_STOP` and set `stopping`, take the head, start a thread), and
only those kinds are then shown to keep the invariant.

The rest of the module builds on this, in three parts.

- `ResultsAreTrue`: `ResultIsTruthful` reads a client's answer and the file, so
  the invariant has to follow a request through the threads: it is in one place,
  in the manager's queue, in the manager's hands, in the queue of the worker its
  caller is bound to or in that worker's hands (`Queues`); a caller is bound to a
  worker that has been started (`Bindings`), whose file never changes; the
  worker's connection is in a transaction just when it is in a batch, which holds
  the statements the batch has run (`Transactions`); nothing of a request is
  stored before its answer (`Applied`).
- `ServiceImplemented`: with that invariant each step is a step of `DBService` or
  none. `Route`, `Phase` and `Target` name the mapping; for each action the proof
  says which single client sees it, and in what: only `COMMIT` of a batch and
  the one statement of a query are seen in the file.
- `NoFileOpenTwice` and `WorkersAlwaysAgree`: the reference count is the number
  of labels of a worker, a worker is listed in `fileDBMap` just when it has one
  and then is not stopping (`AllCounted`). Neither holds while the manager waits
  for a worker it has released, which has its own form (`LetGo`), nor while it
  shuts down (`Shutting`). That two running workers never have one file needs
  that all that run are listed but the one being released (`Opened`). The
  theorem assumes `~RemapBroken`: moving a mapped label to a file `DBaccess()`
  raises for breaks the counts, which is a finding, and TLC refutes
  `WorkersAgree` with it; `NoFileOpenTwice` holds all the same. `Labels` has
  to be finite, for its cardinality to be counted.

**SendingProofs**, of `Throttle`: `TypeCorrect`; `QueueDrained`: a queue has a timer
exactly when it has lines (`QueueIsArmed`), and lines leave in the order they
came (`InOrder`); `FloodLimit`: among any `linethrottle + 1` consecutive lines
the first and last are a second apart. This is not inductive: the strengthening
bounds how many of the last lines may be recent by the count `_lines`, and says
that while lines are queued each waits for its second (`Paced`, `QuietSince`).
`ThrottleIsLineQueue`: the throttle starts as and steps as `LineQueue` does, by
cases on whether a line is handed over, leaves, or both.

Of `Outbound`: `CallsAreKept`: a call is `Held` at one place and index, and
at one only if it was made (`Placed`); each action is shown to add one place,
move one, or move the first of the outqueue to a connection. The order
(`Orderly`) needs that what has not run is behind all that has, per handler, and
what is in the outqueue behind all that came through it. The property does
not compare a direct call with one that was queued: `_checkQueue` runs later
than a connection is set, and a direct call may overtake.

**EventProofs**, of `EventWait`: `TypeCorrect`; `RegistersFirst`: the reactor's queue holds
`add` of a waiter once, and before its `send` and `del` (`Queue`).
`DeliversInOrder`: the wait map has a waiter just while its span is open
(`Registered`), and a dispatch under way holds only waiters that were registered
when it began (`Serving`); so what a waiter was given with what is in its queue
is the set of its events within its span, as an increasing sequence.
`GeneratorsEndCleanly` adds that `done` means the last event delivered is a stop
event and nothing follows it (`Ending`); `GeneratorsEndInTime` bounds how far a
generator may lag behind its timeout at each place (`Timely`).

Of `NetworkState`: between the network and the picture there are always
messages, so neither property is inductive, and no relation of the picture with
the network is. What is: the messages on the wire, put through the bot's
handlers one after the other, lead from the picture it has over sound ones to
one that is true of the network as it is (`PictureInv`, in terms of `Leads`,
`Heard` and `Mirrors`), and from the accounts it remembers to true ones
(`AccountInv`, `Recall`, `Remembered`). A step of the server puts a message at
the end of that chain and has to be shown to take every picture true before to
one true after (`JoinSeen`, `NickSeen` and so on, one per message); a handler takes the chain's first
message, and is shown to be what the chain says of it; with nothing on its way
picture and end are one. The picture's soundness is a matter of every link, the
network's truth of the last only, which is why a sound picture needs no empty
wire. The operators of `IrcState` have a lemma each on what they do to
a sound picture (`UsersJoining`, `Parting`, `Renamed` and so on); the collection of
objects nobody refers to needs that there are as many as entries in all maps.
`SoundPictures` and `TruePictures` follow. Modes of a channel are true when no
request for them is open and none is to be made (`Settled`): the bot asks when
it hears of its own JOIN, so a JOIN still on its way counts. `TruePictures`
assumes `OneOp`, that one rank is an op, as the run has it: with two `MODE -o`
of a user who is owner as well drops it from `ops`, which is a finding.
TLC cannot evaluate `PictureInv`, which says that there is a sequence of
pictures; the sequence is determined by the wire, and what the run checks is its
end whenever the wire is empty, and every link's soundness as it is reached.

**WebhookListenerProofs.** `ListensWhereClaimed`: a start in the chain comes
after a stop (`StartsAfterStop`), the chain ends with the claimed address
(`ChainEndsAtClaim`), and between turns the claim is the configuration's
(`ClaimFollowsConfig`). `ReloadsOnce`: an event that waits to reload, or has, is
marked as seen by the one generation it was handed to (`EventInv`); for at most 64
requests, of which the deque forgets none.

**TellProofs.** `TellsOnce`: a row waits, or is claimed and in one thread's
hands (or was, when the process died), or is sent (`Claims`). The handlers of
users and aliases only rename rows (`Renamed`), so the proof needs nothing of
who is whose alias. `TellsReached` and `MembersReached` need all of it: `Sound`
says, at every query of every handler and not only at rest, that rows are of
`Origins` (users with a row of their own who are nobody else's alias), that an
alias leads to an origin in one step, that members are origins too, but between
`rename_user` and the update of the groups, and of each thread which names it
holds are origins at the query it is at (`Light`, `Talking`, `Aliasing`). Handlers
of other messages go on adding users meanwhile, so every fact is shown to survive
that (`TablesStay`, `TalkingStays`, `AliasingStays`); `Bind` ends an origin, and can
because nothing is left under it (`NoRow`, `NoMember`). Commands interleave freely. Where
one aliases and the other goes by a name, the invariant needs of the state that no
aliasuser that has found a name free stands beside one that goes by it (`~Clash`): from
there the alias's rename and bind leave everybody else's names as they are
(`OthersStay`), and what its own thread holds follows it. A step into a clash sets
`raced`, and the theorems claim nothing of the rest of that behaviour; so they do not
if the process died between a rename and its alias, or an origin was forgotten. The
constants' assumption on the tables of earlier runs is that they are such as runs
without the three exceptions leave.

**AlertsProofs.** Threads come in a bag and timers are named after sets of
alerts, so each action is first reduced to what it does to both: a thread starts
(`Started`) or becomes one of its `Successors`, and the timers it leaves
(`LoopAfter`, `OthersAfter`). `AlertsSentOnce`: the timers and groups are no
earlier than what they hold (`Schedules`, `TimersSet`), and a claimed alert is in
the hands of one thread, or was when the process died, or is sent (`Claims`).
`TimersAreTheModules`: while no reload overtook a thread, a loop that should run
has a thread or a posted sign-on coming to set it up, with this import's function
(`Followed`). `AlertsArePunctual`: every alert that waits is covered, by the
loop's next check, a timer of its own or a thread that tends it, and each of
these is in time (`Watched`); the strict bounds in whole seconds of the check and
the command leave no gap, because a check at second `s` that passes over an alert
knows it due at `s + Interval` or later, and the loop no more than an interval of
half seconds ahead of a clock that reads at most `2 * s + 1`.

**BbmProofs.** `AnswersAreWhole`: until a turn fails, what the client has
collected, then what it keeps, then what is in frames, is what the server said:
`Ordered` says of the messages on their way that the items among them are those
after the last collected, in order, and none follows the end of the turn
(`Whole`); a frame that is not the last of its message carries nothing
(`Carried`). Each step of client and server is one of four things done to that
sequence: it grows at its end by an item or by something else, its first message
is taken, a message that is no item goes, or one moves from the frames to what
is kept. `BotSpeaksAsTold`: the sweep may drop a mute, but while what the last
one promised lasts `muted` is that promise (`MuteOk`), and a line's clock is
not ahead of the time. `ConversationsStaySound`: the entries of a conversation
are of lines that have ended (`Known`), so the pair of a line at its last step
is new to it, whatever other lines of the nick did meanwhile; and as `Keep` is
even, cutting the front keeps pairs whole. The proofs assume of the constants
that a sleep is not negative (`_mute` takes `max(seconds, 0)`), that the window
is an integer (the option is `int`) and that a backend is one of the two
(`_respond` takes whatever is not `codex` as `openai`).

**ConnectProofs**, of `Registration`, `Relay` and `SmokeTest`, which share their
variables: a behaviour is a network's or a smoke test's from its first state
(`Testing`), so the inductive invariant is that of one or of the other, with the
other's state at rest (`Idle`, `Idling`), and `Typed` in both, which gives every
kind of line its fields. `OneDecision`: a command that has no decision is in one
of three places, on the wire, with its handler, or in one lookup's list, once
there, and nothing else is in any (`Kept`); it is a count of `Places` only in
the end. `CurrentIdentity` needs to know of every undecided command whether its
sender still has what it had (`Fresh`), as far as the nick did not change hands
in question; what an answer on its way says is true in the same sense; and of a
cached owner that a command it would be wrong for comes behind a `NICK` that
clears the cache (`Cautious`): this is where the order of one connection is
used. `LogsInFirst`: until the login, the server holds the registration open,
either because `CAP LS` was heard or because it is still the first line to be
(`HeldOpen`), and no line on its way to the bot lets it end the negotiation
(`LoggedInOn`). `SoundSmokeTest`: the harness starts and stops its processes in
one order (`Ordered`); from the drain before a command to the end of the wait
for it all replies in the client's queue are stamped no earlier than it, and
commands before it were answered or a timeout was counted (`Honest`). The proofs
assume that a nick is a name with a count of the underscores the bot added, as
`alterCollidedNick` makes them.

Only model-checked: liveness under fairness (`AcceptedIsAnswered`,
`BacklogLeaves`, `TriggerIsNotLost`, `ModulesAreLoaded`, `WorkIsDone`,
`EverythingEnds`, `HandlersEnd`, the fairness part of `LineQueue`), which is out
of the prover's reach as `ENABLED` is; what is defined by recursion over data
(`LoadModule`, for which `ModuleLoading` and `Lifecycle`, with `RunsAsConfigured`,
`InstancesEnd` and `Rearmed`, have no theorems, and the folds of `MessageText`
with `MessagesFit`).

## 5. Plan

The models are done, in the order in which they are listed above. What is left,
most important first:

1. The chains of hooks of one event across threads (`_dispatchchain`) while a
   reload replaces the mappings.
2. The except and invite lists and account tags in `NetworkState`; options and
   their validation in `Lifecycle`.

## 6. Not modelled

Formatting, the API commands (stateless requests), HTTP and paste helpers, the
export script, the environment check and the deployment files: they keep no
state between calls that another part depends on. The chains of hooks (plan,
1), options as data, the recent lines of a channel `bbm.py` adds to a request,
and parsing of times are left out of their components, as `PROJECT.json` says of
each. The blocking query calls of `Container` and add-ons return through
`blockingCallFromThread`, which Twisted implements. SQLite, git, pip, the
language-model services and Twisted's reactor are external and modelled by how
the code uses them.
