----------------------------- MODULE SmokeTest -----------------------------
(***************************************************************************)
(* The smoke test: microirc_harness.py starts the relay, the bot and, when    *)
(* the bot is in the channel, the client of microirc.py, which sends the      *)
(* commands one by one and counts the replies; then it stops them all.        *)
(* Three processes and the relay's threads; a deadline may pass at any time.  *)
(***************************************************************************)
EXTENDS Relay

CONSTANTS Tester, MaxCollisions

ASSUME SmokeTestAssumption ==
  /\ Clients = {Bot, Tester} /\ Bot # Tester /\ MaxCollisions \in Nat
  /\ \A c \in Confs : c.tests \in Seq(BOOLEAN) /\ c.testnick \in Name

VARIABLES
  bot,      \* the bot's process: "none", "running" or "exited"
  work,     \* command -> replies its handler has yet to send
  t,        \* the client: its process, session and results
  counted,  \* the replies it counted: [re, for, at] (history)
  h         \* the harness: phase, the signal it last sent the bot, exit status

smokeVars == <<bot, work, t, counted, h>>
allVars == <<regVars, relayVars, smokeVars>>

SmokeInit ==
  /\ bot = "none" /\ work = <<>> /\ counted = {}
  /\ t = [phase |-> "none", nick |-> NoNick, collisions |-> 0, cmd |-> 0, drains |-> 0,
          replies |-> 0, timeouts |-> 0, status |-> 0]
  /\ h = [phase |-> "start", signal |-> "none", status |-> 0, interrupted |-> FALSE]

Tests == Len(conf.tests)      \* the selected commands: multiline or not
Testing == conf.kind = "relay"
Listening == (IF bot = "running" /\ Open THEN {Bot} ELSE {})
             \cup IF t.phase \notin {"none", "exited"} THEN {Tester} ELSE {}

----------------------------------------------------------------------------
(* The bot, as far as the client sees it.                                  *)

BotKeeps == UNCHANGED <<conf, srv, lookupVars, serviceVars, userVars, relayVars, t, counted, h>>

\* a command is dispatched; its handler has some lines to say, or none
BotHears ==
  /\ Hears("SAY") /\ Says(<<>>) /\ UNCHANGED <<b, bot>> /\ BotKeeps
  /\ \E n \in 0..(IF conf.tests[Heard.re] THEN 2 ELSE 1) :
       work' = [i \in DOMAIN work \cup {Heard.re} |-> IF i = Heard.re THEN n ELSE work[i]]
BotSays(i) ==
  /\ bot = "running" /\ Open /\ work[i] > 0
  /\ work' = [work EXCEPT ![i] = @ - 1]
  /\ Sends(<<[cmd |-> "SAY", re |-> i]>>) /\ UNCHANGED <<down, b, bot>> /\ BotKeeps

\* the process ends: by itself where conf says so, or by a signal
BotExits ==
  /\ bot = "running" /\ (conf.crash \/ h.signal # "none")
  /\ bot' = "exited" /\ b' = [b EXCEPT !.phase = "lost"]
  /\ down' = [down EXCEPT ![Bot] = <<>>] /\ UNCHANGED <<up, work>> /\ BotKeeps

----------------------------------------------------------------------------
(* The client.                                                             *)

ClientKeeps == UNCHANGED <<conf, b, srv, lookupVars, serviceVars, userVars, relayVars, bot, work, h>>
TSends(ls) == up' = [up EXCEPT ![Tester] = @ \o ls]
THears == down[Tester] # <<>> /\ down' = [down EXCEPT ![Tester] = Tail(@)]
TLine == Head(down[Tester])
TGoes(r) == t' = r /\ ClientKeeps
Fails == [t EXCEPT !.phase = "closing", !.status = 1]

\* _wait_for_registration
ClientRegisters ==
  /\ t.phase = "registering" /\ THears /\ UNCHANGED counted
  /\ \/ /\ TLine.cmd = "001" /\ TSends(<<Msg("JOIN")>>)
        /\ TGoes([t EXCEPT !.phase = "joining"])
     \/ /\ TLine.cmd = "433" /\ t.collisions = MaxCollisions /\ UNCHANGED up /\ TGoes(Fails)
     \/ /\ TLine.cmd = "433" /\ t.collisions < MaxCollisions
        /\ LET n == <<t.nick[1], t.nick[2] + 1>> IN
           /\ TSends(<<[cmd |-> "NICK", nick |-> n]>>)
           /\ TGoes([t EXCEPT !.nick = n, !.collisions = @ + 1])

\* join
ClientJoins ==
  /\ t.phase = "joining" /\ THears /\ UNCHANGED <<up, counted>>
  /\ IF TLine.cmd = "JOIN" /\ TLine.nick = t.nick
     THEN TGoes([t EXCEPT !.phase = "drain", !.cmd = 1]) ELSE TGoes(t)

\* drain_stale_replies: all that is here by now
Drain ==
  /\ t.phase = "drain" /\ UNCHANGED <<up, counted>>
  /\ IF down[Tester] # <<>> THEN THears /\ TGoes(t)
     ELSE UNCHANGED down /\ TGoes([t EXCEPT !.phase = "send", !.drains = @ + 1])

SendCommand ==
  /\ t.phase = "send" /\ TSends(<<[cmd |-> "SAY", re |-> t.cmd]>>)
  /\ TGoes([t EXCEPT !.phase = "wait", !.replies = 0]) /\ UNCHANGED <<down, counted>>

\* on to the next command, or close and the verdict
NextCommand(r) ==
  LET late == [r EXCEPT !.timeouts = @ + IF r.replies = 0 THEN 1 ELSE 0] IN
  IF r.cmd < Tests THEN [late EXCEPT !.phase = "drain", !.cmd = @ + 1]
  ELSE [late EXCEPT !.phase = "closing", !.status = IF late.timeouts > 0 THEN 1 ELSE 0]

\* _is_bot_nick: the configured nicks, suffixed or not
IsBotNick(n) == \E k \in DOMAIN conf.nicks : n[1] = conf.nicks[k][1]

\* wait_for_result: one reply is enough, unless the command is multiline
CountReply ==
  /\ t.phase = "wait" /\ THears /\ UNCHANGED up
  /\ IF TLine.cmd = "SAY" /\ IsBotNick(TLine.nick)
     THEN /\ counted' = counted \cup {[re |-> TLine.re, for |-> t.cmd, at |-> TLine.at]}
          /\ LET r == [t EXCEPT !.replies = 1] IN
             TGoes(IF conf.tests[t.cmd] THEN r ELSE NextCommand(r))
     ELSE UNCHANGED counted /\ TGoes(t)

\* the quiet after a reply, or the deadline
ReplyDeadline ==
  /\ t.phase = "wait" /\ TGoes(NextCommand(t)) /\ UNCHANGED <<up, down, counted>>
Deadline ==
  /\ t.phase \in {"registering", "joining"} /\ TGoes(Fails) /\ UNCHANGED <<up, down, counted>>

\* close; the process ends
ClientCloses ==
  /\ t.phase = "closing"
  /\ TSends(<<Msg("QUIT")>>) /\ down' = [down EXCEPT ![Tester] = <<>>]
  /\ TGoes([t EXCEPT !.phase = "exited"]) /\ UNCHANGED counted

Client == \/ ClientRegisters \/ ClientJoins \/ Drain \/ SendCommand \/ CountReply
          \/ ReplyDeadline \/ Deadline \/ ClientCloses

----------------------------------------------------------------------------
(* The harness.                                                            *)

HarnessKeeps == UNCHANGED <<regVars, relayVars, work, counted>>

StartBot ==
  /\ h.phase = "start" /\ bot' = "running" /\ h' = [h EXCEPT !.phase = "waitbot"]
  /\ HarnessKeeps /\ UNCHANGED t

\* what the client sends once it is connected
Hello == <<[cmd |-> "NICK", nick |-> conf.testnick], Msg("USER")>>

\* wait_for_bot, by its configured nick, then the client
StartClient ==
  /\ h.phase = "waitbot" /\ bot = "running" /\ ClientJoined(Bot, conf.nicks[1])
  /\ h' = [h EXCEPT !.phase = "client"]
  /\ t' = [t EXCEPT !.phase = "registering", !.nick = conf.testnick]
  /\ up' = [up EXCEPT ![Tester] = Hello]
  /\ UNCHANGED <<conf, b, down, srv, lookupVars, serviceVars, userVars, relayVars, bot, work, counted>>

\* the bot exits, the startup takes too long, the client is done, or an interrupt
Finally ==
  /\ HarnessKeeps /\ UNCHANGED <<bot, t>>
  /\ \/ /\ h.phase = "waitbot"
        /\ h' = [h EXCEPT !.phase = "stopclient", !.status = 1]
     \/ /\ h.phase = "client" /\ t.phase = "exited"
        /\ h' = [h EXCEPT !.phase = "stopclient", !.status = t.status]
     \/ /\ h.phase = "client" /\ t.phase # "exited" /\ bot = "exited"
        /\ h' = [h EXCEPT !.phase = "stopclient", !.status = 1]
     \/ /\ h.phase \in {"waitbot", "client"} /\ conf.crash
        /\ h' = [h EXCEPT !.phase = "stopclient", !.status = 130, !.interrupted = TRUE]

\* terminate_process ends the client in one way or the other
StopClient ==
  /\ h.phase = "stopclient"
  /\ t' = [t EXCEPT !.phase = IF @ = "none" THEN @ ELSE "exited"]
  /\ h' = [h EXCEPT !.phase = "stopbot"]
  /\ down' = [down EXCEPT ![Tester] = <<>>]
  /\ UNCHANGED <<conf, b, up, srv, lookupVars, serviceVars, userVars, relayVars, bot, work, counted>>

\* Mutant: the bot is not killed.
NextSignalMild(s) == IF s = "none" THEN "INT" ELSE IF s = "INT" THEN "TERM" ELSE "done"

\* stop_process: each signal after the last one's timeout
NextSignal(s) == IF s = "none" THEN "INT" ELSE IF s = "INT" THEN "TERM" ELSE "KILL"
StopBot ==
  /\ h.phase = "stopbot" /\ HarnessKeeps /\ UNCHANGED <<bot, t>>
  /\ \/ bot # "running" /\ h' = [h EXCEPT !.phase = "done"]
     \/ /\ bot = "running" /\ h.signal # "KILL"
        /\ h' = IF NextSignal(h.signal) = "done" THEN [h EXCEPT !.phase = "done"]
                ELSE [h EXCEPT !.signal = NextSignal(@)]

Harness == StartBot \/ StartClient \/ Finally \/ StopClient \/ StopBot

----------------------------------------------------------------------------

\* a reply is stamped with the drains the client has done when it arrives
Stamped(line) == IF line.cmd = "SAY" THEN [cmd |-> "SAY", nick |-> line.nick, re |-> line.re, at |-> t.drains]
                 ELSE line
RelayKeeps == UNCHANGED <<conf, b, srv, lookupVars, serviceVars, userVars, smokeVars>>
Gone(c) == IF c = Bot THEN bot = "exited" ELSE t.phase = "exited"
RelayStep(c) ==
  /\ h.phase # "done" /\ RelayKeeps
  /\ Handles(c) \/ RelayQuit(c, Gone(c)) \/ RelaySend(c, Listening, Stamped(Head(todo[c]).line))

NetworkStep == ~Testing /\ RegNext /\ UNCHANGED <<relayVars, smokeVars>>
BotStep == \/ bot = "running" /\ (Register \/ Negotiates) /\ UNCHANGED <<relayVars, smokeVars>>
           \/ bot = "running" /\ (BotHears \/ \E i \in DOMAIN work : BotSays(i))
SmokeStep == Testing /\ (BotStep \/ BotExits \/ Client \/ Harness \/ \E c \in Clients : RelayStep(c))

SmokeSpecInit == Init /\ RelayInit /\ SmokeInit
SmokeNext == NetworkStep \/ SmokeStep

\* Of a network: the reactor reads lines, calls what threads hand it and makes delayed
\* calls, and the server answers; the services and the users owe nothing.  Of the smoke
\* test: each process runs, deadlines pass, and a killed process ends.
SmokeFairness ==
  /\ WF_allVars(~Testing /\ (Register \/ Negotiates) /\ UNCHANGED <<relayVars, smokeVars>>)
  /\ WF_allVars(~Testing /\ Lookups /\ UNCHANGED <<relayVars, smokeVars>>)
  /\ WF_allVars(~Testing /\ Server /\ UNCHANGED <<relayVars, smokeVars>>)
  /\ WF_allVars(~Testing /\ (\E n \in Nicks : LookupTimeout(n)) /\ UNCHANGED <<relayVars, smokeVars>>)
  /\ WF_allVars(~Testing /\ b.phase = "closing" /\ ConnectionLost /\ UNCHANGED <<relayVars, smokeVars>>)
  /\ WF_allVars(Testing /\ Harness) /\ WF_allVars(Testing /\ Client)
  /\ WF_allVars(Testing /\ h.signal = "KILL" /\ BotExits)
Spec == SmokeSpecInit /\ [][SmokeNext]_allVars /\ SmokeFairness

----------------------------------------------------------------------------
(* Properties.                                                             *)

\* The harness passes only if every command was replied to, by replies that came
\* after the client had discarded what was there before it sent the command
\* (drain_stale_replies, wait_for_result, run_target).
VerdictIsHonest ==
  /\ \A r \in counted : r.at >= r.for
  /\ h.phase = "done" /\ h.status = 0 => \A i \in 1..Tests : \E r \in counted : r.for = i

\* When the harness returns, with a verdict, an error or an interrupt, no process it
\* started is running (stop_process, terminate_process); and the relay's clients have
\* had different nicks throughout.
NothingLeftRunning == h.phase = "done" => bot # "running" /\ t.phase \in {"none", "exited"}

\* A smoke test passes for its commands' own sake and cleans up, whatever order the
\* relay's threads, the bot and the deadlines run in.
SmokeTestIsSound == NicksDiffer /\ VerdictIsHonest /\ NothingLeftRunning

\* Registration, lookups and smoke tests end.
HarnessEnds == Testing /\ h.phase = "start" ~> h.phase = "done"
EverythingEnds == RegistrationEnds /\ WaitersAreTold /\ HarnessEnds
============================================================================
