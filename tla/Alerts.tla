------------------------------- MODULE Alerts -------------------------------
(***************************************************************************)
(* pyburlybot_modules/alert.py on util/timer.py, for one network: alerts    *)
(* stored in the database, a looping timer whose check delivers what is due  *)
(* and sets a one-shot timer for what soon will be, commands, reloads of    *)
(* the module, sign-ons, and a process that may die.                        *)
(*                                                                         *)
(* Timers are touched in the reactor; the functions they run, like handlers, *)
(* run in threads, a step for each query or call to the reactor.  Time is   *)
(* in half seconds, and the code reads it in whole ones.                    *)
(***************************************************************************)
EXTENDS Naturals, Sequences, Bags, Functions

CONSTANTS Channels, None,
          Interval,             \* LOOP_INTERVAL, in seconds
          MinDelay,             \* what is sooner is "2fast"
          Slots,                \* bound: threads at work
          MaxAlerts, MaxTime, MaxBreaks   \* bounds

ASSUME AlertsAssumption == MinDelay \in Nat \ {0} /\ Interval \in Nat /\ MinDelay < Interval /\ MaxTime \in Nat

VARIABLES
  alerts,       \* table alert: its rows by id
  timers,       \* Timers.timers: name -> [at, gen]
  threads,      \* the bag of threads at work, by what each is at
  loaded, gen,  \* the module is loaded, and which import of it
  signed,       \* the bot is signed on
  posted,       \* a signedon event was posted by a load
  now,
  breaks,       \* disconnects, reloads and crashes so far
  crashed,
  armed,        \* when the loop was last set up (history)
  late,         \* a thread was kept waiting while time went on (history)
  overtaken     \* the module was unloaded while its functions ran (history)

reloadVars == <<loaded, gen, signed, posted, breaks, crashed, overtaken>>
vars == <<alerts, timers, threads, now, armed, late, reloadVars>>

Second(t) == t \div 2
Loop == {}                    \* the name of the looping timer; others are sets of ids

Idle == [at |-> "idle", ids |-> {}, groups |-> {}, soon |-> {}, t0 |-> 0, chan |-> None, due |-> 0,
         users |-> 0, gen |-> 0]

Init ==
  /\ alerts = <<>> /\ timers = <<>> /\ threads = EmptyBag
  /\ loaded = TRUE /\ gen = 0 /\ signed = FALSE /\ posted = FALSE
  /\ now \in {0, 1} /\ breaks = 0 /\ crashed = FALSE /\ armed = 0 /\ late = FALSE /\ overtaken = FALSE

----------------------------------------------------------------------------
(* Threads and timers.                                                     *)

Quiet == threads = EmptyBag

\* callInThread
Starts(t) == BagCardinality(threads) < Slots /\ threads' = threads (+) SetToBag({t})
Becomes(i, S) == threads' = (threads (-) SetToBag({i})) (+) SetToBag(S)
Goes(i, t) == Becomes(i, {t} \ {Idle})

\* _addTimer; TimerExists is passed over by every caller
SetTimer(n, at, g) == [x \in DOMAIN timers \cup {n} |-> IF x \in DOMAIN timers THEN timers[x] ELSE [at |-> at, gen |-> g]]

Checker == [Idle EXCEPT !.at = "check"]
Setup == [Idle EXCEPT !.at = "setup", !.gen = gen]

\* runTimer of the looping timer, every interval from when it was set
RunLoop ==
  /\ Loop \in DOMAIN timers /\ timers[Loop].at <= now
  /\ Starts(Checker)
  /\ timers' = [timers EXCEPT ![Loop].at = @ + 2 * Interval]
  /\ UNCHANGED <<alerts, now, armed, late, reloadVars>>

\* runTimer of a timer with one repetition left, which leaves the dictionary
RunOnce(n) ==
  /\ n \in DOMAIN timers \ {Loop} /\ timers[n].at <= now
  /\ Starts([Idle EXCEPT !.at = "claim", !.ids = n])
  /\ timers' = Restrict(timers, DOMAIN timers \ {n})
  /\ UNCHANGED <<alerts, now, armed, late, reloadVars>>

----------------------------------------------------------------------------
(* alert.py: the check and the delivery.                                   *)

\* deliver_now: the alerts of a channel
ChannelGroups(S) == {{k \in S : alerts[k].chan = c} : c \in {alerts[k].chan : k \in S}}

\* deliver_soon: the alerts of a channel due at the same time
Groups(S) == {{k \in S : alerts[k].chan = alerts[j].chan /\ alerts[k].due = alerts[j].due} : j \in S}

\* Mutant: the check looks ahead less than an interval.
WithinLess(s) == {k \in DOMAIN alerts : ~alerts[k].delivered /\ alerts[k].due < s + Interval - 1}

\* what a check at s sees to
Within(s) == {k \in DOMAIN alerts : ~alerts[k].delivered /\ alerts[k].due < s + Interval}

\* A next group to deliver now, then one to set a timer for, or the end.  (The code takes
\* them as the rows came, by alert_time.)
Continue(t) ==
  CASE t.groups # {} -> {[t EXCEPT !.at = "claim", !.ids = g, !.groups = @ \ {g}] : g \in t.groups}
    [] t.groups = {} /\ t.soon # {} ->
         {[t EXCEPT !.at = "addtimer", !.ids = g, !.soon = @ \ {g}] : g \in t.soon}
    [] OTHER -> {Idle}

\* check_alerts_callback up to its first delivery
Check(i) ==
  /\ i.at = "check"
  /\ LET s == Second(now)
         due == {k \in Within(s) : alerts[k].due <= s}
         seen == [i EXCEPT !.t0 = s, !.groups = ChannelGroups(due), !.soon = Groups(Within(s) \ due)]
     IN \E t \in Continue(seen) : Goes(i, t)
  /\ UNCHANGED <<alerts, timers, now, armed, late, reloadVars>>

\* the timer is named after the ids, and its delay counts from the check's time
AddTimer(i) ==
  /\ i.at = "addtimer"
  /\ \E k \in i.ids : timers' = SetTimer(i.ids, now + 2 * (alerts[k].due - i.t0), 0)
  /\ \E t \in Continue(i) : Goes(i, t)
  /\ UNCHANGED <<alerts, now, armed, late, reloadVars>>

\* Mutant: a timer delivers what the check saw, claimed by another or not.
ClaimAgain(i) ==
  /\ i.at = "claim"
  /\ alerts' = [k \in DOMAIN alerts |-> IF k \in i.ids
                  THEN [alerts[k] EXCEPT !.delivered = TRUE, !.claimed = Second(now)] ELSE alerts[k]]
  /\ Goes(i, [i EXCEPT !.at = "send"])
  /\ UNCHANGED <<timers, now, armed, late, reloadVars>>

\* deliver_alerts: one batch claims those not delivered yet
Claim(i) ==
  /\ i.at = "claim"
  /\ LET mine == {k \in i.ids : ~alerts[k].delivered} IN
     /\ alerts' = [k \in DOMAIN alerts |-> IF k \in mine
                     THEN [alerts[k] EXCEPT !.delivered = TRUE, !.claimed = Second(now)] ELSE alerts[k]]
     /\ \E t \in IF mine = {} THEN Continue(i) ELSE {[i EXCEPT !.at = "send", !.ids = mine]} : Goes(i, t)
  /\ UNCHANGED <<timers, now, armed, late, reloadVars>>

\* sent: history
Send(i) ==
  /\ i.at = "send"
  /\ alerts' = [k \in DOMAIN alerts |-> IF k \in i.ids THEN [alerts[k] EXCEPT !.sent = @ + 1] ELSE alerts[k]]
  /\ \E t \in Continue(i) : Goes(i, t)
  /\ UNCHANGED <<timers, now, armed, late, reloadVars>>

----------------------------------------------------------------------------
(* alert.py: the command and the events.                                   *)

\* alert, for so many users, up to its first insert
Alert(users, delay, c) ==
  /\ signed /\ loaded /\ delay >= MinDelay
  /\ \A i \in BagToSet(threads) : i.users = 0          \* bound: one command at a time
  /\ Len(alerts) + users <= MaxAlerts /\ Second(now) + delay <= Second(MaxTime) - 1
  /\ Starts([Idle EXCEPT !.at = "insert", !.users = users, !.t0 = Second(now), !.due = Second(now) + delay,
                         !.chan = c])
  /\ UNCHANGED <<alerts, timers, now, armed, late, reloadVars>>

Insert(i) ==
  /\ i.at = "insert"
  /\ alerts' = Append(alerts, [due |-> i.due, chan |-> i.chan, delivered |-> FALSE, claimed |-> 0, sent |-> 0])
  /\ Goes(i, IF i.users > 1 THEN [i EXCEPT !.users = @ - 1]
             ELSE IF i.due < i.t0 + Interval THEN [Idle EXCEPT !.at = "restart"] ELSE Idle)
  /\ UNCHANGED <<timers, now, armed, late, reloadVars>>

\* restarttimer: the loop runs at once.  TimerNotFound ends the handler.
RestartTimer(i) ==
  /\ i.at = "restart"
  /\ IF Loop \in DOMAIN timers
     THEN /\ Becomes(i, {Checker})
          /\ timers' = [timers EXCEPT ![Loop].at = now + 2 * Interval]
     ELSE Goes(i, Idle) /\ UNCHANGED timers
  /\ UNCHANGED <<alerts, now, armed, late, reloadVars>>

\* signedon, of a connection or posted by a load, starts setup_timer
SignOn == /\ Starts(Setup) /\ loaded /\ ~signed /\ signed' = TRUE
          /\ UNCHANGED <<alerts, timers, now, armed, late, loaded, gen, posted, breaks, crashed, overtaken>>
Repost == /\ Starts(Setup) /\ posted /\ posted' = FALSE
          /\ UNCHANGED <<alerts, timers, now, armed, late, loaded, gen, signed, breaks, crashed, overtaken>>

SetupTimer(i) ==
  /\ i.at = "setup"
  /\ timers' = SetTimer(Loop, now + 2 * Interval, i.gen)
  /\ armed' = (IF Loop \in DOMAIN timers THEN armed ELSE now)
  /\ Goes(i, Idle) /\ UNCHANGED <<alerts, now, late, reloadVars>>

Disconnect == /\ breaks < MaxBreaks /\ breaks' = breaks + 1 /\ signed /\ signed' = FALSE
              /\ UNCHANGED <<alerts, timers, threads, now, armed, late, loaded, gen, posted, crashed, overtaken>>

\* Mutant: unload leaves the loop.
UnloadOnce == Restrict(timers, DOMAIN timers \cap {Loop})

\* unload: _delPrefix takes every timer of the module
Unload == <<>>

\* A reload: unload, and a new import unless the module was taken out of the options; a
\* signed-on server's load posts signedon.
Reload(keep) ==
  /\ breaks < MaxBreaks /\ breaks' = breaks + 1 /\ ~posted /\ gen' = gen + 1 /\ loaded' = keep
  /\ timers' = IF loaded THEN Unload ELSE timers
  /\ posted' = (keep /\ signed) /\ overtaken' = (overtaken \/ ~Quiet)
  /\ UNCHANGED <<alerts, threads, now, armed, late, signed, crashed>>

----------------------------------------------------------------------------
(* The world.                                                              *)

\* Timers run when they are due; a thread may be kept waiting (bound: by one tick).
Tick ==
  /\ now < MaxTime /\ \A n \in DOMAIN timers : timers[n].at > now
  /\ late => Quiet /\ ~posted
  /\ now' = now + 1 /\ late' = (late \/ ~Quiet \/ posted)
  /\ UNCHANGED <<alerts, timers, threads, armed, reloadVars>>

Crash ==
  /\ breaks < MaxBreaks /\ breaks' = breaks + 1 /\ crashed' = TRUE
  /\ threads' = EmptyBag /\ timers' = <<>> /\ signed' = FALSE /\ posted' = FALSE
  /\ UNCHANGED <<alerts, now, armed, late, loaded, gen, overtaken>>

Next ==
  \/ RunLoop \/ \E n \in DOMAIN timers : RunOnce(n)
  \/ \E u \in 1..2, d \in 0..(Interval + 1), c \in Channels : Alert(u, d, c)
  \/ \E i \in BagToSet(threads) : \/ Check(i) \/ AddTimer(i) \/ Claim(i) \/ Send(i)
                        \/ Insert(i) \/ RestartTimer(i) \/ SetupTimer(i)
  \/ SignOn \/ Repost \/ Disconnect \/ Tick \/ Crash
  \/ \E k \in BOOLEAN : Reload(k)

Spec == Init /\ [][Next]_vars

----------------------------------------------------------------------------
(* Properties.                                                             *)

\* However many timers, checks and restarts come upon the same alert, it is sent once at
\* most, surely if no crash came between, and never before its time (deliver_alerts'
\* claim, the grouping by due time in check_alerts_callback).
SentOnceWhenDue ==
  \A k \in DOMAIN alerts :
    /\ alerts[k].sent <= 1
    /\ alerts[k].delivered => alerts[k].claimed >= alerts[k].due
    /\ Quiet /\ ~crashed /\ alerts[k].delivered => alerts[k].sent = 1

\* No alert is overlooked between a check and the next, a command and the check it
\* restarts, or a load and the sign-on it posts: while the loop runs, one that is still to
\* be delivered is not a second late, or an interval after the loop was set up anew
\* (LOOP_INTERVAL, restarttimer).
Punctual ==
  Loop \in DOMAIN timers /\ ~late =>
    \A k \in DOMAIN alerts :
      ~alerts[k].delivered => now <= 2 + (IF 2 * alerts[k].due > armed + 2 * Interval THEN 2 * alerts[k].due
                                                                                     ELSE armed + 2 * Interval)

\* When nothing is under way the loop runs if the module is loaded and the server signed
\* on at some time since, it runs this import's function, and no timer of the module is
\* left when it is not loaded.  A function overtaken by a reload may set a timer after
\* unload() took them all, a finding.
TimersFollowModule ==
  Quiet /\ ~posted /\ ~overtaken =>
    /\ signed /\ loaded => Loop \in DOMAIN timers
    /\ Loop \in DOMAIN timers => timers[Loop].gen = gen
    /\ ~loaded => timers = <<>>
=============================================================================
