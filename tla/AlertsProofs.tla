---------------------------- MODULE AlertsProofs ----------------------------
(***************************************************************************)
(* Proofs about Alerts, for every set of channels, any number of alerts,    *)
(* threads, reloads and crashes: an alert is sent once and not before it is *)
(* due, none is overlooked, and the timers are those of the module loaded.  *)
(***************************************************************************)
EXTENDS Alerts, Integers, SequenceTheorems, TLAPS

----------------------------------------------------------------------------
(* Threads: a bag.                                                         *)

IsBag == \A t \in DOMAIN threads : threads[t] \in Nat \ {0}

\* callInThread adds a thread to those at work.
LEMMA ThreadStarts ==
  ASSUME IsBag, NEW t, Starts(t)
  PROVE  /\ IsBag' /\ DOMAIN threads' = DOMAIN threads \cup {t}
         /\ \A x \in DOMAIN threads : x # t => threads'[x] = threads[x]
<1>1. threads' = threads (+) SetToBag({t})
  BY DEF Starts
<1>2. SetToBag({t}) = [e \in {t} |-> 1]
  BY DEF SetToBag
<1>3. DOMAIN threads' = DOMAIN threads \cup {t}
  BY <1>1, <1>2 DEF (+)
<1>4. \A x \in DOMAIN threads' :
        threads'[x] = (IF x \in DOMAIN threads THEN threads[x] ELSE 0) + (IF x \in {t} THEN 1 ELSE 0)
  BY <1>1, <1>2 DEF (+)
<1>. QED  BY <1>3, <1>4 DEF IsBag

\* A step of a thread leaves it at another place, or ends it.
LEMMA ThreadGoes ==
  ASSUME IsBag, NEW i \in DOMAIN threads, NEW t, Goes(i, t)
  PROVE  /\ IsBag' /\ DOMAIN threads' \subseteq DOMAIN threads \cup ({t} \ {Idle})
         /\ \A x \in DOMAIN threads : x # i => x \in DOMAIN threads'
         /\ t # Idle => t \in DOMAIN threads'
         /\ i # t /\ threads[i] = 1 => i \notin DOMAIN threads'
         /\ \A x \in DOMAIN threads' : x # t /\ x # i => threads'[x] = threads[x]
         /\ t \notin DOMAIN threads /\ t # Idle => threads'[t] = 1
<1>. DEFINE B == threads (-) SetToBag({i})
            S == {t} \ {Idle}
<1>1. threads' = B (+) SetToBag(S)
  BY DEF Goes, Becomes
<1>2. SetToBag({i}) = [e \in {i} |-> 1] /\ SetToBag(S) = [e \in S |-> 1]
  BY DEF SetToBag
<1>3. /\ DOMAIN B = {x \in DOMAIN threads : (IF x \in {i} THEN threads[x] - 1 ELSE threads[x]) > 0}
      /\ \A x \in DOMAIN B : B[x] = IF x \in {i} THEN threads[x] - 1 ELSE threads[x]
  BY <1>2 DEF (-)
<1>. HIDE DEF B
<1>4. /\ DOMAIN threads' = DOMAIN B \cup S
      /\ \A x \in DOMAIN threads' :
           threads'[x] = (IF x \in DOMAIN B THEN B[x] ELSE 0) + (IF x \in S THEN 1 ELSE 0)
  BY <1>1, <1>2 DEF (+)
<1>5. /\ \A x \in DOMAIN B : x \in DOMAIN threads /\ B[x] \in Nat \ {0} /\ (x # i => B[x] = threads[x])
      /\ \A x \in DOMAIN threads : x # i => x \in DOMAIN B
      /\ threads[i] = 1 => i \notin DOMAIN B
  BY <1>3 DEF IsBag
<1>6. \A x \in DOMAIN threads' : threads'[x] \in Nat \ {0}
  BY <1>4, <1>5
<1>7. DOMAIN threads' \subseteq DOMAIN threads \cup S
  BY <1>4, <1>5
<1>8. \A x \in DOMAIN threads : x # i => x \in DOMAIN threads'
  BY <1>4, <1>5
<1>9. \A x \in DOMAIN threads' : x # t /\ x # i => threads'[x] = threads[x]
  BY <1>4, <1>5
<1>10. t \notin DOMAIN threads /\ t # Idle => threads'[t] = 1
  BY <1>4, <1>5
<1>11. i # t /\ threads[i] = 1 => i \notin DOMAIN threads'
  BY <1>4, <1>5
<1>. QED  BY <1>4, <1>6, <1>7, <1>8, <1>9, <1>10, <1>11 DEF IsBag

LEMMA NoThreads == Quiet => DOMAIN threads = {}
BY DEF Quiet, EmptyBag, SetToBag

----------------------------------------------------------------------------
(* Types.                                                                  *)

Places == {"idle", "check", "claim", "send", "addtimer", "insert", "restart", "setup"}
Thread == [at : Places, ids : SUBSET Nat, groups : SUBSET (SUBSET Nat), soon : SUBSET (SUBSET Nat),
           t0 : Nat, chan : Channels \cup {None}, due : Nat, users : Nat, gen : Nat]
Row == [due : Nat, chan : Channels \cup {None}, delivered : BOOLEAN, claimed : Nat, sent : Nat]
Timer == [at : Int, gen : Nat]

Typed ==
  /\ alerts \in Seq(Row)
  /\ IsBag /\ DOMAIN threads \subseteq Thread
  /\ timers = [n \in DOMAIN timers |-> timers[n]]
  /\ \A n \in DOMAIN timers : n \subseteq Nat /\ timers[n] \in Timer
  /\ now \in Nat /\ armed \in Nat /\ gen \in Nat

LEMMA Seconds ==
  ASSUME NEW t \in Nat
  PROVE  Second(t) \in Nat /\ 2 * Second(t) <= t /\ t <= 2 * Second(t) + 1
BY DEF Second

LEMMA Threads ==
  /\ Idle \in Thread /\ Checker \in Thread /\ Idle.at = "idle" /\ Checker.at = "check"
  /\ Idle.groups = {} /\ Idle.soon = {} /\ Checker.groups = {} /\ Checker.soon = {}
  /\ gen \in Nat => Setup \in Thread /\ Setup.at = "setup" /\ Setup.groups = {} /\ Setup.soon = {}
                    /\ Setup.gen = gen
<1>1. Idle \in Thread
  BY DEF Idle, Thread, Places
<1>. QED  BY <1>1 DEF Idle, Checker, Setup, Thread, Places

LEMMA ContinueTyped ==
  ASSUME NEW t \in Thread, NEW n \in Continue(t)
  PROVE  n \in Thread /\ n.at \in {"idle", "claim", "addtimer"}
<1>1. CASE t.groups # {}
  <2>1. PICK g \in t.groups : n = [t EXCEPT !.at = "claim", !.ids = g, !.groups = @ \ {g}]
    BY <1>1 DEF Continue
  <2>. QED  BY <2>1 DEF Thread, Places
<1>2. CASE t.groups = {} /\ t.soon # {}
  <2>1. PICK g \in t.soon : n = [t EXCEPT !.at = "addtimer", !.ids = g, !.soon = @ \ {g}]
    BY <1>2 DEF Continue
  <2>. QED  BY <2>1 DEF Thread, Places
<1>3. CASE t.groups = {} /\ t.soon = {}
  BY <1>3, Threads DEF Continue
<1>. QED  BY <1>1, <1>2, <1>3

\* The rows with some of them changed.
LEMMA RowsChanged ==
  ASSUME NEW S, NEW s \in Seq(S), NEW f, f = [k \in DOMAIN s |-> f[k]], \A k \in DOMAIN s : f[k] \in S
  PROVE  f \in Seq(S) /\ DOMAIN f = DOMAIN s
<1>1. PICK n \in Nat : n = Len(s)
  OBVIOUS
<1>2. DOMAIN s = 1..n
  BY <1>1
<1>3. f \in [1..n -> S]
  BY <1>2
<1>. QED  BY <1>2, <1>3, IsASeq

\* A thread that starts, or goes on, is a thread.
LEMMA ThreadsTyped ==
  ASSUME IsBag, DOMAIN threads \subseteq Thread, NEW t \in Thread,
         Starts(t) \/ \E i \in DOMAIN threads : Goes(i, t)
  PROVE  IsBag' /\ DOMAIN threads' \subseteq Thread
<1>1. CASE Starts(t)
  <2>1. IsBag' /\ DOMAIN threads' = DOMAIN threads \cup {t}
    BY <1>1, ThreadStarts
  <2>. QED  BY <2>1
<1>2. ASSUME NEW i \in DOMAIN threads, Goes(i, t) PROVE IsBag' /\ DOMAIN threads' \subseteq Thread
  BY <1>2, ThreadGoes
<1>. QED  BY <1>1, <1>2
\* Which thread a step of a thread leaves.
Steps(i) == Check(i) \/ AddTimer(i) \/ Claim(i) \/ Send(i) \/ Insert(i) \/ RestartTimer(i) \/ SetupTimer(i)

\* What check_alerts_callback found.
Seen(i) ==
  LET s == Second(now)
      due == {k \in Within(s) : alerts[k].due <= s}
  IN [i EXCEPT !.t0 = s, !.groups = ChannelGroups(due), !.soon = Groups(Within(s) \ due)]
Mine(i) == {k \in i.ids : ~alerts[k].delivered}

LEMMA SeenTyped ==
  ASSUME Typed, NEW i \in DOMAIN threads
  PROVE  Seen(i) \in Thread
<1>1. i \in Thread /\ Second(now) \in Nat /\ DOMAIN alerts \subseteq Nat
  BY Seconds DEF Typed
<1>2. ASSUME NEW S \in SUBSET DOMAIN alerts
      PROVE  ChannelGroups(S) \in SUBSET (SUBSET Nat) /\ Groups(S) \in SUBSET (SUBSET Nat)
  BY <1>1 DEF ChannelGroups, Groups
<1>. DEFINE s == Second(now)
            due == {k \in Within(s) : alerts[k].due <= s}
<1>3. due \in SUBSET DOMAIN alerts /\ Within(s) \ due \in SUBSET DOMAIN alerts
  BY DEF Within
<1>4. ChannelGroups(due) \in SUBSET (SUBSET Nat) /\ Groups(Within(s) \ due) \in SUBSET (SUBSET Nat)
  BY <1>2, <1>3
<1>. HIDE DEF due
<1>5. [i EXCEPT !.t0 = s, !.groups = ChannelGroups(due), !.soon = Groups(Within(s) \ due)] \in Thread
  BY <1>1, <1>4 DEF Thread
<1>. QED  BY <1>5 DEF Seen, due

\* What a thread becomes.
Successors(i) ==
  CASE i.at = "check" -> Continue(Seen(i))
    [] i.at \in {"addtimer", "send"} -> Continue(i)
    [] i.at = "claim" -> IF Mine(i) = {} THEN Continue(i) ELSE {[i EXCEPT !.at = "send", !.ids = Mine(i)]}
    [] i.at = "insert" -> {IF i.users > 1 THEN [i EXCEPT !.users = @ - 1]
                           ELSE IF i.due < i.t0 + Interval THEN [Idle EXCEPT !.at = "restart"] ELSE Idle}
    [] i.at = "restart" -> {Checker, Idle}
    [] OTHER -> {Idle}

\* Every step of a thread takes it to one of its successors.
LEMMA StepGoes ==
  ASSUME NEW i \in DOMAIN threads, Steps(i)
  PROVE  \E t \in Successors(i) : Goes(i, t)
<1>1. CASE Check(i)
  BY <1>1 DEF Check, Successors, Seen
<1>2. CASE AddTimer(i)
  BY <1>2 DEF AddTimer, Successors
<1>3. CASE Claim(i)
  BY <1>3 DEF Claim, Successors, Mine
<1>4. CASE Send(i)
  BY <1>4 DEF Send, Successors
<1>5. CASE Insert(i)
  BY <1>5 DEF Insert, Successors
<1>6. CASE RestartTimer(i)
  <2>1. Becomes(i, {Checker}) => Goes(i, Checker)
    <3>1. {Checker} \ {Idle} = {Checker}
      BY Threads
    <3>. QED  BY <3>1 DEF Goes
  <2>. QED  BY <1>6, <2>1 DEF RestartTimer, Successors
<1>7. CASE SetupTimer(i)
  BY <1>7 DEF SetupTimer, Successors
<1>. QED  BY <1>1, <1>2, <1>3, <1>4, <1>5, <1>6, <1>7 DEF Steps

LEMMA SuccessorsTyped ==
  ASSUME Typed, NEW i \in DOMAIN threads, NEW t \in Successors(i)
  PROVE  t \in Thread /\ (t.at = "send" => i.at = "claim" /\ Mine(i) # {})
<1>1. i \in Thread
  BY DEF Typed
<1>2. CASE i.at = "check"
  BY <1>2, SeenTyped, ContinueTyped DEF Successors
<1>3. CASE i.at \in {"addtimer", "send"} \/ (i.at = "claim" /\ Mine(i) = {})
  BY <1>1, <1>3, ContinueTyped DEF Successors
<1>4. CASE i.at = "claim" /\ Mine(i) # {}
  <2>1. t = [i EXCEPT !.at = "send", !.ids = Mine(i)] /\ Mine(i) \subseteq i.ids
    BY <1>4 DEF Successors, Mine
  <2>. QED  BY <1>1, <1>4, <2>1 DEF Thread, Places
<1>5. CASE i.at = "insert"
  <2>1. \/ i.users > 1 /\ t = [i EXCEPT !.users = @ - 1]
        \/ t = [Idle EXCEPT !.at = "restart"] \/ t = Idle
    BY <1>5 DEF Successors
  <2>2. [Idle EXCEPT !.at = "restart"] \in Thread /\ [Idle EXCEPT !.at = "restart"].at = "restart"
    BY Threads DEF Thread, Places
  <2>3. CASE i.users > 1 /\ t = [i EXCEPT !.users = @ - 1]
    BY <1>1, <1>5, <2>3 DEF Thread
  <2>. QED  BY <2>1, <2>2, <2>3, Threads
<1>6. CASE i.at \in {"restart", "setup", "idle"}
  BY <1>6, Threads DEF Successors
<1>. QED  BY <1>1, <1>2, <1>3, <1>4, <1>5, <1>6 DEF Thread, Places

\* What starts a thread, and which.
Started(t) ==
  \/ RunLoop /\ t = Checker
  \/ \E n \in DOMAIN timers : RunOnce(n) /\ t = [Idle EXCEPT !.at = "claim", !.ids = n]
  \/ \E u \in 1..2, d \in 0..(Interval + 1), c \in Channels :
       /\ Alert(u, d, c)
       /\ t = [Idle EXCEPT !.at = "insert", !.users = u, !.t0 = Second(now), !.due = Second(now) + d, !.chan = c]
  \/ (SignOn \/ Repost) /\ t = Setup

LEMMA StartTyped ==
  ASSUME Typed, NEW t, Started(t)
  PROVE  t \in Thread /\ t.at # "send" /\ Starts(t)
<1>1. CASE (RunLoop /\ t = Checker) \/ ((SignOn \/ Repost) /\ t = Setup)
  BY <1>1, Threads DEF RunLoop, SignOn, Repost, Typed
<1>2. ASSUME NEW n \in DOMAIN timers, RunOnce(n), t = [Idle EXCEPT !.at = "claim", !.ids = n]
      PROVE  t \in Thread /\ t.at # "send" /\ Starts(t)
  BY <1>2, Threads DEF RunOnce, Typed, Thread, Places
<1>3. ASSUME NEW u \in 1..2, NEW d \in 0..(Interval + 1), NEW c \in Channels, Alert(u, d, c),
             t = [Idle EXCEPT !.at = "insert", !.users = u, !.t0 = Second(now), !.due = Second(now) + d, !.chan = c]
      PROVE  t \in Thread /\ t.at # "send" /\ Starts(t)
  <2>1. Second(now) \in Nat /\ Second(now) + d \in Nat /\ u \in Nat
    BY Seconds, AlertsAssumption, SMTT(20) DEF Typed
  <2>2. t \in Thread /\ t.at = "insert"
    BY <1>3, <2>1, Threads DEF Thread, Places
  <2>. QED  BY <1>3, <2>2 DEF Alert
<1>. QED  BY <1>1, <1>2, <1>3 DEF Started

\* The actions, by what they do to the threads.
LEMMA NextKinds ==
  Next => \/ \E i \in DOMAIN threads : Steps(i)
          \/ \E t : Started(t)
          \/ Disconnect \/ Tick \/ Crash \/ \E k \in BOOLEAN : Reload(k)
BY DEF Next, Steps, Started, BagToSet

TimersTyped == /\ timers = [n \in DOMAIN timers |-> timers[n]]
               /\ \A n \in DOMAIN timers : n \subseteq Nat /\ timers[n] \in Timer

\* What _addTimer adds, and what it leaves.
LEMMA SetTimerTyped ==
  ASSUME TimersTyped, NEW n \in SUBSET Nat, NEW at \in Int, NEW g \in Nat, timers' = SetTimer(n, at, g)
  PROVE  /\ TimersTyped' /\ DOMAIN timers' = DOMAIN timers \cup {n}
         /\ \A x \in DOMAIN timers : timers'[x] = timers[x]
         /\ n \notin DOMAIN timers => timers'[n] = [at |-> at, gen |-> g]
<1>1. timers' = [x \in DOMAIN timers \cup {n} |-> IF x \in DOMAIN timers THEN timers[x] ELSE [at |-> at, gen |-> g]]
  BY DEF SetTimer
<1>2. [at |-> at, gen |-> g] \in Timer
  BY DEF Timer
<1>. QED  BY <1>1, <1>2 DEF TimersTyped

\* The loop's timer set to another time.
LEMMA LoopMoved ==
  ASSUME TimersTyped, Loop \in DOMAIN timers, NEW at \in Int, timers' = [timers EXCEPT ![Loop].at = at]
  PROVE  /\ TimersTyped' /\ DOMAIN timers' = DOMAIN timers
         /\ timers'[Loop].at = at /\ timers'[Loop].gen = timers[Loop].gen
         /\ \A x \in DOMAIN timers : x # Loop => timers'[x] = timers[x]
<1>1. timers[Loop] \in Timer
  BY DEF TimersTyped
<1>2. [timers[Loop] EXCEPT !.at = at] \in Timer /\ [timers[Loop] EXCEPT !.at = at].at = at
      /\ [timers[Loop] EXCEPT !.at = at].gen = timers[Loop].gen
  BY <1>1 DEF Timer
<1>3. /\ DOMAIN timers' = DOMAIN timers /\ timers' = [n \in DOMAIN timers' |-> timers'[n]]
      /\ timers'[Loop] = [timers[Loop] EXCEPT !.at = at]
      /\ \A x \in DOMAIN timers : x # Loop => timers'[x] = timers[x]
  BY DEF TimersTyped
<1>. QED  BY <1>2, <1>3 DEF TimersTyped

\* A group for a timer has alerts, due at one time, which the check at s found to come.
Alike(g, s) == /\ g # {}
               /\ \A k \in g : k \in DOMAIN alerts /\ s <= alerts[k].due
               /\ \A j, k \in g : alerts[j].due = alerts[k].due
Due(g) == \A k \in g : k \in DOMAIN alerts /\ alerts[k].due <= Second(now)

\* What a thread is about to deliver is due, and what it is to set timers for is known.
Scheduled(x) ==
  /\ x.soon # {} \/ x.at = "addtimer" => x.t0 <= Second(now)
  /\ \A g \in x.groups : Due(g)
  /\ x.at = "claim" => Due(x.ids)
  /\ \A g \in x.soon : Alike(g, x.t0)
  /\ x.at = "addtimer" => Alike(x.ids, x.t0)
Schedules == \A x \in DOMAIN threads : Scheduled(x)

\* A timer goes off no earlier than its alerts are due.
TimersSet == \A n \in DOMAIN timers \ {Loop} : \A k \in n :
               k \in DOMAIN alerts /\ 2 * alerts[k].due <= timers[n].at

LEMMA StepsTimersTyped ==
  ASSUME Typed, Schedules, NEW i \in DOMAIN threads, Steps(i)
  PROVE  TimersTyped'
<1>1. i \in Thread /\ TimersTyped /\ now \in Nat /\ Interval \in Nat
  BY AlertsAssumption DEF Typed, TimersTyped
<1>2. CASE AddTimer(i)
  <2>1. PICK k \in i.ids : timers' = SetTimer(i.ids, now + 2 * (alerts[k].due - i.t0), 0)
    BY <1>2 DEF AddTimer
  <2>2. k \in DOMAIN alerts
    BY <1>2, <2>1 DEF AddTimer, Schedules, Scheduled, Alike
  <2>6. alerts[k] \in Row
    BY <2>2 DEF Typed
  <2>3. alerts[k].due \in Nat
    BY <2>6 DEF Row
  <2>4. i.t0 \in Nat /\ i.ids \in SUBSET Nat
    BY <1>1 DEF Thread
  <2>5. PICK at \in Int : at = now + 2 * (alerts[k].due - i.t0)
    BY <1>1, <2>3, <2>4
  <2>. QED  BY <1>1, <2>1, <2>4, <2>5, SetTimerTyped
<1>3. CASE SetupTimer(i)
  <2>1. i.gen \in Nat /\ Loop \in SUBSET Nat
    BY <1>1 DEF Thread, Loop
  <2>2. PICK at \in Int : at = now + 2 * Interval
    BY <1>1
  <2>. QED  BY <1>1, <1>3, <2>1, <2>2, SetTimerTyped DEF SetupTimer
<1>4. CASE RestartTimer(i)
  <2>1. PICK at \in Int : at = now + 2 * Interval
    BY <1>1
  <2>2. CASE Loop \in DOMAIN timers
    BY <1>1, <1>4, <2>1, <2>2, LoopMoved DEF RestartTimer
  <2>3. CASE Loop \notin DOMAIN timers
    BY <1>1, <1>4, <2>3 DEF RestartTimer, TimersTyped
  <2>. QED  BY <2>2, <2>3
<1>5. CASE UNCHANGED timers
  BY <1>1, <1>5 DEF TimersTyped
<1>. QED  BY <1>2, <1>3, <1>4, <1>5 DEF Steps, Check, Claim, Send, Insert

LEMMA StartsTimersTyped ==
  ASSUME Typed, NEW t, Started(t)
  PROVE  TimersTyped'
<1>1. TimersTyped /\ now \in Nat /\ Interval \in Nat
  BY AlertsAssumption DEF Typed, TimersTyped
<1>2. CASE RunLoop
  <2>1. Loop \in DOMAIN timers /\ timers' = [timers EXCEPT ![Loop].at = timers[Loop].at + 2 * Interval]
    BY <1>2 DEF RunLoop
  <2>2. PICK at \in Int : at = timers[Loop].at + 2 * Interval
    BY <1>1, <2>1 DEF TimersTyped, Timer
  <2>. QED  BY <1>1, <2>1, <2>2, LoopMoved
<1>3. ASSUME NEW n \in DOMAIN timers, RunOnce(n) PROVE TimersTyped'
  BY <1>1, <1>3 DEF RunOnce, Restrict, TimersTyped
<1>4. CASE UNCHANGED timers
  BY <1>1, <1>4 DEF TimersTyped
<1>. QED  BY <1>2, <1>3, <1>4 DEF Started, Alert, SignOn, Repost

\* The rows only grow more, and what they say is due stays.
Grows == /\ alerts' \in Seq(Row) /\ DOMAIN alerts \subseteq DOMAIN alerts'
         /\ \A k \in DOMAIN alerts : alerts'[k].due = alerts[k].due

LEMMA ClaimRows ==
  ASSUME Typed, NEW i \in DOMAIN threads, Claim(i)
  PROVE  /\ Grows /\ DOMAIN alerts' = DOMAIN alerts
         /\ \A k \in DOMAIN alerts : alerts'[k] =
              IF k \in Mine(i) THEN [alerts[k] EXCEPT !.delivered = TRUE, !.claimed = Second(now)] ELSE alerts[k]
<1>1. alerts' = [k \in DOMAIN alerts |->
        IF k \in Mine(i) THEN [alerts[k] EXCEPT !.delivered = TRUE, !.claimed = Second(now)] ELSE alerts[k]]
  BY DEF Claim, Mine
<1>2. Second(now) \in Nat /\ alerts \in Seq(Row)
  BY Seconds DEF Typed
<1>3. ASSUME NEW k \in DOMAIN alerts
      PROVE  /\ alerts'[k] \in Row /\ alerts'[k].due = alerts[k].due
  <2>1. alerts[k] \in Row
    BY <1>2
  <2>. QED  BY <1>1, <1>2, <2>1 DEF Row
<1>4. alerts' = [k \in DOMAIN alerts |-> alerts'[k]]
  BY <1>1
<1>. DEFINE new == alerts'
<1>. HIDE DEF new
<1>5. new \in Seq(Row) /\ DOMAIN new = DOMAIN alerts
  BY <1>2, <1>3, <1>4, RowsChanged DEF new
<1>. QED  BY <1>1, <1>3, <1>5 DEF Grows, new

LEMMA SendRows ==
  ASSUME Typed, NEW i \in DOMAIN threads, Send(i)
  PROVE  /\ Grows /\ DOMAIN alerts' = DOMAIN alerts
         /\ \A k \in DOMAIN alerts : alerts'[k] =
              IF k \in i.ids THEN [alerts[k] EXCEPT !.sent = @ + 1] ELSE alerts[k]
<1>1. alerts' = [k \in DOMAIN alerts |-> IF k \in i.ids THEN [alerts[k] EXCEPT !.sent = @ + 1] ELSE alerts[k]]
  BY DEF Send
<1>2. alerts \in Seq(Row)
  BY DEF Typed
<1>3. ASSUME NEW k \in DOMAIN alerts
      PROVE  /\ alerts'[k] \in Row /\ alerts'[k].due = alerts[k].due
  <2>1. alerts[k] \in Row
    BY <1>2
  <2>. QED  BY <1>1, <2>1 DEF Row
<1>4. alerts' = [k \in DOMAIN alerts |-> alerts'[k]]
  BY <1>1
<1>. DEFINE new == alerts'
<1>. HIDE DEF new
<1>5. new \in Seq(Row) /\ DOMAIN new = DOMAIN alerts
  BY <1>2, <1>3, <1>4, RowsChanged DEF new
<1>. QED  BY <1>1, <1>3, <1>5 DEF Grows, new

LEMMA InsertRows ==
  ASSUME Typed, NEW i \in DOMAIN threads, Insert(i)
  PROVE  /\ Grows
         /\ \A k \in DOMAIN alerts : alerts'[k] = alerts[k]
         /\ \A k \in DOMAIN alerts' : k \notin DOMAIN alerts =>
              alerts'[k] = [due |-> i.due, chan |-> i.chan, delivered |-> FALSE, claimed |-> 0, sent |-> 0]
<1>. DEFINE r == [due |-> i.due, chan |-> i.chan, delivered |-> FALSE, claimed |-> 0, sent |-> 0]
<1>1. alerts \in Seq(Row) /\ r \in Row /\ alerts' = Append(alerts, r)
  BY DEF Typed, Thread, Row, Insert
<1>. HIDE DEF r
<1>2. /\ alerts' \in Seq(Row) /\ DOMAIN alerts = 1..Len(alerts) /\ DOMAIN alerts' = 1..(Len(alerts) + 1)
      /\ Len(alerts) \in Nat /\ alerts'[Len(alerts) + 1] = r
      /\ \A k \in 1..Len(alerts) : alerts'[k] = alerts[k]
  BY <1>1
<1>. QED  BY <1>2 DEF Grows, r

\* No action takes a row away or changes when an alert is due.
LEMMA AlwaysGrows == Typed /\ [Next]_vars => Grows
<1>. SUFFICES ASSUME Typed, [Next]_vars PROVE Grows
  OBVIOUS
<1>1. CASE UNCHANGED alerts
  BY <1>1 DEF Grows, Typed
<1>2. ASSUME NEW i \in DOMAIN threads, Steps(i) PROVE Grows
  BY <1>1, <1>2, ClaimRows, SendRows, InsertRows DEF Steps, Check, AddTimer, RestartTimer, SetupTimer
<1>3. ASSUME NEW t, Started(t) PROVE Grows
  BY <1>1, <1>3 DEF Started, RunLoop, RunOnce, Alert, SignOn, Repost
<1>. QED  BY <1>1, <1>2, <1>3, NextKinds DEF Disconnect, Tick, Crash, Reload, vars

LEMMA ScalarsTyped ==
  ASSUME Typed, [Next]_vars
  PROVE  now' \in Nat /\ armed' \in Nat /\ gen' \in Nat /\ now <= now' /\ Second(now) <= Second(now')
<1>1. now \in Nat /\ armed \in Nat /\ gen \in Nat
  BY DEF Typed
<1>2. now' \in Nat /\ armed' \in Nat /\ gen' \in Nat /\ now <= now'
  <2>1. CASE UNCHANGED <<now, armed, gen>>
    BY <1>1, <2>1
  <2>2. ASSUME NEW i \in DOMAIN threads, Steps(i) PROVE UNCHANGED <<now, gen>> /\ armed' \in {armed, now}
    BY <2>2 DEF Steps, Check, AddTimer, Claim, Send, Insert, RestartTimer, SetupTimer, reloadVars
  <2>3. ASSUME NEW t, Started(t) PROVE UNCHANGED <<now, armed, gen>>
    BY <2>3 DEF Started, RunLoop, RunOnce, Alert, SignOn, Repost, reloadVars
  <2>4. CASE Disconnect \/ Tick \/ Crash \/ \E k \in BOOLEAN : Reload(k)
    BY <1>1, <2>4 DEF Disconnect, Tick, Crash, Reload, reloadVars
  <2>. QED  BY <1>1, <2>1, <2>2, <2>3, <2>4, NextKinds DEF vars, reloadVars
<1>3. /\ Second(now) \in Nat /\ 2 * Second(now) <= now
      /\ Second(now') \in Nat /\ now' <= 2 * Second(now') + 1
  BY <1>1, <1>2, Seconds
<1>. QED  BY <1>1, <1>2, <1>3

LEMMA TypedStep == Typed /\ Schedules /\ [Next]_vars => Typed'
<1>. SUFFICES ASSUME Typed, Schedules, [Next]_vars PROVE Typed'
  OBVIOUS
<1>1. alerts' \in Seq(Row) /\ now' \in Nat /\ armed' \in Nat /\ gen' \in Nat
  BY AlwaysGrows, ScalarsTyped DEF Grows
<1>2. TimersTyped /\ IsBag /\ DOMAIN threads \subseteq Thread
  BY DEF Typed, TimersTyped
<1>3. IsBag' /\ DOMAIN threads' \subseteq Thread /\ TimersTyped'
  <2>1. CASE UNCHANGED <<threads, timers>>
    BY <1>2, <2>1 DEF IsBag, TimersTyped
  <2>2. ASSUME NEW i \in DOMAIN threads, Steps(i)
        PROVE  IsBag' /\ DOMAIN threads' \subseteq Thread /\ TimersTyped'
    <3>1. PICK t \in Successors(i) : Goes(i, t)
      BY <2>2, StepGoes
    <3>2. t \in Thread
      BY SuccessorsTyped
    <3>3. IsBag' /\ DOMAIN threads' \subseteq Thread
      BY <1>2, <3>1, <3>2, ThreadsTyped
    <3>. QED  BY <2>2, <3>3, StepsTimersTyped
  <2>3. ASSUME NEW t, Started(t)
        PROVE  IsBag' /\ DOMAIN threads' \subseteq Thread /\ TimersTyped'
    <3>1. t \in Thread /\ Starts(t)
      BY <2>3, StartTyped
    <3>2. IsBag' /\ DOMAIN threads' \subseteq Thread
      BY <1>2, <3>1, ThreadsTyped
    <3>. QED  BY <2>3, <3>2, StartsTimersTyped
  <2>4. CASE Crash
    <3>1. DOMAIN threads' = {} /\ DOMAIN timers' = {} /\ timers' = [n \in DOMAIN timers' |-> timers'[n]]
      BY <2>4 DEF Crash, EmptyBag, SetToBag
    <3>. QED  BY <3>1 DEF IsBag, TimersTyped
  <2>5. ASSUME NEW k \in BOOLEAN, Reload(k)
        PROVE  IsBag' /\ DOMAIN threads' \subseteq Thread /\ TimersTyped'
    <3>1. CASE timers' = <<>>
      <4>1. DOMAIN timers' = {} /\ timers' = [n \in DOMAIN timers' |-> timers'[n]]
        BY <3>1
      <4>. QED  BY <1>2, <2>5, <4>1 DEF Reload, IsBag, TimersTyped
    <3>. QED  BY <1>2, <2>1, <2>5, <3>1 DEF Reload, Unload
  <2>. QED  BY <2>1, <2>2, <2>3, <2>4, <2>5, NextKinds DEF Disconnect, Tick, vars
<1>. QED  BY <1>1, <1>3 DEF Typed, TimersTyped

----------------------------------------------------------------------------
(* What is scheduled is due.                                               *)

LEMMA StaysScheduled ==
  ASSUME Grows, Second(now) <= Second(now'), Second(now) \in Nat, Second(now') \in Nat,
         NEW x \in Thread, Scheduled(x)
  PROVE  Scheduled(x)'
<1>1. ASSUME NEW g, Due(g) PROVE Due(g)'
  <2>. SUFFICES ASSUME NEW k \in g PROVE k \in DOMAIN alerts' /\ alerts'[k].due <= Second(now')
    BY DEF Due
  <2>1. k \in DOMAIN alerts /\ alerts[k].due <= Second(now)
    BY <1>1 DEF Due
  <2>2. k \in DOMAIN alerts' /\ alerts'[k] \in Row /\ alerts'[k].due = alerts[k].due
    BY <2>1 DEF Grows
  <2>3. alerts'[k].due \in Nat
    BY <2>2 DEF Row
  <2>. QED  BY <2>1, <2>2, <2>3
<1>2. ASSUME NEW g, Alike(g, x.t0) PROVE Alike(g, x.t0)'
  BY <1>2 DEF Alike, Grows
<1>. QED  BY <1>1, <1>2 DEF Scheduled, Thread

\* A thread that goes on does so with what it had.
LEMMA ContinueScheduled ==
  ASSUME NEW t \in Thread, Scheduled(t), NEW n \in Continue(t)
  PROVE  Scheduled(n)
<1>1. CASE t.groups # {}
  <2>1. PICK g \in t.groups : n = [t EXCEPT !.at = "claim", !.ids = g, !.groups = @ \ {g}]
    BY <1>1 DEF Continue
  <2>2. n.at = "claim" /\ n.ids = g /\ n.groups \subseteq t.groups /\ n.soon = t.soon /\ n.t0 = t.t0
    BY <2>1 DEF Thread
  <2>. QED  BY <2>2 DEF Scheduled
<1>2. CASE t.groups = {} /\ t.soon # {}
  <2>1. PICK g \in t.soon : n = [t EXCEPT !.at = "addtimer", !.ids = g, !.soon = @ \ {g}]
    BY <1>2 DEF Continue
  <2>2. n.at = "addtimer" /\ n.ids = g /\ n.groups = t.groups /\ n.soon \subseteq t.soon /\ n.t0 = t.t0
    BY <2>1 DEF Thread
  <2>. QED  BY <1>2, <2>2 DEF Scheduled
<1>3. CASE t.groups = {} /\ t.soon = {}
  BY <1>3, Threads DEF Continue, Scheduled
<1>. QED  BY <1>1, <1>2, <1>3

\* What the check finds is grouped by when it is due.
LEMMA SeenScheduled ==
  ASSUME Typed, NEW i \in DOMAIN threads, i.at = "check"
  PROVE  Scheduled(Seen(i))
<1>. DEFINE s == Second(now)
            due == {k \in Within(s) : alerts[k].due <= s}
            rest == Within(s) \ due
<1>1. s \in Nat /\ i \in Thread
  BY Seconds DEF Typed
<1>7. \A k \in DOMAIN alerts : alerts[k] \in Row
  BY DEF Typed
<1>2. \A k \in DOMAIN alerts : alerts[k].due \in Nat
  BY <1>7 DEF Row
<1>3. /\ \A k \in due : k \in DOMAIN alerts /\ alerts[k].due <= s
      /\ \A k \in rest : k \in DOMAIN alerts /\ s <= alerts[k].due
  BY <1>1, <1>2 DEF Within
<1>4. /\ Seen(i).at = "check" /\ Seen(i).t0 = s
      /\ Seen(i).groups = ChannelGroups(due) /\ Seen(i).soon = Groups(rest)
  BY <1>1 DEF Seen, Thread
<1>. HIDE DEF due, rest
<1>5. \A g \in ChannelGroups(due) : Due(g)
  BY <1>3 DEF ChannelGroups, Due
<1>6. ASSUME NEW g \in Groups(rest) PROVE Alike(g, s)
  <2>1. PICK j \in rest : g = {k \in rest : alerts[k].chan = alerts[j].chan /\ alerts[k].due = alerts[j].due}
    BY <1>6 DEF Groups
  <2>. QED  BY <1>3, <2>1 DEF Alike
<1>. QED  BY <1>1, <1>4, <1>5, <1>6 DEF Scheduled

LEMMA SuccessorsScheduled ==
  ASSUME Typed, Schedules, NEW i \in DOMAIN threads, NEW t \in Successors(i)
  PROVE  Scheduled(t)
<1>1. i \in Thread /\ Scheduled(i)
  BY DEF Typed, Schedules
<1>2. CASE i.at = "check"
  BY <1>2, SeenTyped, SeenScheduled, ContinueScheduled DEF Successors
<1>3. CASE i.at \in {"addtimer", "send"} \/ (i.at = "claim" /\ Mine(i) = {})
  BY <1>1, <1>3, ContinueScheduled DEF Successors
<1>4. CASE i.at = "claim" /\ Mine(i) # {}
  <2>1. t = [i EXCEPT !.at = "send", !.ids = Mine(i)]
    BY <1>4 DEF Successors
  <2>2. t.at = "send" /\ t.groups = i.groups /\ t.soon = i.soon /\ t.t0 = i.t0
    BY <1>1, <2>1 DEF Thread
  <2>. QED  BY <1>1, <2>2 DEF Scheduled
<1>5. CASE i.at = "insert"
  <2>1. \/ i.users > 1 /\ t = [i EXCEPT !.users = @ - 1]
        \/ t = [Idle EXCEPT !.at = "restart"] \/ t = Idle
    BY <1>5 DEF Successors
  <2>2. CASE t = [Idle EXCEPT !.at = "restart"] \/ t = Idle
    <3>1. t.groups = {} /\ t.soon = {} /\ t.at \in {"idle", "restart"}
      BY <2>2, Threads DEF Idle
    <3>. QED  BY <3>1 DEF Scheduled
  <2>3. CASE t = [i EXCEPT !.users = @ - 1]
    <3>1. t.at = "insert" /\ t.groups = i.groups /\ t.soon = i.soon /\ t.t0 = i.t0
      BY <1>1, <1>5, <2>3 DEF Thread
    <3>. QED  BY <1>1, <3>1 DEF Scheduled
  <2>. QED  BY <2>1, <2>2, <2>3
<1>6. CASE i.at \in {"restart", "setup", "idle"}
  <2>1. t.groups = {} /\ t.soon = {} /\ t.at \in {"idle", "check"}
    BY <1>6, Threads DEF Successors
  <2>. QED  BY <2>1 DEF Scheduled
<1>. QED  BY <1>1, <1>2, <1>3, <1>4, <1>5, <1>6 DEF Thread, Places

LEMMA StartScheduled ==
  ASSUME Typed, TimersSet, NEW t, Started(t)
  PROVE  Scheduled(t)
<1>1. CASE (RunLoop /\ t = Checker) \/ ((SignOn \/ Repost) /\ t = Setup)
  BY <1>1, Threads DEF Scheduled, Typed
<1>2. ASSUME NEW n \in DOMAIN timers, RunOnce(n), t = [Idle EXCEPT !.at = "claim", !.ids = n]
      PROVE  Scheduled(t)
  <2>1. t.groups = {} /\ t.soon = {} /\ t.at = "claim" /\ t.ids = n
    BY <1>2, Threads DEF Idle
  <2>2. n # Loop /\ timers[n].at <= now /\ timers[n].at \in Int /\ now \in Nat
    BY <1>2 DEF RunOnce, Typed, Timer
  <2>3. /\ Second(now) \in Nat /\ now <= 2 * Second(now) + 1
    BY <2>2, Seconds
  <2>4. ASSUME NEW k \in n PROVE k \in DOMAIN alerts /\ alerts[k].due <= Second(now)
    <3>1. k \in DOMAIN alerts /\ 2 * alerts[k].due <= timers[n].at
      BY <1>2, <2>2, <2>4 DEF TimersSet
    <3>2. alerts[k] \in Row
      BY <3>1 DEF Typed
    <3>3. alerts[k].due \in Nat
      BY <3>2 DEF Row
    <3>. QED  BY <2>2, <2>3, <3>1, <3>3
  <2>. QED  BY <2>1, <2>4 DEF Scheduled, Due
<1>3. ASSUME NEW u \in 1..2, NEW d \in 0..(Interval + 1), NEW c \in Channels, Alert(u, d, c),
             t = [Idle EXCEPT !.at = "insert", !.users = u, !.t0 = Second(now), !.due = Second(now) + d, !.chan = c]
      PROVE  Scheduled(t)
  <2>1. t.groups = {} /\ t.soon = {} /\ t.at = "insert"
    BY <1>3, Threads DEF Idle
  <2>. QED  BY <2>1 DEF Scheduled
<1>. QED  BY <1>1, <1>2, <1>3 DEF Started

LEMMA SchedulesStep == Typed /\ Schedules /\ TimersSet /\ [Next]_vars => Schedules'
<1>. SUFFICES ASSUME Typed, Schedules, TimersSet, [Next]_vars, NEW x \in DOMAIN threads' PROVE Scheduled(x)'
  BY DEF Schedules
<1>1. Grows /\ Second(now) <= Second(now') /\ Second(now) \in Nat /\ Second(now') \in Nat
  BY AlwaysGrows, ScalarsTyped, Seconds DEF Typed
<1>2. x \in Thread
  BY TypedStep DEF Typed
<1>. SUFFICES Scheduled(x)
  BY <1>1, <1>2, StaysScheduled
<1>3. CASE x \in DOMAIN threads
  BY <1>3 DEF Schedules
<1>4. ASSUME x \notin DOMAIN threads, NEW i \in DOMAIN threads, Steps(i) PROVE Scheduled(x)
  <2>1. PICK t \in Successors(i) : Goes(i, t)
    BY <1>4, StepGoes
  <2>2. x = t
    BY <1>4, <2>1, ThreadGoes DEF Typed
  <2>. QED  BY <2>1, <2>2, SuccessorsScheduled
<1>5. ASSUME x \notin DOMAIN threads, NEW t, Started(t) PROVE Scheduled(x)
  <2>1. Starts(t) /\ Scheduled(t) /\ IsBag
    BY <1>5, StartTyped, StartScheduled DEF Typed
  <2>2. DOMAIN threads' = DOMAIN threads \cup {t}
    BY <2>1, ThreadStarts
  <2>. QED  BY <1>5, <2>1, <2>2
<1>6. CASE Crash
  BY <1>6 DEF Crash, EmptyBag, SetToBag
<1>7. CASE Disconnect \/ Tick \/ (\E k \in BOOLEAN : Reload(k)) \/ UNCHANGED vars
  BY <1>3, <1>7 DEF Disconnect, Tick, Reload, vars
<1>. QED  BY <1>3, <1>4, <1>5, <1>6, <1>7, NextKinds

LEMMA TimersSetStep == Typed /\ Schedules /\ TimersSet /\ [Next]_vars => TimersSet'
<1>. SUFFICES ASSUME Typed, Schedules, TimersSet, [Next]_vars PROVE TimersSet'
  OBVIOUS
<1>1. Grows /\ TimersTyped /\ now \in Nat /\ Interval \in Nat
  BY AlwaysGrows, AlertsAssumption DEF Typed, TimersTyped
<1>2. ASSUME NEW n \in DOMAIN timers', n # Loop => n \in DOMAIN timers /\ timers'[n] = timers[n], n # Loop
      PROVE  \A k \in n : k \in DOMAIN alerts' /\ 2 * alerts'[k].due <= timers'[n].at
  BY <1>1, <1>2 DEF TimersSet, Grows
<1>3. CASE \A n \in DOMAIN timers' : n # Loop => n \in DOMAIN timers /\ timers'[n] = timers[n]
  BY <1>2, <1>3 DEF TimersSet
<1>4. ASSUME NEW i \in DOMAIN threads, AddTimer(i) PROVE TimersSet'
  <2>1. PICK k \in i.ids : timers' = SetTimer(i.ids, now + 2 * (alerts[k].due - i.t0), 0)
    BY <1>4 DEF AddTimer
  <2>2. i \in Thread /\ i.t0 \in Nat /\ i.ids \in SUBSET Nat /\ i.t0 <= Second(now) /\ Alike(i.ids, i.t0)
    BY <1>4 DEF AddTimer, Schedules, Scheduled, Typed, Thread
  <2>3. k \in DOMAIN alerts /\ alerts[k] \in Row
    BY <2>2 DEF Alike, Typed
  <2>4. alerts[k].due \in Nat
    BY <2>3 DEF Row
  <2>5. PICK at \in Int : at = now + 2 * (alerts[k].due - i.t0)
    BY <1>1, <2>2, <2>4
  <2>6. 2 * alerts[k].due <= at
    <3>1. Second(now) \in Nat /\ 2 * Second(now) <= now
      BY <1>1, Seconds
    <3>. QED  BY <1>1, <2>2, <2>4, <2>5, <3>1
  <2>7. /\ DOMAIN timers' = DOMAIN timers \cup {i.ids}
        /\ \A x \in DOMAIN timers : timers'[x] = timers[x]
        /\ i.ids \notin DOMAIN timers => timers'[i.ids] = [at |-> at, gen |-> 0]
    <3>1. timers' = SetTimer(i.ids, at, 0) /\ 0 \in Nat
      BY <2>1, <2>5
    <3>. QED  BY <1>1, <2>2, <3>1, SetTimerTyped
  <2>8. \A j \in i.ids : j \in DOMAIN alerts /\ alerts[j].due = alerts[k].due
    BY <2>2 DEF Alike
  <2>9. i.ids \notin DOMAIN timers => timers'[i.ids].at = at
    BY <2>7
  <2>. SUFFICES ASSUME NEW n \in DOMAIN timers', n # Loop
                PROVE  \A j \in n : j \in DOMAIN alerts' /\ 2 * alerts'[j].due <= timers'[n].at
    BY DEF TimersSet
  <2>10. CASE n \in DOMAIN timers
    BY <1>2, <2>7, <2>10
  <2>11. CASE n \notin DOMAIN timers
    <3>1. n = i.ids
      BY <2>7, <2>11
    <3>. QED  BY <1>1, <2>6, <2>8, <2>9, <2>11, <3>1 DEF Grows
  <2>. QED  BY <2>10, <2>11
<1>5. ASSUME NEW i \in DOMAIN threads, SetupTimer(i) PROVE TimersSet'
  <2>1. i.gen \in Nat /\ Loop \in SUBSET Nat
    BY DEF Loop, Typed, Thread
  <2>2. PICK at \in Int : at = now + 2 * Interval
    BY <1>1
  <2>3. timers' = SetTimer(Loop, at, i.gen)
    BY <1>5, <2>2 DEF SetupTimer
  <2>4. DOMAIN timers' = DOMAIN timers \cup {Loop} /\ \A x \in DOMAIN timers : timers'[x] = timers[x]
    BY <1>1, <2>1, <2>3, SetTimerTyped
  <2>. QED  BY <1>3, <2>4
<1>6. ASSUME NEW i \in DOMAIN threads, RestartTimer(i) PROVE TimersSet'
  <2>1. PICK at \in Int : at = now + 2 * Interval
    BY <1>1
  <2>. QED  BY <1>1, <1>3, <1>6, <2>1, LoopMoved DEF RestartTimer
<1>7. CASE RunLoop
  <2>1. Loop \in DOMAIN timers /\ timers' = [timers EXCEPT ![Loop].at = timers[Loop].at + 2 * Interval]
    BY <1>7 DEF RunLoop
  <2>2. PICK at \in Int : at = timers[Loop].at + 2 * Interval
    BY <1>1, <2>1 DEF TimersTyped, Timer
  <2>. QED  BY <1>1, <1>3, <2>1, <2>2, LoopMoved
<1>8. ASSUME NEW n \in DOMAIN timers, RunOnce(n) PROVE TimersSet'
  BY <1>3, <1>8 DEF RunOnce, Restrict
<1>9. CASE timers' = <<>> \/ timers' = timers
  BY <1>3, <1>9
<1>10. ASSUME NEW i \in DOMAIN threads, Steps(i) PROVE TimersSet'
  BY <1>4, <1>5, <1>6, <1>9, <1>10 DEF Steps, Check, Claim, Send, Insert
<1>11. ASSUME NEW t, Started(t) PROVE TimersSet'
  BY <1>7, <1>8, <1>9, <1>11 DEF Started, Alert, SignOn, Repost
<1>12. CASE Disconnect \/ Tick \/ Crash \/ (\E k \in BOOLEAN : Reload(k)) \/ UNCHANGED vars
  BY <1>9, <1>12 DEF Disconnect, Tick, Crash, Reload, Unload, vars
<1>. QED  BY <1>10, <1>11, <1>12, NextKinds

----------------------------------------------------------------------------
(* What is claimed is sent once.                                           *)

\* thread x is to send alert k
Holds(x, k) == x \in DOMAIN threads /\ x.at = "send" /\ k \in x.ids

\* An alert waits; or it was claimed and one thread is to send it, or was until the
\* process died; or it was sent.
Claims ==
  /\ \A x, k : Holds(x, k) => k \in DOMAIN alerts /\ threads[x] = 1
  /\ \A x, y, k : Holds(x, k) /\ Holds(y, k) => x = y
  /\ \A k \in DOMAIN alerts :
       \/ ~alerts[k].delivered /\ alerts[k].sent = 0 /\ \A x : ~Holds(x, k)
       \/ /\ alerts[k].delivered /\ alerts[k].due <= alerts[k].claimed /\ alerts[k].sent = 0
          /\ crashed \/ \E x : Holds(x, k)
       \/ /\ alerts[k].delivered /\ alerts[k].due <= alerts[k].claimed /\ alerts[k].sent = 1
          /\ \A x : ~Holds(x, k)

SendersStay == \A x, k : /\ Holds(x, k)' <=> Holds(x, k)
                         /\ Holds(x, k) => threads'[x] = threads[x]

LEMMA CalmKeeps ==
  ASSUME Claims, crashed => crashed', SendersStay, DOMAIN alerts \subseteq DOMAIN alerts',
         \A k \in DOMAIN alerts : alerts'[k] = alerts[k],
         \A k \in DOMAIN alerts' : k \notin DOMAIN alerts => ~alerts'[k].delivered /\ alerts'[k].sent = 0
  PROVE  Claims'
<1>1. \A x, k : Holds(x, k)' => k \in DOMAIN alerts' /\ threads'[x] = 1
  BY DEF Claims, SendersStay
<1>2. \A x, y, k : Holds(x, k)' /\ Holds(y, k)' => x = y
  BY DEF Claims, SendersStay
<1>3. ASSUME NEW k \in DOMAIN alerts'
      PROVE  \/ ~alerts'[k].delivered /\ alerts'[k].sent = 0 /\ \A x : ~Holds(x, k)'
             \/ /\ alerts'[k].delivered /\ alerts'[k].due <= alerts'[k].claimed /\ alerts'[k].sent = 0
                /\ crashed' \/ \E x : Holds(x, k)'
             \/ /\ alerts'[k].delivered /\ alerts'[k].due <= alerts'[k].claimed /\ alerts'[k].sent = 1
                /\ \A x : ~Holds(x, k)'
  <2>1. CASE k \in DOMAIN alerts
    BY <2>1 DEF Claims, SendersStay
  <2>2. CASE k \notin DOMAIN alerts
    BY <2>2 DEF Claims, SendersStay
  <2>. QED  BY <2>1, <2>2
<1>. QED  BY <1>1, <1>2, <1>3 DEF Claims

\* A step that neither claims nor sends leaves who is to send what.
LEMMA CalmStays ==
  ASSUME IsBag, NEW i \in DOMAIN threads, i.at # "send", NEW t, t.at # "send", Goes(i, t)
  PROVE  SendersStay
<1>1. ASSUME NEW x, NEW k, Holds(x, k) PROVE Holds(x, k)' /\ threads'[x] = threads[x]
  <2>1. x \in DOMAIN threads /\ x # i /\ x # t
    BY <1>1 DEF Holds
  <2>2. x \in DOMAIN threads' /\ threads'[x] = threads[x]
    BY <2>1, ThreadGoes
  <2>. QED  BY <1>1, <2>2 DEF Holds
<1>2. ASSUME NEW x, NEW k, Holds(x, k)' PROVE Holds(x, k)
  <2>1. x \in DOMAIN threads' /\ x # t
    BY <1>2 DEF Holds
  <2>2. x \in DOMAIN threads
    BY <2>1, ThreadGoes
  <2>. QED  BY <1>2, <2>2 DEF Holds
<1>. QED  BY <1>1, <1>2 DEF SendersStay

LEMMA StartStays ==
  ASSUME IsBag, NEW t, t.at # "send", Starts(t)
  PROVE  SendersStay
<1>1. /\ DOMAIN threads' = DOMAIN threads \cup {t}
      /\ \A x \in DOMAIN threads : x # t => threads'[x] = threads[x]
  BY ThreadStarts
<1>. QED  BY <1>1 DEF SendersStay, Holds

\* The thread that claims sends what was not claimed before, and no other does.
LEMMA ClaimKeeps == ASSUME Typed, Schedules, Claims, NEW i \in DOMAIN threads, Claim(i) PROVE Claims'
<1>1. /\ DOMAIN alerts' = DOMAIN alerts /\ crashed' = crashed /\ i.at = "claim" /\ i \in Thread /\ IsBag
      /\ \A k \in DOMAIN alerts : alerts'[k] =
           IF k \in Mine(i) THEN [alerts[k] EXCEPT !.delivered = TRUE, !.claimed = Second(now)] ELSE alerts[k]
  BY ClaimRows DEF Claim, reloadVars, Typed
<1>2. PICK t \in Successors(i) : Goes(i, t)
  BY StepGoes DEF Steps
<1>3. CASE Mine(i) = {}
  <2>1. t.at # "send"
    BY <1>3, SuccessorsTyped
  <2>2. SendersStay
    BY <1>1, <1>2, <2>1, CalmStays
  <2>. QED  BY <1>1, <1>3, <2>2, CalmKeeps
<1>4. CASE Mine(i) # {}
  <2>1. t = [i EXCEPT !.at = "send", !.ids = Mine(i)]
    BY <1>1, <1>4 DEF Successors
  <2>2. t.at = "send" /\ t.ids = Mine(i)
    BY <1>1, <2>1 DEF Thread
  <2>3. \A k \in Mine(i) : /\ k \in DOMAIN alerts /\ ~alerts[k].delivered /\ alerts[k].due <= Second(now)
                           /\ alerts[k].sent = 0 /\ \A x : ~Holds(x, k)
    BY <1>1 DEF Schedules, Scheduled, Due, Mine, Claims
  <2>4. t \notin DOMAIN threads
    BY <1>4, <2>2, <2>3 DEF Holds
  <2>5. t # Idle
    BY <2>2, Threads
  <2>6. /\ DOMAIN threads' \subseteq DOMAIN threads \cup {t} /\ t \in DOMAIN threads' /\ threads'[t] = 1
        /\ \A x \in DOMAIN threads : x # i => x \in DOMAIN threads'
        /\ \A x \in DOMAIN threads' : x # t /\ x # i => threads'[x] = threads[x]
    BY <1>1, <1>2, <2>4, <2>5, ThreadGoes
  <2>7. \A x, k : Holds(x, k)' <=> Holds(x, k) \/ (x = t /\ k \in Mine(i))
    BY <1>1, <2>2, <2>4, <2>6 DEF Holds
  <2>8. \A x, k : Holds(x, k)' => k \in DOMAIN alerts' /\ threads'[x] = 1
    <3>. SUFFICES ASSUME NEW x, NEW k, Holds(x, k)' PROVE k \in DOMAIN alerts' /\ threads'[x] = 1
      OBVIOUS
    <3>1. CASE x = t
      BY <1>1, <2>2, <2>3, <2>6, <3>1 DEF Holds
    <3>2. CASE x # t
      <4>1. Holds(x, k) /\ x # i
        BY <1>1, <2>7, <3>2 DEF Holds
      <4>2. k \in DOMAIN alerts /\ threads[x] = 1 /\ x \in DOMAIN threads'
        BY <4>1 DEF Claims, Holds
      <4>. QED  BY <1>1, <2>6, <3>2, <4>1, <4>2
    <3>. QED  BY <3>1, <3>2
  <2>9. \A x, y, k : Holds(x, k)' /\ Holds(y, k)' => x = y
    BY <2>3, <2>7 DEF Claims
  <2>10. ASSUME NEW k \in DOMAIN alerts'
         PROVE  \/ ~alerts'[k].delivered /\ alerts'[k].sent = 0 /\ \A x : ~Holds(x, k)'
                \/ /\ alerts'[k].delivered /\ alerts'[k].due <= alerts'[k].claimed /\ alerts'[k].sent = 0
                   /\ crashed' \/ \E x : Holds(x, k)'
                \/ /\ alerts'[k].delivered /\ alerts'[k].due <= alerts'[k].claimed /\ alerts'[k].sent = 1
                   /\ \A x : ~Holds(x, k)'
    <3>1. CASE k \in Mine(i)
      <4>1. alerts[k] \in Row
        BY <2>3, <3>1 DEF Typed
      <4>2. /\ alerts'[k].delivered /\ alerts'[k].claimed = Second(now)
            /\ alerts'[k].due = alerts[k].due /\ alerts'[k].sent = alerts[k].sent
        BY <1>1, <2>3, <3>1, <4>1, ZenonT(40) DEF Row
      <4>. QED  BY <2>3, <2>7, <3>1, <4>2
    <3>2. CASE k \notin Mine(i)
      <4>1. alerts'[k] = alerts[k] /\ \A x : Holds(x, k)' <=> Holds(x, k)
        BY <1>1, <2>7, <3>2
      <4>. QED  BY <1>1, <4>1 DEF Claims
    <3>. QED  BY <3>1, <3>2
  <2>. QED  BY <2>8, <2>9, <2>10 DEF Claims
<1>. QED  BY <1>3, <1>4

\* The thread that sends lets go of what it held.
LEMMA SendKeeps == ASSUME Typed, Claims, NEW i \in DOMAIN threads, Send(i) PROVE Claims'
<1>1. /\ DOMAIN alerts' = DOMAIN alerts /\ crashed' = crashed /\ i.at = "send" /\ i \in Thread /\ IsBag
      /\ \A k \in DOMAIN alerts : alerts'[k] =
           IF k \in i.ids THEN [alerts[k] EXCEPT !.sent = @ + 1] ELSE alerts[k]
  BY SendRows DEF Send, reloadVars, Typed
<1>2. PICK t \in Successors(i) : Goes(i, t)
  BY StepGoes DEF Steps
<1>3. t.at # "send"
  BY <1>1, SuccessorsTyped
<1>4. \A k \in i.ids : Holds(i, k) /\ k \in DOMAIN alerts /\ threads[i] = 1
  BY <1>1 DEF Holds, Claims
<1>5. ASSUME NEW x, NEW k, Holds(x, k), x # i PROVE Holds(x, k)' /\ threads'[x] = threads[x]
  <2>1. x \in DOMAIN threads /\ x # t
    BY <1>3, <1>5 DEF Holds
  <2>2. x \in DOMAIN threads' /\ threads'[x] = threads[x]
    BY <1>1, <1>2, <1>5, <2>1, ThreadGoes
  <2>. QED  BY <1>5, <2>2 DEF Holds
<1>6. ASSUME NEW x, NEW k, Holds(x, k)' PROVE Holds(x, k) /\ x # i
  <2>1. x \in DOMAIN threads' /\ x # t /\ k \in x.ids /\ x.at = "send"
    BY <1>3, <1>6 DEF Holds
  <2>2. x \in DOMAIN threads
    BY <1>1, <1>2, <2>1, ThreadGoes
  <2>3. x # i
    BY <1>1, <1>2, <1>3, <1>4, <2>1, ThreadGoes
  <2>. QED  BY <2>1, <2>2, <2>3 DEF Holds
<1>7. \A x, k : Holds(x, k)' => k \in DOMAIN alerts' /\ threads'[x] = 1
  BY <1>1, <1>5, <1>6 DEF Claims
<1>8. \A x, y, k : Holds(x, k)' /\ Holds(y, k)' => x = y
  BY <1>6 DEF Claims
<1>9. ASSUME NEW k \in DOMAIN alerts'
      PROVE  \/ ~alerts'[k].delivered /\ alerts'[k].sent = 0 /\ \A x : ~Holds(x, k)'
             \/ /\ alerts'[k].delivered /\ alerts'[k].due <= alerts'[k].claimed /\ alerts'[k].sent = 0
                /\ crashed' \/ \E x : Holds(x, k)'
             \/ /\ alerts'[k].delivered /\ alerts'[k].due <= alerts'[k].claimed /\ alerts'[k].sent = 1
                /\ \A x : ~Holds(x, k)'
  <2>1. CASE k \in i.ids
    <3>1. Holds(i, k) /\ alerts[k] \in Row
      BY <1>4, <2>1 DEF Typed
    <3>2. \A x : ~Holds(x, k)'
      BY <1>6, <3>1 DEF Claims
    <3>3. alerts[k].delivered /\ alerts[k].due <= alerts[k].claimed /\ alerts[k].sent = 0
      BY <1>1, <3>1 DEF Claims
    <3>4. /\ alerts'[k].delivered = alerts[k].delivered /\ alerts'[k].due = alerts[k].due
          /\ alerts'[k].claimed = alerts[k].claimed /\ alerts'[k].sent = 1
      <4>1. alerts'[k] = [alerts[k] EXCEPT !.sent = alerts[k].sent + 1]
        BY <1>1, <2>1
      <4>2. ASSUME NEW r \in Row, r.sent = 0
            PROVE  LET n == [r EXCEPT !.sent = r.sent + 1] IN
                   n.delivered = r.delivered /\ n.due = r.due /\ n.claimed = r.claimed /\ n.sent = 1
        BY <4>2 DEF Row
      <4>. QED  BY <3>1, <3>3, <4>1, <4>2
    <3>. QED  BY <3>2, <3>3, <3>4
  <2>2. CASE k \notin i.ids
    <3>1. alerts'[k] = alerts[k] /\ \A x : Holds(x, k)' <=> Holds(x, k)
      BY <1>1, <1>5, <1>6, <2>2 DEF Holds
    <3>. QED  BY <1>1, <3>1 DEF Claims
  <2>. QED  BY <2>1, <2>2
<1>. QED  BY <1>7, <1>8, <1>9 DEF Claims

LEMMA ClaimsStep == Typed /\ Schedules /\ Claims /\ [Next]_vars => Claims'
<1>. SUFFICES ASSUME Typed, Schedules, Claims, [Next]_vars PROVE Claims'
  OBVIOUS
<1>1. IsBag
  BY DEF Typed
<1>2. CASE UNCHANGED <<alerts, threads>> /\ (crashed => crashed')
  <2>1. SendersStay
    BY <1>2 DEF SendersStay, Holds
  <2>. QED  BY <1>2, <2>1, CalmKeeps
<1>3. ASSUME NEW i \in DOMAIN threads, Check(i) \/ AddTimer(i) \/ Insert(i) \/ RestartTimer(i) \/ SetupTimer(i)
      PROVE  Claims'
  <2>1. PICK t \in Successors(i) : Goes(i, t)
    BY <1>3, StepGoes DEF Steps
  <2>2. i.at \notin {"send", "claim"}
    BY <1>3 DEF Check, AddTimer, Insert, RestartTimer, SetupTimer
  <2>3. SendersStay
    BY <1>1, <2>1, <2>2, SuccessorsTyped, CalmStays
  <2>4. crashed' = crashed
    BY <1>3 DEF Check, AddTimer, Insert, RestartTimer, SetupTimer, reloadVars
  <2>5. CASE UNCHANGED alerts
    BY <2>3, <2>4, <2>5, CalmKeeps
  <2>6. CASE Insert(i)
    <3>1. /\ DOMAIN alerts \subseteq DOMAIN alerts' /\ \A k \in DOMAIN alerts : alerts'[k] = alerts[k]
          /\ \A k \in DOMAIN alerts' : k \notin DOMAIN alerts => ~alerts'[k].delivered /\ alerts'[k].sent = 0
      BY <2>6, InsertRows DEF Grows
    <3>. QED  BY <2>3, <2>4, <3>1, CalmKeeps
  <2>. QED  BY <1>3, <2>5, <2>6 DEF Check, AddTimer, RestartTimer, SetupTimer
<1>4. ASSUME NEW t, Started(t) PROVE Claims'
  <2>1. SendersStay
    BY <1>1, <1>4, StartTyped, StartStays
  <2>2. UNCHANGED <<alerts, crashed>>
    BY <1>4 DEF Started, RunLoop, RunOnce, Alert, SignOn, Repost, reloadVars
  <2>. QED  BY <2>1, <2>2, CalmKeeps
<1>5. CASE Crash
  <2>1. DOMAIN threads' = {} /\ crashed' = TRUE /\ alerts' = alerts
    BY <1>5 DEF Crash, EmptyBag, SetToBag
  <2>2. \A x, k : ~Holds(x, k)'
    BY <2>1 DEF Holds
  <2>. QED  BY <2>1, <2>2 DEF Claims
<1>6. CASE Disconnect \/ Tick \/ (\E k \in BOOLEAN : Reload(k)) \/ UNCHANGED vars
  BY <1>2, <1>6 DEF Disconnect, Tick, Reload, vars, reloadVars
<1>7. ASSUME NEW i \in DOMAIN threads, Steps(i) PROVE Claims'
  BY <1>3, <1>7, ClaimKeeps, SendKeeps DEF Steps
<1>. QED  BY <1>4, <1>5, <1>6, <1>7, NextKinds

Inv == Typed /\ Schedules /\ TimersSet /\ Claims

LEMMA InitInv == Init => Inv
<1>. SUFFICES ASSUME Init PROVE Inv
  OBVIOUS
<1>1. DOMAIN alerts = {} /\ alerts \in Seq(Row) /\ DOMAIN timers = {} /\ DOMAIN threads = {}
      /\ timers = [n \in DOMAIN timers |-> timers[n]] /\ now \in Nat /\ armed \in Nat /\ gen \in Nat
  BY DEF Init, EmptyBag, SetToBag
<1>2. Typed
  BY <1>1 DEF Typed, IsBag
<1>3. Claims
  BY <1>1 DEF Claims, Holds
<1>. QED  BY <1>1, <1>2, <1>3 DEF Inv, Schedules, TimersSet

LEMMA InvStep == Inv /\ [Next]_vars => Inv'
BY TypedStep, SchedulesStep, TimersSetStep, ClaimsStep DEF Inv

\* However many timers, checks and restarts come upon the same alert, in whatever
\* threads, it is sent once at most, surely if no crash came between, and never before
\* its time (deliver_alerts' claim, the timers of check_alerts_callback).
THEOREM AlertsSentOnce == Spec => []SentOnceWhenDue
<1>1. Inv => SentOnceWhenDue
  <2>. SUFFICES ASSUME Inv, NEW k \in DOMAIN alerts
                PROVE  /\ alerts[k].sent <= 1
                       /\ alerts[k].delivered => alerts[k].claimed >= alerts[k].due
                       /\ Quiet /\ ~crashed /\ alerts[k].delivered => alerts[k].sent = 1
    BY DEF SentOnceWhenDue
  <2>1. alerts[k] \in Row
    BY DEF Inv, Typed
  <2>2. alerts[k].sent \in {0, 1} /\ (alerts[k].delivered => alerts[k].due <= alerts[k].claimed)
    BY DEF Inv, Claims
  <2>3. Quiet /\ ~crashed /\ alerts[k].delivered => alerts[k].sent = 1
    <3>1. Quiet => \A x : ~Holds(x, k)
      BY NoThreads DEF Holds
    <3>. QED  BY <3>1 DEF Inv, Claims
  <2>. QED  BY <2>1, <2>2, <2>3 DEF Row
<1>. QED  BY <1>1, InitInv, InvStep, PTL DEF Spec

----------------------------------------------------------------------------
(* The timers that a step leaves.                                          *)

\* A thread takes no timer away; it sets the loop up, or moves it, or sets one for the
\* alerts it has.
LoopAfter(i) ==
  /\ Loop \in DOMAIN timers =>
       /\ Loop \in DOMAIN timers' /\ timers'[Loop].gen = timers[Loop].gen /\ armed' = armed
       /\ \/ timers'[Loop].at = timers[Loop].at
          \/ i.at = "restart" /\ timers'[Loop].at = now + 2 * Interval
  /\ Loop \in DOMAIN timers' /\ Loop \notin DOMAIN timers =>
       i.at = "setup" /\ timers'[Loop].gen = i.gen /\ timers'[Loop].at = now + 2 * Interval /\ armed' = now
  /\ i.at = "setup" => Loop \in DOMAIN timers'
OthersAfter(i) ==
  /\ \A n \in DOMAIN timers : n # Loop => n \in DOMAIN timers' /\ timers'[n] = timers[n]
  /\ i.at = "addtimer" => i.ids # Loop /\ i.ids \in DOMAIN timers'
  /\ \A n \in DOMAIN timers' : n # Loop /\ n \notin DOMAIN timers =>
       /\ i.at = "addtimer" /\ n = i.ids
       /\ \E k \in n : timers'[n].at = now + 2 * (alerts[k].due - i.t0)

LEMMA StepsTimers ==
  ASSUME Typed, Schedules, NEW i \in DOMAIN threads, Steps(i)
  PROVE  LoopAfter(i) /\ OthersAfter(i)
<1>1. i \in Thread /\ TimersTyped /\ now \in Nat /\ Interval \in Nat
  BY AlertsAssumption DEF Typed, TimersTyped
<1>2. CASE AddTimer(i)
  <2>1. PICK k \in i.ids : timers' = SetTimer(i.ids, now + 2 * (alerts[k].due - i.t0), 0)
    BY <1>2 DEF AddTimer
  <2>2. i.at = "addtimer" /\ armed' = armed /\ Alike(i.ids, i.t0) /\ i.t0 \in Nat /\ i.ids \in SUBSET Nat
    BY <1>1, <1>2 DEF AddTimer, Schedules, Scheduled, Thread
  <2>3. i.ids # Loop /\ k \in DOMAIN alerts /\ alerts[k] \in Row
    BY <2>2 DEF Alike, Loop, Typed
  <2>4. alerts[k].due \in Nat
    BY <2>3 DEF Row
  <2>5. PICK at \in Int : at = now + 2 * (alerts[k].due - i.t0)
    BY <1>1, <2>2, <2>4
  <2>6. timers' = SetTimer(i.ids, at, 0) /\ 0 \in Nat
    BY <2>1, <2>5
  <2>7. /\ DOMAIN timers' = DOMAIN timers \cup {i.ids}
        /\ \A x \in DOMAIN timers : timers'[x] = timers[x]
        /\ i.ids \notin DOMAIN timers => timers'[i.ids] = [at |-> at, gen |-> 0]
    BY <1>1, <2>2, <2>6, SetTimerTyped
  <2>8. LoopAfter(i)
    BY <2>2, <2>3, <2>7 DEF LoopAfter
  <2>9. OthersAfter(i)
    BY <2>2, <2>3, <2>5, <2>7 DEF OthersAfter
  <2>. QED  BY <2>8, <2>9
<1>3. CASE SetupTimer(i)
  <2>1. i.gen \in Nat /\ Loop \in SUBSET Nat /\ i.at = "setup"
    BY <1>1, <1>3 DEF Thread, Loop, SetupTimer
  <2>2. PICK at \in Int : at = now + 2 * Interval
    BY <1>1
  <2>3. timers' = SetTimer(Loop, at, i.gen) /\ armed' = IF Loop \in DOMAIN timers THEN armed ELSE now
    BY <1>3, <2>2 DEF SetupTimer
  <2>4. /\ DOMAIN timers' = DOMAIN timers \cup {Loop}
        /\ \A x \in DOMAIN timers : timers'[x] = timers[x]
        /\ Loop \notin DOMAIN timers => timers'[Loop] = [at |-> at, gen |-> i.gen]
    BY <1>1, <2>1, <2>3, SetTimerTyped
  <2>. QED  BY <2>1, <2>2, <2>3, <2>4 DEF LoopAfter, OthersAfter
<1>4. CASE RestartTimer(i)
  <2>1. PICK at \in Int : at = now + 2 * Interval
    BY <1>1
  <2>2. i.at = "restart" /\ armed' = armed
    BY <1>4 DEF RestartTimer
  <2>3. CASE Loop \in DOMAIN timers
    <3>1. timers' = [timers EXCEPT ![Loop].at = at]
      BY <1>4, <2>1, <2>3 DEF RestartTimer
    <3>2. /\ DOMAIN timers' = DOMAIN timers
          /\ timers'[Loop].at = at /\ timers'[Loop].gen = timers[Loop].gen
          /\ \A x \in DOMAIN timers : x # Loop => timers'[x] = timers[x]
      BY <1>1, <2>3, <3>1, LoopMoved
    <3>. QED  BY <2>1, <2>2, <2>3, <3>2 DEF LoopAfter, OthersAfter
  <2>4. CASE Loop \notin DOMAIN timers
    <3>1. timers' = timers
      BY <1>4, <2>4 DEF RestartTimer
    <3>. QED  BY <2>2, <3>1 DEF LoopAfter, OthersAfter
  <2>. QED  BY <2>3, <2>4
<1>5. CASE timers' = timers /\ armed' = armed /\ i.at \notin {"setup", "addtimer"}
  BY <1>5 DEF LoopAfter, OthersAfter
<1>. QED  BY <1>2, <1>3, <1>4, <1>5 DEF Steps, Check, Claim, Send, Insert

----------------------------------------------------------------------------
(* The timers are those of the module loaded.                              *)

Setting(x) == x.at = "setup"

\* While no reload overtook a thread: the loop is set up, or about to be, whenever it
\* should be, and is this import's, as are the threads that set it up; a module not
\* loaded has nothing left.
Followed ==
  ~overtaken =>
    /\ signed /\ loaded => Loop \in DOMAIN timers \/ posted \/ \E x \in DOMAIN threads : Setting(x)
    /\ Loop \in DOMAIN timers => timers[Loop].gen = gen
    /\ \A x \in DOMAIN threads : Setting(x) => x.gen = gen
    /\ ~loaded => DOMAIN timers = {} /\ DOMAIN threads = {} /\ ~posted

LEMMA SuccessorsSetNone ==
  ASSUME Typed, NEW i \in DOMAIN threads, NEW t \in Successors(i)
  PROVE  ~Setting(t)
<1>1. i \in Thread
  BY DEF Typed
<1>2. CASE i.at = "check"
  BY <1>2, SeenTyped, ContinueTyped DEF Successors, Setting
<1>3. CASE i.at \in {"addtimer", "send"} \/ (i.at = "claim" /\ Mine(i) = {})
  BY <1>1, <1>3, ContinueTyped DEF Successors, Setting
<1>4. CASE i.at = "claim" /\ Mine(i) # {}
  BY <1>1, <1>4 DEF Successors, Setting, Thread
<1>5. CASE i.at = "insert"
  <2>1. t.at = i.at \/ t = [Idle EXCEPT !.at = "restart"] \/ t = Idle
    BY <1>1, <1>5 DEF Successors, Thread
  <2>. QED  BY <1>5, <2>1 DEF Idle, Setting
<1>6. CASE i.at \in {"restart", "setup", "idle"}
  BY <1>6, Threads DEF Successors, Setting
<1>. QED  BY <1>1, <1>2, <1>3, <1>4, <1>5, <1>6 DEF Thread, Places

\* Sign-ons, reloads and what they start keep the loop that of the module loaded.
LEMMA FollowedStep == Typed /\ Schedules /\ Followed /\ [Next]_vars => Followed'
<1>. SUFFICES ASSUME Typed, Schedules, Followed, [Next]_vars, ~overtaken' PROVE Followed'
  BY DEF Followed
<1>1. IsBag
  BY DEF Typed
<1>2. CASE UNCHANGED vars \/ Tick
  BY <1>2 DEF Tick, Followed, Setting, vars, reloadVars
<1>3. CASE Disconnect
  BY <1>3 DEF Disconnect, Followed, Setting
<1>4. CASE Crash
  <2>1. DOMAIN threads' = {} /\ DOMAIN timers' = {} /\ ~signed' /\ ~posted'
    BY <1>4 DEF Crash, EmptyBag, SetToBag
  <2>. QED  BY <2>1 DEF Followed
<1>5. ASSUME NEW keep \in BOOLEAN, Reload(keep) PROVE Followed'
  <2>1. ~overtaken /\ Quiet /\ threads' = threads
    BY <1>5 DEF Reload
  <2>2. DOMAIN threads' = {}
    BY <2>1, NoThreads
  <2>3. DOMAIN timers' = {}
    <3>1. CASE loaded
      BY <1>5, <3>1 DEF Reload, Unload
    <3>2. CASE ~loaded
      BY <1>5, <2>1, <3>2 DEF Reload, Followed
    <3>. QED  BY <3>1, <3>2
  <2>4. loaded' = keep /\ posted' = (keep /\ signed) /\ signed' = signed
    BY <1>5 DEF Reload
  <2>. QED  BY <2>2, <2>3, <2>4 DEF Followed
<1>6. ASSUME NEW i \in DOMAIN threads, Steps(i) PROVE Followed'
  <2>1. UNCHANGED <<loaded, gen, signed, posted, overtaken>>
    BY <1>6 DEF Steps, Check, AddTimer, Claim, Send, Insert, RestartTimer, SetupTimer, reloadVars
  <2>2. LoopAfter(i)
    BY <1>6, StepsTimers
  <2>3. PICK t \in Successors(i) : Goes(i, t)
    BY <1>6, StepGoes
  <2>4. /\ \A x \in DOMAIN threads' : x \in DOMAIN threads \/ x = t
        /\ \A x \in DOMAIN threads : x # i => x \in DOMAIN threads'
    BY <1>1, <2>3, ThreadGoes
  <2>5. ~Setting(t)
    BY <2>3, SuccessorsSetNone
  <2>6. loaded /\ ~overtaken
    BY <2>1 DEF Followed
  <2>7. signed => Loop \in DOMAIN timers' \/ posted \/ \E x \in DOMAIN threads' : Setting(x)
    BY <2>2, <2>4, <2>6 DEF Followed, LoopAfter, Setting
  <2>8. Loop \in DOMAIN timers' => timers'[Loop].gen = gen
    BY <2>2, <2>6 DEF Followed, LoopAfter, Setting
  <2>9. \A x \in DOMAIN threads' : Setting(x) => x.gen = gen
    BY <2>4, <2>5, <2>6 DEF Followed
  <2>. QED  BY <2>1, <2>6, <2>7, <2>8, <2>9 DEF Followed, Setting
<1>7. ASSUME NEW t, Started(t) PROVE Followed'
  <2>1. Starts(t)
    BY <1>7, StartTyped
  <2>2. DOMAIN threads' = DOMAIN threads \cup {t}
    BY <1>1, <2>1, ThreadStarts
  <2>3. UNCHANGED <<loaded, gen, overtaken>> /\ ~overtaken
    <3>1. UNCHANGED <<loaded, gen, overtaken>>
      BY <1>7 DEF Started, RunLoop, RunOnce, Alert, SignOn, Repost, reloadVars
    <3>. QED  BY <3>1
  <2>4. CASE (SignOn \/ Repost) /\ t = Setup
    <3>1. t.at = "setup" /\ t.gen = gen
      BY <2>4, Threads DEF Typed
    <3>2. timers' = timers /\ loaded
      BY <2>3, <2>4 DEF SignOn, Repost, Followed
    <3>. QED  BY <2>2, <2>3, <3>1, <3>2 DEF Followed, Setting
  <2>5. CASE \/ RunLoop /\ t = Checker
             \/ \E n \in DOMAIN timers : RunOnce(n) /\ t = [Idle EXCEPT !.at = "claim", !.ids = n]
             \/ \E u \in 1..2, d \in 0..(Interval + 1), c \in Channels :
                  /\ Alert(u, d, c)
                  /\ t = [Idle EXCEPT !.at = "insert", !.users = u, !.t0 = Second(now), !.due = Second(now) + d,
                                     !.chan = c]
    <3>1. t.at # "setup" /\ signed' = signed /\ posted' = posted
      <4>1. t = Checker \/ t.at \in {"claim", "insert"}
        BY <2>5, Threads DEF Idle
      <4>2. signed' = signed /\ posted' = posted
        BY <2>5 DEF RunLoop, RunOnce, Alert, reloadVars
      <4>. QED  BY <4>1, <4>2, Threads
    <3>2. loaded
      <4>1. CASE DOMAIN timers # {}
        BY <2>3, <4>1 DEF Followed
      <4>. QED  BY <2>5, <4>1 DEF RunLoop, RunOnce, Alert
    <3>3. /\ Loop \in DOMAIN timers <=> Loop \in DOMAIN timers'
          /\ Loop \in DOMAIN timers => timers'[Loop].gen = timers[Loop].gen
      <4>1. CASE RunLoop
        <5>1. TimersTyped /\ Loop \in DOMAIN timers /\ Interval \in Nat
              /\ timers' = [timers EXCEPT ![Loop].at = timers[Loop].at + 2 * Interval]
          BY <4>1, AlertsAssumption DEF RunLoop, Typed, TimersTyped
        <5>2. PICK at \in Int : at = timers[Loop].at + 2 * Interval
          BY <5>1 DEF TimersTyped, Timer
        <5>. QED  BY <5>1, <5>2, LoopMoved
      <4>2. ASSUME NEW n \in DOMAIN timers, RunOnce(n)
            PROVE  /\ Loop \in DOMAIN timers <=> Loop \in DOMAIN timers'
                   /\ Loop \in DOMAIN timers => timers'[Loop].gen = timers[Loop].gen
        BY <4>2 DEF RunOnce, Restrict
      <4>3. CASE timers' = timers
        BY <4>3
      <4>. QED  BY <2>5, <4>1, <4>2, <4>3 DEF Alert
    <3>. QED  BY <2>2, <2>3, <3>1, <3>2, <3>3 DEF Followed, Setting
  <2>. QED  BY <1>7, <2>4, <2>5 DEF Started
<1>. QED  BY <1>2, <1>3, <1>4, <1>5, <1>6, <1>7, NextKinds

\* When nothing is under way the loop runs if the module is loaded and the server signed
\* on, and runs this import's function; a module that is not loaded has no timer left.
\* Unless a reload overtook a function of the module (setup_timer, unload, Timers).
THEOREM TimersAreTheModules == Spec => []TimersFollowModule
<1>1. Init => Inv /\ Followed
  <2>1. Init => ~signed /\ loaded /\ DOMAIN timers = {} /\ DOMAIN threads = {}
    BY DEF Init, EmptyBag, SetToBag
  <2>. QED  BY <2>1, InitInv DEF Followed
<1>2. Inv /\ Followed /\ [Next]_vars => (Inv /\ Followed)'
  BY InvStep, FollowedStep DEF Inv
<1>3. Inv /\ Followed => TimersFollowModule
  <2>. SUFFICES ASSUME Inv, Followed, Quiet, ~posted, ~overtaken
                PROVE  /\ signed /\ loaded => Loop \in DOMAIN timers
                       /\ Loop \in DOMAIN timers => timers[Loop].gen = gen
                       /\ ~loaded => timers = <<>>
    BY DEF TimersFollowModule
  <2>1. DOMAIN threads = {}
    BY NoThreads
  <2>2. ASSUME DOMAIN timers = {} PROVE timers = <<>>
    <3>1. timers = [n \in {} |-> timers[n]]
      BY <2>2 DEF Inv, Typed
    <3>. QED  BY <3>1
  <2>. QED  BY <2>1, <2>2 DEF Followed
<1>. QED  BY <1>1, <1>2, <1>3, PTL DEF Spec

----------------------------------------------------------------------------
(* No alert is overlooked.                                                 *)

\* by the loop, in time for an alert due at d
LoopInTime(d) == timers[Loop].at <= 2 * d + 1 \/ timers[Loop].at <= armed + 2 * Interval
InTime(d) == now <= 2 * d + 2 \/ now <= armed + 2 * Interval + 2

\* thread x will see to alert k, or start the loop to do so
Tends(x, k) ==
  \/ x.at \in {"check", "restart"}
  \/ x.at = "insert" /\ x.due < x.t0 + Interval
  \/ x.at \in {"claim", "addtimer"} /\ k \in x.ids
  \/ x.at \in {"claim", "addtimer", "send"} /\ \E g \in x.groups \cup x.soon : k \in g

Covered(k) ==
  \/ LoopInTime(alerts[k].due)
  \/ \E n \in DOMAIN timers : n # Loop /\ k \in n
  \/ \E x \in DOMAIN threads : Tends(x, k)

Waits(k) == k \in DOMAIN alerts /\ ~alerts[k].delivered

\* A thread that has not been kept waiting knows the time.
KnowsTime(x) ==
  /\ x.at \in {"insert", "addtimer"} \/ x.soon # {} => x.t0 = Second(now)
  /\ x.at = "insert" => x.t0 <= x.due
TimersAhead == \A n \in DOMAIN timers : now <= timers[n].at
TimersSoon ==
  /\ Loop \in DOMAIN timers => timers[Loop].at <= now + 2 * Interval
  /\ \A n \in DOMAIN timers : n # Loop => \A k \in n : timers[n].at <= 2 * alerts[k].due + 1

\* While no thread was kept waiting: every alert still to be delivered has the loop, a
\* timer of its own or a thread coming for it, and is not overdue.
Watched ==
  /\ TimersAhead
  /\ ~late =>
       /\ \A x \in DOMAIN threads : KnowsTime(x)
       /\ TimersSoon
       /\ Loop \in DOMAIN timers => \A k \in DOMAIN alerts : Waits(k) => Covered(k) /\ InTime(alerts[k].due)

\* A thread that goes on keeps the groups it has not seen to.
LEMMA ContinueTends ==
  ASSUME NEW t \in Thread, NEW k, NEW n \in Continue(t), \E g \in t.groups \cup t.soon : k \in g
  PROVE  n # Idle /\ Tends(n, k)
<1>1. CASE t.groups # {}
  <2>1. PICK g \in t.groups : n = [t EXCEPT !.at = "claim", !.ids = g, !.groups = @ \ {g}]
    BY <1>1 DEF Continue
  <2>2. n.at = "claim" /\ n.ids = g /\ n.groups = t.groups \ {g} /\ n.soon = t.soon
    BY <2>1 DEF Thread
  <2>. QED  BY <2>2, Threads DEF Tends
<1>2. CASE t.groups = {} /\ t.soon # {}
  <2>1. PICK g \in t.soon : n = [t EXCEPT !.at = "addtimer", !.ids = g, !.soon = @ \ {g}]
    BY <1>2 DEF Continue
  <2>2. n.at = "addtimer" /\ n.ids = g /\ n.groups = t.groups /\ n.soon = t.soon \ {g}
    BY <2>1 DEF Thread
  <2>. QED  BY <1>2, <2>2, Threads DEF Tends
<1>. QED  BY <1>1, <1>2

LEMMA ContinueKnows ==
  ASSUME NEW t \in Thread, NEW n \in Continue(t), t.soon # {} => t.t0 = Second(now)
  PROVE  KnowsTime(n)
<1>1. CASE t.groups # {}
  <2>1. PICK g \in t.groups : n = [t EXCEPT !.at = "claim", !.ids = g, !.groups = @ \ {g}]
    BY <1>1 DEF Continue
  <2>2. n.at = "claim" /\ n.soon = t.soon /\ n.t0 = t.t0
    BY <2>1 DEF Thread
  <2>. QED  BY <2>2 DEF KnowsTime
<1>2. CASE t.groups = {} /\ t.soon # {}
  <2>1. PICK g \in t.soon : n = [t EXCEPT !.at = "addtimer", !.ids = g, !.soon = @ \ {g}]
    BY <1>2 DEF Continue
  <2>2. n.at = "addtimer" /\ n.t0 = t.t0
    BY <2>1 DEF Thread
  <2>. QED  BY <1>2, <2>2 DEF KnowsTime
<1>3. CASE t.groups = {} /\ t.soon = {}
  BY <1>3, Threads DEF Continue, KnowsTime
<1>. QED  BY <1>1, <1>2, <1>3

\* What a check finds it sees to; the rest can wait for the next.
LEMMA SeenTends ==
  ASSUME Typed, NEW i \in DOMAIN threads, i.at = "check", NEW k, Waits(k)
  PROVE  \/ \E g \in Seen(i).groups \cup Seen(i).soon : k \in g
         \/ alerts[k].due >= Second(now) + Interval
<1>. DEFINE s == Second(now)
            due == {j \in Within(s) : alerts[j].due <= s}
            rest == Within(s) \ due
<1>1. i \in Thread
  BY DEF Typed
<1>2. Seen(i).groups = ChannelGroups(due) /\ Seen(i).soon = Groups(rest)
  BY <1>1 DEF Seen, Thread
<1>3. k \in Within(s) \/ alerts[k].due >= s + Interval
  <2>1. alerts[k] \in Row /\ s \in Nat /\ Interval \in Nat
    BY Seconds, AlertsAssumption DEF Waits, Typed
  <2>2. alerts[k].due \in Nat
    BY <2>1 DEF Row
  <2>. QED  BY <2>1, <2>2 DEF Within, Waits
<1>4. k \in Within(s) => k \in due \/ k \in rest
  OBVIOUS
<1>. HIDE DEF due, rest
<1>5. ASSUME k \in due PROVE \E g \in ChannelGroups(due) : k \in g
  <2>1. {j \in due : alerts[j].chan = alerts[k].chan} \in ChannelGroups(due)
    BY <1>5 DEF ChannelGroups
  <2>. QED  BY <1>5, <2>1
<1>6. ASSUME k \in rest PROVE \E g \in Groups(rest) : k \in g
  <2>1. {j \in rest : alerts[j].chan = alerts[k].chan /\ alerts[j].due = alerts[k].due} \in Groups(rest)
    BY <1>6 DEF Groups
  <2>. QED  BY <1>6, <2>1
<1>. QED  BY <1>2, <1>3, <1>4, <1>5, <1>6

LEMMA SuccessorsKnow ==
  ASSUME Typed, NEW i \in DOMAIN threads, KnowsTime(i), NEW t \in Successors(i)
  PROVE  KnowsTime(t)
<1>1. i \in Thread
  BY DEF Typed
<1>2. CASE i.at = "check"
  <2>1. Seen(i).t0 = Second(now)
    BY <1>1 DEF Seen, Thread
  <2>. QED  BY <1>2, <2>1, SeenTyped, ContinueKnows DEF Successors
<1>3. CASE i.at \in {"addtimer", "send"} \/ (i.at = "claim" /\ Mine(i) = {})
  BY <1>1, <1>3, ContinueKnows DEF Successors, KnowsTime
<1>4. CASE i.at = "claim" /\ Mine(i) # {}
  <2>1. t = [i EXCEPT !.at = "send", !.ids = Mine(i)]
    BY <1>4 DEF Successors
  <2>2. t.at = "send" /\ t.soon = i.soon /\ t.t0 = i.t0
    BY <1>1, <2>1 DEF Thread
  <2>. QED  BY <2>2 DEF KnowsTime
<1>5. CASE i.at = "insert"
  <2>1. \/ i.users > 1 /\ t = [i EXCEPT !.users = @ - 1]
        \/ t = [Idle EXCEPT !.at = "restart"] \/ t = Idle
    BY <1>5 DEF Successors
  <2>2. CASE t = [Idle EXCEPT !.at = "restart"] \/ t = Idle
    <3>1. t.soon = {} /\ t.at \in {"idle", "restart"}
      BY <2>2, Threads DEF Idle
    <3>. QED  BY <3>1 DEF KnowsTime
  <2>3. CASE t = [i EXCEPT !.users = @ - 1]
    <3>1. t.at = "insert" /\ t.soon = i.soon /\ t.t0 = i.t0 /\ t.due = i.due
      BY <1>1, <1>5, <2>3 DEF Thread
    <3>. QED  BY <1>5, <3>1 DEF KnowsTime
  <2>. QED  BY <2>1, <2>2, <2>3
<1>6. CASE i.at \in {"restart", "setup", "idle"}
  <2>1. t.soon = {} /\ t.at \in {"idle", "check"}
    BY <1>6, Threads DEF Successors
  <2>. QED  BY <2>1 DEF KnowsTime
<1>. QED  BY <1>1, <1>2, <1>3, <1>4, <1>5, <1>6 DEF Thread, Places

LEMMA StartKnows ==
  ASSUME Typed, NEW t, Started(t)
  PROVE  KnowsTime(t)
<1>1. CASE (RunLoop /\ t = Checker) \/ ((SignOn \/ Repost) /\ t = Setup)
  BY <1>1, Threads DEF KnowsTime, Typed
<1>2. ASSUME NEW n \in DOMAIN timers, t = [Idle EXCEPT !.at = "claim", !.ids = n]
      PROVE  KnowsTime(t)
  <2>1. t.soon = {} /\ t.at = "claim"
    BY <1>2, Threads DEF Idle
  <2>. QED  BY <2>1 DEF KnowsTime
<1>3. ASSUME NEW u \in 1..2, NEW d \in 0..(Interval + 1), NEW c \in Channels,
             t = [Idle EXCEPT !.at = "insert", !.users = u, !.t0 = Second(now), !.due = Second(now) + d, !.chan = c]
      PROVE  KnowsTime(t)
  <2>1. t.t0 = Second(now) /\ t.due = Second(now) + d
    BY <1>3, Threads DEF Idle
  <2>2. Second(now) \in Nat /\ d \in Nat
    BY Seconds, AlertsAssumption DEF Typed
  <2>. QED  BY <2>1, <2>2 DEF KnowsTime
<1>. QED  BY <1>1, <1>2, <1>3 DEF Started

LEMMA StepsKeepDelivered ==
  ASSUME Typed, NEW i \in DOMAIN threads, Steps(i), NEW k \in DOMAIN alerts, alerts[k].delivered
  PROVE  alerts'[k].delivered
<1>1. alerts[k] \in Row
  BY DEF Typed
<1>2. CASE Claim(i)
  <2>1. alerts'[k] = [alerts[k] EXCEPT !.delivered = TRUE, !.claimed = Second(now)] \/ alerts'[k] = alerts[k]
    BY <1>2, ClaimRows
  <2>. QED  BY <1>1, <2>1 DEF Row
<1>3. CASE Send(i)
  <2>1. alerts'[k] = [alerts[k] EXCEPT !.sent = alerts[k].sent + 1] \/ alerts'[k] = alerts[k]
    BY <1>3, SendRows
  <2>2. [alerts[k] EXCEPT !.sent = alerts[k].sent + 1].delivered = alerts[k].delivered
    BY <1>1 DEF Row
  <2>. QED  BY <2>1, <2>2
<1>4. CASE Insert(i)
  BY <1>4, InsertRows
<1>5. CASE UNCHANGED alerts
  BY <1>5
<1>. QED  BY <1>2, <1>3, <1>4, <1>5 DEF Steps, Check, AddTimer, RestartTimer, SetupTimer

\* What a thread was to see to is seen to by what it becomes, by the loop's next check, or
\* by the timer it sets.
LEMMA TendedOn ==
  ASSUME Typed, NEW i \in DOMAIN threads, Steps(i), Loop \in DOMAIN timers, NEW k, Waits(k), Waits(k)', Tends(i, k)
  PROVE  \/ \E x \in DOMAIN threads' : Tends(x, k)
         \/ i.at = "check" /\ alerts[k].due >= Second(now) + Interval
         \/ i.at = "addtimer" /\ k \in i.ids
<1>1. i \in Thread /\ IsBag
  BY DEF Typed
<1>2. ASSUME NEW t, Goes(i, t), t # Idle, Tends(t, k) PROVE \E x \in DOMAIN threads' : Tends(x, k)
  BY <1>1, <1>2, ThreadGoes
<1>3. PICK t \in Successors(i) : Goes(i, t)
  BY StepGoes
<1>4. CASE i.at = "check"
  <2>1. t \in Continue(Seen(i)) /\ Seen(i) \in Thread
    BY <1>3, <1>4, SeenTyped DEF Successors
  <2>2. (\E g \in Seen(i).groups \cup Seen(i).soon : k \in g) \/ alerts[k].due >= Second(now) + Interval
    BY <1>4, SeenTends
  <2>. QED  BY <1>2, <1>3, <1>4, <2>1, <2>2, ContinueTends
<1>5. ASSUME t \in Continue(i), i.at \in {"addtimer", "send", "claim"}, i.at # "send" => k \notin i.ids
      PROVE  \E x \in DOMAIN threads' : Tends(x, k)
  <2>1. \E g \in i.groups \cup i.soon : k \in g
    BY <1>5 DEF Tends
  <2>2. t # Idle /\ Tends(t, k)
    BY <1>1, <1>5, <2>1, ContinueTends
  <2>. QED  BY <1>2, <1>3, <2>2
<1>6. CASE i.at \in {"addtimer", "send"}
  BY <1>3, <1>5, <1>6 DEF Successors
<1>7. CASE i.at = "claim"
  <2>1. Claim(i)
    BY <1>7 DEF Steps, Check, AddTimer, Send, Insert, RestartTimer, SetupTimer
  <2>2. k \notin Mine(i)
    <3>1. k \in Mine(i) => alerts'[k] = [alerts[k] EXCEPT !.delivered = TRUE, !.claimed = Second(now)]
      BY <2>1, ClaimRows DEF Waits
    <3>2. alerts[k] \in Row
      BY DEF Typed, Waits
    <3>3. [alerts[k] EXCEPT !.delivered = TRUE, !.claimed = Second(now)].delivered
      BY <3>2 DEF Row
    <3>. QED  BY <3>1, <3>3 DEF Waits
  <2>3. k \notin i.ids
    BY <2>2 DEF Mine, Waits
  <2>4. CASE Mine(i) = {}
    BY <1>3, <1>5, <1>7, <2>3, <2>4 DEF Successors
  <2>5. CASE Mine(i) # {}
    <3>1. t = [i EXCEPT !.at = "send", !.ids = Mine(i)]
      BY <1>3, <1>7, <2>5 DEF Successors
    <3>2. t.at = "send" /\ t.groups = i.groups /\ t.soon = i.soon
      BY <1>1, <3>1 DEF Thread
    <3>3. t # Idle /\ Tends(t, k)
      BY <1>7, <2>3, <3>2, Threads DEF Tends
    <3>. QED  BY <1>2, <1>3, <3>3
  <2>. QED  BY <2>4, <2>5
<1>8. CASE i.at = "insert"
  <2>1. i.due < i.t0 + Interval
    BY <1>8 DEF Tends
  <2>2. t = [i EXCEPT !.users = @ - 1] \/ t = [Idle EXCEPT !.at = "restart"]
    BY <1>3, <1>8, <2>1 DEF Successors
  <2>3. CASE t = [i EXCEPT !.users = @ - 1]
    <3>1. t.at = "insert" /\ t.due = i.due /\ t.t0 = i.t0
      BY <1>1, <1>8, <2>3 DEF Thread
    <3>2. t # Idle /\ Tends(t, k)
      BY <2>1, <3>1, Threads DEF Tends
    <3>. QED  BY <1>2, <1>3, <3>2
  <2>4. CASE t = [Idle EXCEPT !.at = "restart"]
    <3>1. t.at = "restart"
      BY <2>4, Threads DEF Idle
    <3>2. t # Idle /\ Tends(t, k)
      BY <3>1, Threads DEF Tends
    <3>. QED  BY <1>2, <1>3, <3>2
  <2>. QED  BY <2>2, <2>3, <2>4
<1>9. CASE i.at = "restart"
  <2>1. Becomes(i, {Checker})
    BY <1>9 DEF Steps, Check, AddTimer, Claim, Send, Insert, RestartTimer, SetupTimer
  <2>2. {Checker} \ {Idle} = {Checker}
    BY Threads
  <2>3. Goes(i, Checker)
    BY <2>1, <2>2 DEF Goes
  <2>4. Checker # Idle /\ Tends(Checker, k)
    BY Threads DEF Tends
  <2>. QED  BY <1>2, <2>3, <2>4
<1>. QED  BY <1>1, <1>4, <1>6, <1>7, <1>8, <1>9 DEF Tends, Thread, Places

LEMMA AheadStep == Typed /\ Schedules /\ TimersAhead /\ [Next]_vars => TimersAhead'
<1>. SUFFICES ASSUME Typed, Schedules, TimersAhead, [Next]_vars PROVE TimersAhead'
  OBVIOUS
<1>1. now \in Nat /\ Interval \in Nat /\ TimersTyped /\ \A n \in DOMAIN timers : timers[n].at \in Int
  BY AlertsAssumption DEF Typed, TimersTyped, Timer
<1>2. CASE UNCHANGED <<now, timers>>
  BY <1>2 DEF TimersAhead
<1>3. CASE DOMAIN timers' = {}
  BY <1>3 DEF TimersAhead
<1>4. ASSUME NEW i \in DOMAIN threads, Steps(i) PROVE TimersAhead'
  <2>1. now' = now
    BY <1>4 DEF Steps, Check, AddTimer, Claim, Send, Insert, RestartTimer, SetupTimer
  <2>. SUFFICES ASSUME NEW n \in DOMAIN timers' PROVE now <= timers'[n].at
    BY <2>1 DEF TimersAhead
  <2>2. LoopAfter(i) /\ OthersAfter(i)
    BY <1>4, StepsTimers
  <2>3. CASE n = Loop
    BY <1>1, <2>2, <2>3 DEF LoopAfter, TimersAhead
  <2>4. CASE n # Loop /\ n \in DOMAIN timers
    BY <2>2, <2>4 DEF OthersAfter, TimersAhead
  <2>5. CASE n # Loop /\ n \notin DOMAIN timers
    <3>1. PICK k \in n : timers'[n].at = now + 2 * (alerts[k].due - i.t0) /\ i.at = "addtimer" /\ n = i.ids
      BY <2>2, <2>5 DEF OthersAfter
    <3>2. k \in DOMAIN alerts /\ i.t0 <= alerts[k].due /\ i.t0 \in Nat
      BY <3>1 DEF Schedules, Scheduled, Alike, Typed, Thread
    <3>3. alerts[k] \in Row
      BY <3>2 DEF Typed
    <3>4. alerts[k].due \in Nat
      BY <3>3 DEF Row
    <3>. QED  BY <1>1, <3>1, <3>2, <3>4
  <2>. QED  BY <2>3, <2>4, <2>5
<1>5. CASE RunLoop
  <2>1. Loop \in DOMAIN timers /\ timers' = [timers EXCEPT ![Loop].at = timers[Loop].at + 2 * Interval] /\ now' = now
    BY <1>5 DEF RunLoop
  <2>2. PICK at \in Int : at = timers[Loop].at + 2 * Interval
    BY <1>1, <2>1
  <2>3. /\ DOMAIN timers' = DOMAIN timers /\ timers'[Loop].at = at
        /\ \A x \in DOMAIN timers : x # Loop => timers'[x] = timers[x]
    BY <1>1, <2>1, <2>2, LoopMoved
  <2>4. now <= at
    BY <1>1, <2>1, <2>2 DEF TimersAhead
  <2>. QED  BY <2>1, <2>3, <2>4 DEF TimersAhead
<1>6. ASSUME NEW n \in DOMAIN timers, RunOnce(n) PROVE TimersAhead'
  BY <1>6 DEF RunOnce, Restrict, TimersAhead
<1>7. ASSUME NEW t, Started(t) PROVE TimersAhead'
  BY <1>2, <1>5, <1>6, <1>7 DEF Started, Alert, SignOn, Repost
<1>8. CASE Tick
  BY <1>1, <1>8 DEF Tick, TimersAhead
<1>9. CASE Crash \/ \E k \in BOOLEAN : Reload(k)
  BY <1>2, <1>3, <1>9 DEF Crash, Reload, Unload
<1>. QED  BY <1>2, <1>4, <1>7, <1>8, <1>9, NextKinds DEF Disconnect, vars
\* A new timer goes off within half a second of its alerts' time; the loop's within an interval.
LEMMA SoonSteps ==
  ASSUME Typed, Schedules, TimersSet, Watched, ~late, NEW i \in DOMAIN threads, Steps(i)
  PROVE  TimersSoon'
<1>1. /\ now' = now /\ now \in Nat /\ Interval \in Nat /\ TimersSoon /\ KnowsTime(i) /\ Grows
      /\ \A n \in DOMAIN timers : timers[n].at \in Int
  <2>1. now' = now
    BY DEF Steps, Check, AddTimer, Claim, Send, Insert, RestartTimer, SetupTimer
  <2>2. Grows
    BY AlwaysGrows DEF Next, Steps, BagToSet
  <2>. QED  BY <2>1, <2>2, AlertsAssumption DEF Typed, Timer, Watched
<1>2. LoopAfter(i) /\ OthersAfter(i)
  BY StepsTimers
<1>3. Loop \in DOMAIN timers' => timers'[Loop].at <= now' + 2 * Interval
  BY <1>1, <1>2 DEF LoopAfter, TimersSoon
<1>4. ASSUME NEW n \in DOMAIN timers', n # Loop, NEW k \in n PROVE timers'[n].at <= 2 * alerts'[k].due + 1
  <2>1. CASE n \in DOMAIN timers
    <3>1. timers'[n] = timers[n] /\ timers[n].at <= 2 * alerts[k].due + 1 /\ k \in DOMAIN alerts
      BY <1>1, <1>2, <1>4, <2>1 DEF OthersAfter, TimersSoon, TimersSet
    <3>. QED  BY <1>1, <3>1 DEF Grows
  <2>2. CASE n \notin DOMAIN timers
    <3>1. PICK j \in n : timers'[n].at = now + 2 * (alerts[j].due - i.t0) /\ i.at = "addtimer" /\ n = i.ids
      BY <1>2, <1>4, <2>2 DEF OthersAfter
    <3>2. Alike(n, i.t0) /\ i.t0 = Second(now)
      BY <1>1, <3>1 DEF Schedules, Scheduled, KnowsTime
    <3>3. j \in DOMAIN alerts /\ k \in DOMAIN alerts /\ alerts[j].due = alerts[k].due /\ alerts[k] \in Row
      BY <1>4, <3>2 DEF Alike, Typed
    <3>4. alerts[k].due \in Nat /\ alerts'[k].due = alerts[k].due
      BY <1>1, <3>3 DEF Row, Grows
    <3>5. Second(now) \in Nat /\ now <= 2 * Second(now) + 1
      BY <1>1, Seconds
    <3>. QED  BY <1>1, <3>1, <3>2, <3>3, <3>4, <3>5
  <2>. QED  BY <2>1, <2>2
<1>. QED  BY <1>3, <1>4 DEF TimersSoon

\* An alert just stored is due within an interval, and the handler restarts the loop, or the
\* loop comes before it is due.
LEMMA CoveredInserts ==
  ASSUME Typed, Watched, ~late, NEW i \in DOMAIN threads, Insert(i), Loop \in DOMAIN timers,
         NEW k \in DOMAIN alerts', k \notin DOMAIN alerts
  PROVE  Covered(k)' /\ InTime(alerts[k].due)'
<1>1. alerts'[k] = [due |-> i.due, chan |-> i.chan, delivered |-> FALSE, claimed |-> 0, sent |-> 0]
  BY InsertRows
<1>2. /\ alerts'[k].due = i.due /\ i \in Thread /\ IsBag /\ i.at = "insert" /\ i.t0 = Second(now) /\ i.t0 <= i.due
      /\ timers' = timers /\ armed' = armed /\ now' = now
      /\ timers[Loop].at <= now + 2 * Interval
  BY <1>1 DEF Typed, Watched, KnowsTime, TimersSoon, Insert
<1>3. /\ i.due \in Nat /\ now \in Nat /\ Interval \in Nat /\ armed \in Nat /\ timers[Loop].at \in Int
      /\ Second(now) \in Nat /\ now <= 2 * Second(now) + 1
  BY <1>2, Seconds, AlertsAssumption DEF Typed, Thread, Timer
<1>4. InTime(alerts[k].due)'
  BY <1>2, <1>3 DEF InTime
<1>5. CASE i.due < i.t0 + Interval
  <2>1. PICK t \in Successors(i) : Goes(i, t)
    BY StepGoes DEF Steps
  <2>2. t = [i EXCEPT !.users = @ - 1] \/ t = [Idle EXCEPT !.at = "restart"]
    BY <1>2, <1>5, <2>1 DEF Successors
  <2>3. CASE t = [i EXCEPT !.users = @ - 1]
    <3>1. t.at = "insert" /\ t.due = i.due /\ t.t0 = i.t0
      BY <1>2, <2>3 DEF Thread
    <3>2. t # Idle /\ Tends(t, k)
      BY <1>5, <3>1, Threads DEF Tends
    <3>3. t \in DOMAIN threads'
      BY <1>2, <2>1, <3>2, ThreadGoes
    <3>. QED  BY <1>4, <3>2, <3>3 DEF Covered
  <2>4. CASE t = [Idle EXCEPT !.at = "restart"]
    <3>1. t.at = "restart"
      BY <2>4, Threads DEF Idle
    <3>2. t # Idle /\ Tends(t, k)
      BY <3>1, Threads DEF Tends
    <3>3. t \in DOMAIN threads'
      BY <1>2, <2>1, <3>2, ThreadGoes
    <3>. QED  BY <1>4, <3>2, <3>3 DEF Covered
  <2>. QED  BY <2>2, <2>3, <2>4
<1>6. CASE ~(i.due < i.t0 + Interval)
  <2>1. timers[Loop].at <= 2 * i.due + 1
    BY <1>2, <1>3, <1>6
  <2>2. timers'[Loop].at <= 2 * alerts'[k].due + 1
    BY <1>2, <2>1
  <2>. QED  BY <1>4, <2>2 DEF Covered, LoopInTime
<1>. QED  BY <1>5, <1>6

\* A step of a thread leaves no waiting alert without someone coming for it.
LEMMA CoveredSteps ==
  ASSUME Typed, Schedules, Watched, ~late, NEW i \in DOMAIN threads, Steps(i), Loop \in DOMAIN timers',
         NEW k \in DOMAIN alerts, Waits(k)'
  PROVE  Covered(k)' /\ InTime(alerts[k].due)'
<1>1. /\ now' = now /\ alerts'[k].due = alerts[k].due /\ LoopAfter(i) /\ OthersAfter(i) /\ IsBag
  <2>1. now' = now
    BY DEF Steps, Check, AddTimer, Claim, Send, Insert, RestartTimer, SetupTimer
  <2>2. Grows
    BY AlwaysGrows DEF Next, Steps, BagToSet
  <2>. QED  BY <2>1, <2>2, StepsTimers DEF Grows, Typed
<1>2. now \in Nat /\ Interval \in Nat /\ armed \in Nat /\ alerts[k] \in Row
  BY AlertsAssumption DEF Typed
<1>3. alerts[k].due \in Nat
  BY <1>2 DEF Row
<1>4. CASE Loop \notin DOMAIN timers
  <2>1. timers'[Loop].at = now + 2 * Interval /\ armed' = now
    BY <1>1, <1>4 DEF LoopAfter
  <2>. QED  BY <1>1, <1>2, <1>3, <2>1 DEF Covered, LoopInTime, InTime
<1>5. CASE Loop \in DOMAIN timers
  <2>1. Waits(k)
    BY StepsKeepDelivered DEF Waits
  <2>2. Covered(k) /\ InTime(alerts[k].due) /\ armed' = armed /\ timers[Loop].at <= now + 2 * Interval
    BY <1>1, <1>5, <2>1 DEF Watched, LoopAfter, TimersSoon
  <2>3. InTime(alerts[k].due)'
    BY <1>1, <2>2 DEF InTime
  <2>. SUFFICES Covered(k)'
    BY <2>3
  <2>4. ASSUME NEW x \in DOMAIN threads', Tends(x, k) PROVE Covered(k)'
    BY <2>4 DEF Covered, Tends
  <2>5. ASSUME i.at = "restart" PROVE Covered(k)'
    <3>1. Tends(i, k)
      BY <2>5 DEF Tends
    <3>2. \E x \in DOMAIN threads' : Tends(x, k)
      BY <1>5, <2>1, <2>5, <3>1, TendedOn
    <3>. QED  BY <2>4, <3>2
  <2>6. CASE LoopInTime(alerts[k].due)
    <3>1. CASE timers'[Loop].at = timers[Loop].at
      BY <1>1, <2>2, <2>6, <3>1 DEF Covered, LoopInTime
    <3>. QED  BY <1>1, <1>5, <2>5, <3>1 DEF LoopAfter
  <2>7. ASSUME NEW n \in DOMAIN timers, n # Loop, k \in n PROVE Covered(k)'
    BY <1>1, <2>7 DEF OthersAfter, Covered
  <2>8. ASSUME NEW x \in DOMAIN threads, x # i, Tends(x, k) PROVE Covered(k)'
    <3>1. PICK t \in Successors(i) : Goes(i, t)
      BY StepGoes
    <3>2. x \in DOMAIN threads'
      BY <1>1, <2>8, <3>1, ThreadGoes
    <3>. QED  BY <2>4, <2>8, <3>2
  <2>9. ASSUME Tends(i, k) PROVE Covered(k)'
    <3>1. CASE i.at = "check" /\ alerts[k].due >= Second(now) + Interval
      <4>1. Second(now) \in Nat /\ now <= 2 * Second(now) + 1 /\ timers[Loop].at \in Int
        BY <1>2, <1>5, Seconds DEF Typed, Timer
      <4>2. timers[Loop].at <= 2 * alerts[k].due + 1
        BY <1>2, <1>3, <2>2, <3>1, <4>1
      <4>. QED  BY <2>6, <4>2 DEF LoopInTime
    <3>2. CASE i.at = "addtimer" /\ k \in i.ids
      BY <1>1, <3>2 DEF OthersAfter, Covered
    <3>. QED  BY <1>5, <2>1, <2>4, <2>9, <3>1, <3>2, TendedOn
  <2>. QED  BY <2>2, <2>6, <2>7, <2>8, <2>9 DEF Covered
<1>. QED  BY <1>4, <1>5

LEMMA WatchedSteps ==
  ASSUME Typed, Schedules, TimersSet, Watched, TimersAhead', NEW i \in DOMAIN threads, Steps(i)
  PROVE  Watched'
<1>1. now' = now /\ late' = late
  BY DEF Steps, Check, AddTimer, Claim, Send, Insert, RestartTimer, SetupTimer
<1>. SUFFICES ASSUME ~late
              PROVE  /\ \A x \in DOMAIN threads' : KnowsTime(x)'
                     /\ TimersSoon'
                     /\ Loop \in DOMAIN timers' =>
                          \A k \in DOMAIN alerts' : Waits(k)' => Covered(k)' /\ InTime(alerts[k].due)'
  BY <1>1 DEF Watched
<1>2. ASSUME NEW x \in DOMAIN threads' PROVE KnowsTime(x)'
  <2>1. PICK t \in Successors(i) : Goes(i, t)
    BY StepGoes
  <2>2. x \in DOMAIN threads \/ x = t
    BY <2>1, ThreadGoes DEF Typed
  <2>3. KnowsTime(t)
    BY <2>1, SuccessorsKnow DEF Watched
  <2>. QED  BY <1>1, <2>2, <2>3 DEF Watched, KnowsTime
<1>3. TimersSoon'
  BY SoonSteps
<1>4. ASSUME Loop \in DOMAIN timers', NEW k \in DOMAIN alerts', Waits(k)'
      PROVE  Covered(k)' /\ InTime(alerts[k].due)'
  <2>1. CASE k \in DOMAIN alerts
    BY <1>4, <2>1, CoveredSteps
  <2>2. CASE k \notin DOMAIN alerts
    <3>1. Insert(i)
      BY <2>2, ClaimRows, SendRows DEF Steps, Check, AddTimer, RestartTimer, SetupTimer
    <3>2. Loop \in DOMAIN timers
      BY <1>4, <3>1 DEF Insert
    <3>. QED  BY <1>4, <2>2, <3>1, <3>2, CoveredInserts
  <2>. QED  BY <2>1, <2>2
<1>. QED  BY <1>2, <1>3, <1>4

LEMMA WatchedStarts ==
  ASSUME Typed, TimersSet, Watched, TimersAhead', NEW t, Started(t)
  PROVE  Watched'
<1>1. UNCHANGED <<alerts, now, armed, late>>
  BY DEF Started, RunLoop, RunOnce, Alert, SignOn, Repost
<1>. SUFFICES ASSUME ~late
              PROVE  /\ \A x \in DOMAIN threads' : KnowsTime(x)'
                     /\ TimersSoon'
                     /\ Loop \in DOMAIN timers' =>
                          \A k \in DOMAIN alerts : Waits(k) => Covered(k)' /\ InTime(alerts[k].due)'
  BY <1>1 DEF Watched, Waits
<1>2. DOMAIN threads' = DOMAIN threads \cup {t}
  BY StartTyped, ThreadStarts DEF Typed
<1>3. \A x \in DOMAIN threads' : KnowsTime(x)'
  BY <1>1, <1>2, StartKnows DEF Watched, KnowsTime
<1>4. TimersTyped /\ TimersSoon /\ now \in Nat /\ Interval \in Nat
  BY AlertsAssumption DEF Typed, TimersTyped, Watched
<1>5. CASE RunLoop /\ t = Checker
  <2>1. /\ Loop \in DOMAIN timers /\ timers[Loop].at <= now
        /\ timers' = [timers EXCEPT ![Loop].at = timers[Loop].at + 2 * Interval]
    BY <1>5 DEF RunLoop
  <2>2. PICK at \in Int : at = timers[Loop].at + 2 * Interval /\ at <= now + 2 * Interval
    BY <1>4, <2>1 DEF TimersTyped, Timer
  <2>3. /\ DOMAIN timers' = DOMAIN timers /\ timers'[Loop].at = at
        /\ \A x \in DOMAIN timers : x # Loop => timers'[x] = timers[x]
    BY <1>4, <2>1, <2>2, LoopMoved
  <2>4. TimersSoon'
    BY <1>1, <1>4, <2>2, <2>3 DEF TimersSoon
  <2>5. \A k : Tends(Checker, k)
    BY Threads DEF Tends
  <2>6. \A k \in DOMAIN alerts : Waits(k) => Covered(k)' /\ InTime(alerts[k].due)'
    <3>. SUFFICES ASSUME NEW k \in DOMAIN alerts, Waits(k) PROVE Covered(k)' /\ InTime(alerts[k].due)'
      OBVIOUS
    <3>1. InTime(alerts[k].due)
      BY <2>1 DEF Watched
    <3>2. \E x \in DOMAIN threads' : Tends(x, k)
      BY <1>2, <1>5, <2>5
    <3>. QED  BY <1>1, <3>1, <3>2 DEF Covered, InTime, Tends
  <2>. QED  BY <1>3, <2>4, <2>6
<1>6. ASSUME NEW n \in DOMAIN timers, RunOnce(n), t = [Idle EXCEPT !.at = "claim", !.ids = n] PROVE Watched'
  <2>1. /\ DOMAIN timers' = DOMAIN timers \ {n} /\ n # Loop
        /\ \A x \in DOMAIN timers' : timers'[x] = timers[x]
    BY <1>6 DEF RunOnce, Restrict
  <2>2. TimersSoon'
    BY <1>1, <1>4, <2>1 DEF TimersSoon
  <2>3. t.at = "claim" /\ t.ids = n
    BY <1>6, Threads DEF Idle
  <2>4. ASSUME Loop \in DOMAIN timers', NEW k \in DOMAIN alerts, Waits(k) PROVE Covered(k)' /\ InTime(alerts[k].due)'
    <3>1. Covered(k) /\ InTime(alerts[k].due)
      BY <2>1, <2>4 DEF Watched
    <3>2. InTime(alerts[k].due)'
      BY <1>1, <3>1 DEF InTime
    <3>3. CASE LoopInTime(alerts[k].due)
      BY <1>1, <2>1, <2>4, <3>2, <3>3 DEF Covered, LoopInTime
    <3>4. ASSUME NEW m \in DOMAIN timers, m # Loop, k \in m PROVE Covered(k)'
      <4>1. CASE m = n
        <5>1. t \in DOMAIN threads' /\ Tends(t, k)
          BY <1>2, <2>3, <3>4, <4>1 DEF Tends
        <5>. QED  BY <5>1 DEF Covered, Tends
      <4>2. CASE m # n
        BY <2>1, <3>4, <4>2 DEF Covered
      <4>. QED  BY <4>1, <4>2
    <3>5. ASSUME NEW x \in DOMAIN threads, Tends(x, k) PROVE Covered(k)'
      BY <1>2, <3>5 DEF Covered, Tends
    <3>. QED  BY <3>1, <3>2, <3>3, <3>4, <3>5 DEF Covered
  <2>5. Loop \in DOMAIN timers' =>
          \A k \in DOMAIN alerts' : Waits(k)' => Covered(k)' /\ InTime(alerts[k].due)'
    BY <1>1, <2>4 DEF Waits
  <2>. QED  BY <1>3, <2>2, <2>5 DEF Watched
<1>7. CASE UNCHANGED timers
  <2>1. TimersSoon'
    BY <1>1, <1>4, <1>7 DEF TimersSoon
  <2>2. ASSUME Loop \in DOMAIN timers', NEW k \in DOMAIN alerts, Waits(k) PROVE Covered(k)' /\ InTime(alerts[k].due)'
    <3>1. Covered(k) /\ InTime(alerts[k].due)
      BY <1>7, <2>2 DEF Watched
    <3>2. InTime(alerts[k].due)'
      BY <1>1, <3>1 DEF InTime
    <3>3. ASSUME NEW x \in DOMAIN threads, Tends(x, k) PROVE Covered(k)'
      BY <1>2, <3>3 DEF Covered, Tends
    <3>4. CASE LoopInTime(alerts[k].due)
      BY <1>1, <1>7, <3>2, <3>4 DEF Covered, LoopInTime
    <3>5. ASSUME NEW n \in DOMAIN timers, n # Loop, k \in n PROVE Covered(k)'
      BY <1>7, <3>5 DEF Covered
    <3>. QED  BY <3>1, <3>2, <3>3, <3>4, <3>5 DEF Covered
  <2>. QED  BY <1>3, <2>1, <2>2
<1>8. CASE \E n \in DOMAIN timers : RunOnce(n) /\ t = [Idle EXCEPT !.at = "claim", !.ids = n]
  <2>1. Watched'
    BY <1>6, <1>8
  <2>. QED  BY <1>1, <2>1 DEF Watched, Waits
<1>. QED  BY <1>5, <1>7, <1>8 DEF Started, Alert, SignOn, Repost

\* Time goes on only when nothing is due, and the loop or a timer is ahead for each alert.
LEMMA WatchedTick ==
  ASSUME Typed, TimersSet, Watched, TimersAhead', Tick
  PROVE  Watched'
<1>. SUFFICES ASSUME ~late'
              PROVE  /\ \A x \in DOMAIN threads' : KnowsTime(x)'
                     /\ TimersSoon'
                     /\ Loop \in DOMAIN timers' =>
                          \A k \in DOMAIN alerts' : Waits(k)' => Covered(k)' /\ InTime(alerts[k].due)'
  BY DEF Watched
<1>1. /\ UNCHANGED <<alerts, timers, threads, armed>> /\ now' = now + 1 /\ ~late /\ Quiet
      /\ \A n \in DOMAIN timers : timers[n].at > now
  BY DEF Tick
<1>2. DOMAIN threads = {} /\ DOMAIN threads' = {}
  BY <1>1, NoThreads
<1>3. /\ now \in Nat /\ Interval \in Nat /\ armed \in Nat /\ TimersSoon
      /\ \A n \in DOMAIN timers : timers[n].at \in Int
      /\ \A k \in DOMAIN alerts : alerts[k] \in Row
  BY <1>1, AlertsAssumption DEF Typed, Timer, Watched
<1>4. \A k \in DOMAIN alerts : alerts[k].due \in Nat
  BY <1>3 DEF Row
<1>5. TimersSoon'
  <2>1. Loop \in DOMAIN timers => timers[Loop].at <= now + 1 + 2 * Interval
    BY <1>3 DEF TimersSoon
  <2>. QED  BY <1>1, <1>3, <2>1 DEF TimersSoon
<1>6. ASSUME Loop \in DOMAIN timers, NEW k \in DOMAIN alerts, Waits(k) PROVE Covered(k)' /\ InTime(alerts[k].due)'
  <2>1. Covered(k)
    BY <1>1, <1>6 DEF Watched
  <2>2. CASE LoopInTime(alerts[k].due)
    <3>1. now + 1 <= timers[Loop].at /\ timers[Loop].at \in Int
      BY <1>1, <1>3, <1>6
    <3>2. now + 1 <= 2 * alerts[k].due + 2 \/ now + 1 <= armed + 2 * Interval + 2
      BY <1>3, <1>4, <2>2, <3>1 DEF LoopInTime
    <3>. QED  BY <1>1, <2>2, <3>2 DEF LoopInTime, InTime, Covered
  <2>3. ASSUME NEW n \in DOMAIN timers, n # Loop, k \in n PROVE Covered(k)' /\ InTime(alerts[k].due)'
    <3>1. now + 1 <= timers[n].at /\ timers[n].at \in Int /\ timers[n].at <= 2 * alerts[k].due + 1
      BY <1>1, <1>3, <2>3 DEF TimersSoon
    <3>2. now + 1 <= 2 * alerts[k].due + 2
      BY <1>3, <1>4, <3>1
    <3>. QED  BY <1>1, <2>3, <3>2 DEF InTime, Covered
  <2>. QED  BY <1>2, <2>1, <2>2, <2>3 DEF Covered
<1>. QED  BY <1>1, <1>2, <1>5, <1>6 DEF Waits

LEMMA WatchedStep == Typed /\ Schedules /\ TimersSet /\ Watched /\ [Next]_vars => Watched'
<1>. SUFFICES ASSUME Typed, Schedules, TimersSet, Watched, [Next]_vars PROVE Watched'
  OBVIOUS
<1>1. TimersAhead'
  BY AheadStep DEF Watched
<1>2. ASSUME UNCHANGED <<alerts, threads, now, armed, late>>, timers' = timers \/ DOMAIN timers' = {}
      PROVE  Watched'
  <2>1. CASE timers' = timers
    BY <1>2, <2>1 DEF Watched, TimersAhead, TimersSoon, KnowsTime, Waits, Covered, LoopInTime, InTime, Tends
  <2>2. CASE DOMAIN timers' = {}
    BY <1>1, <1>2, <2>2 DEF Watched, TimersSoon, KnowsTime
  <2>. QED  BY <1>2, <2>1, <2>2
<1>3. CASE Crash
  <2>1. DOMAIN timers' = {} /\ DOMAIN threads' = {}
    BY <1>3 DEF Crash, EmptyBag, SetToBag
  <2>. QED  BY <1>1, <2>1 DEF Watched, TimersSoon
<1>4. CASE Disconnect \/ (\E k \in BOOLEAN : Reload(k)) \/ UNCHANGED vars
  BY <1>2, <1>4 DEF Disconnect, Reload, Unload, vars
<1>. QED  BY <1>1, <1>3, <1>4, WatchedSteps, WatchedStarts, WatchedTick, NextKinds

\* No alert is overlooked between a check and the next, a command and the check it
\* restarts, or a load and the sign-on it posts: while the loop runs and no thread was kept
\* waiting, one still to be delivered is not a second late, or an interval after the loop
\* was set up (LOOP_INTERVAL, restarttimer, check_alerts_callback).
THEOREM AlertsArePunctual == Spec => []Punctual
<1>1. Init => Inv /\ Watched
  <2>1. Init => DOMAIN timers = {} /\ DOMAIN threads = {}
    BY DEF Init, EmptyBag, SetToBag
  <2>. QED  BY <2>1, InitInv DEF Watched, TimersAhead, TimersSoon
<1>2. Inv /\ Watched /\ [Next]_vars => (Inv /\ Watched)'
  BY InvStep, WatchedStep DEF Inv
<1>3. Inv /\ Watched => Punctual
  <2>. SUFFICES ASSUME Inv, Watched, Loop \in DOMAIN timers, ~late, NEW k \in DOMAIN alerts, ~alerts[k].delivered
                PROVE  now <= 2 + (IF 2 * alerts[k].due > armed + 2 * Interval THEN 2 * alerts[k].due
                                                                              ELSE armed + 2 * Interval)
    BY DEF Punctual
  <2>1. InTime(alerts[k].due) /\ alerts[k] \in Row /\ now \in Nat /\ armed \in Nat /\ Interval \in Nat
    BY AlertsAssumption DEF Watched, Waits, Inv, Typed
  <2>2. alerts[k].due \in Nat
    BY <2>1 DEF Row
  <2>. QED  BY <2>1, <2>2 DEF InTime
<1>. QED  BY <1>1, <1>2, <1>3, PTL DEF Spec
=============================================================================
