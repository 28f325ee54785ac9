------------------------------ MODULE EventProofs ------------------------------
(***************************************************************************)
(* Proofs about what the bot makes of the events the network sends.         *)
(*                                                                         *)
(* EventWait, for every set of waiters and kinds: what a waiter is given is *)
(* what was dispatched while it was registered, it is registered before it  *)
(* sends, forgotten when it ends, and ends in time.                         *)
(*                                                                         *)
(* NetworkState, for every set of people, nicks and channels and any number *)
(* of messages on their way: the bot's picture refers to itself soundly,     *)
(* and is the network once the bot has heard what is on its way.            *)
(***************************************************************************)
EXTENDS EventWait, NetworkState, FiniteSetTheorems, FunctionTheorems, SequenceTheorems, TLAPS

----------------------------------------------------------------------------
(* Sequences.                                                              *)

\* Moving the head of one sequence to the end of another keeps the whole.
LEMMA HeadMoves ==
  ASSUME NEW S, NEW p \in Seq(S), NEW q \in Seq(S), q # <<>>
  PROVE  /\ Head(q) \in S /\ Tail(q) \in Seq(S) /\ Append(p, Head(q)) \in Seq(S)
         /\ Append(p, Head(q)) \o Tail(q) = p \o q
<1>1. Head(q) \in S /\ Tail(q) \in Seq(S) /\ q = <<Head(q)>> \o Tail(q)
  BY HeadTailProperties
<1>2. <<Head(q)>> \in Seq(S)
  BY <1>1
<1>3. Append(p, Head(q)) = p \o <<Head(q)>>
  BY <1>1, AppendIsConcat
<1>4. p \o (<<Head(q)>> \o Tail(q)) = (p \o <<Head(q)>>) \o Tail(q)
  BY <1>1, <1>2, ConcatAssociative
<1>. QED  BY <1>1, <1>3, <1>4

\* A number above all others may be put at the end.
LEMMA AppendAbove ==
  ASSUME NEW s \in Seq(Nat), NEW n \in Nat, Increasing(s), \A m \in ToSet(s) : m < n
  PROVE  Increasing(Append(s, n)) /\ ToSet(Append(s, n)) = ToSet(s) \cup {n}
<1>. DEFINE a == Append(s, n)
<1>1. /\ a \in Seq(Nat) /\ Len(a) = Len(s) + 1 /\ DOMAIN a = 1..Len(s) + 1
      /\ DOMAIN s = 1..Len(s) /\ Len(s) \in Nat
      /\ a[Len(s) + 1] = n /\ \A i \in 1..Len(s) : a[i] = s[i]
  OBVIOUS
<1>. HIDE DEF a
<1>2. ASSUME NEW i \in DOMAIN a, NEW j \in DOMAIN a, i < j
      PROVE  a[i] < a[j]
  <2>1. i \in 1..Len(s) /\ a[i] = s[i]
    BY <1>1, <1>2
  <2>2. CASE j = Len(s) + 1
    BY <1>1, <2>1, <2>2 DEF ToSet
  <2>3. CASE j # Len(s) + 1
    <3>1. j \in 1..Len(s) /\ a[j] = s[j]
      BY <1>1, <1>2, <2>3
    <3>2. s[i] < s[j]
      BY <1>1, <1>2, <2>1, <3>1 DEF Increasing
    <3>. QED  BY <2>1, <3>1, <3>2
  <2>. QED  BY <2>2, <2>3
<1>3. ToSet(a) = ToSet(s) \cup {n}
  <2>1. DOMAIN a = DOMAIN s \cup {Len(s) + 1}
    BY <1>1
  <2>. QED  BY <1>1, <2>1 DEF ToSet
<1>. QED  BY <1>2, <1>3 DEF Increasing, a

\* p \o Append(q, n) is Append(p \o q, n).
LEMMA AppendToConcat ==
  ASSUME NEW S, NEW p \in Seq(S), NEW q \in Seq(S), NEW n \in S
  PROVE  p \o Append(q, n) = Append(p \o q, n)
OBVIOUS

----------------------------------------------------------------------------
(* Types.                                                                  *)

\* Where a generator may stand.
Places == {"idle", "connecting", "register", "send", "loop", "get", "drain", "cleanup",
           "finished"}

\* What the log holds is bounded, and an event is dispatched while one is under way.
Logged == Len(log) <= MaxEvents /\ (disp.busy => log # <<>>)
Typed == TypeOK /\ Logged

LEMMA InitTyped == Init => Typed
BY WaitAssumption DEF Init, Typed, Logged, TypeOK, NoDispatch, Never, Open

\* A step of a generator that takes nothing.
LEMMA MovesTyped ==
  ASSUME Typed, NEW w \in Waiters,
         Start(w) \/ AwaitBot(w) \/ Loop(w) \/ GetEmpty(w)
  PROVE  Typed'
<1>1. UNCHANGED <<calls, waitmap, disp, wq, done, connected, now, log, from, upto, got>>
  BY DEF Start, AwaitBot, Loop, GetEmpty, reactorVars
<1>2. \E to \in Places : Move(w, to)
  BY DEF Start, AwaitBot, Loop, GetEmpty, End, Places
<1>3. UNCHANGED since \/ since' = [since EXCEPT ![w] = now]
  BY DEF Start, AwaitBot, Loop, GetEmpty
<1>4. UNCHANGED expired \/ (now <= LastStart /\ expired' = [expired EXCEPT ![w] = now + Timeout])
  BY DEF Start, AwaitBot, Loop, GetEmpty
<1>5. UNCHANGED outcome \/ outcome' = [outcome EXCEPT ![w] = "timeout"]
  BY DEF Start, AwaitBot, Loop, GetEmpty, End
<1>6. pc' \in [Waiters -> Places]
  BY <1>2 DEF Typed, TypeOK, Move, Places
<1>7. since' \in [Waiters -> 0..MaxTime]
  BY <1>3 DEF Typed, TypeOK
<1>8. expired' \in [Waiters -> 0..(LastStart + Timeout)]
  <2>1. now \in Nat /\ (now <= LastStart => now + Timeout \in 0..(LastStart + Timeout))
    BY WaitAssumption DEF Typed, TypeOK
  <2>. QED  BY <1>4, <2>1 DEF Typed, TypeOK
<1>9. outcome' \in [Waiters -> {"none", "found", "returned", "timeout"}]
  BY <1>5 DEF Typed, TypeOK
<1>. QED  BY <1>1, <1>6, <1>7, <1>8, <1>9 DEF Typed, Logged, TypeOK, Places

LEMMA CallsTyped ==
  ASSUME Typed, NEW w \in Waiters, RegisterAndSend(w) \/ Cleanup(w)
  PROVE  Typed'
<1>. DEFINE C == {"add", "send", "del"} \X Waiters
<1>1. PICK c \in C : calls' = Append(calls, c)
  BY DEF Call, RegisterAndSend, Cleanup
<1>2. calls \in Seq(C)
  BY DEF Typed, TypeOK
<1>3. \E to \in Places : Move(w, to)
  BY DEF RegisterAndSend, Cleanup, Places
<1>. HIDE DEF C
<1>4. calls' \in Seq(C)
  BY <1>1, <1>2
<1>5. pc' \in [Waiters -> Places]
  BY <1>3 DEF Typed, TypeOK, Move, Places
<1>6. UNCHANGED <<waitmap, disp, wq, done, since, expired, connected, now, log, from, upto,
                  got, outcome>>
  BY DEF RegisterAndSend, Cleanup, reactorVars
<1>. QED  BY <1>4, <1>5, <1>6 DEF Typed, Logged, TypeOK, C, Places

LEMMA YieldTyped ==
  ASSUME Typed, NEW w \in Waiters, NEW back \in {"loop", "drain"}, Yield(w, back),
         UNCHANGED <<reactorVars, calls, since, expired>>
  PROVE  Typed'
<1>1. wq[w] \in Seq(1..MaxEvents) /\ got[w] \in Seq(1..MaxEvents) /\ wq[w] # <<>>
  BY DEF Typed, TypeOK, Yield
<1>2. Tail(wq[w]) \in Seq(1..MaxEvents) /\ Append(got[w], Head(wq[w])) \in Seq(1..MaxEvents)
  BY <1>1, HeadMoves
<1>3. wq' \in [Waiters -> Seq(1..MaxEvents)] /\ got' \in [Waiters -> Seq(1..MaxEvents)]
  BY <1>2 DEF Typed, TypeOK, Yield
<1>. QED  BY <1>3, ZenonT(40) DEF Typed, Logged, TypeOK, Yield, End, Move, reactorVars

LEMMA DrainTyped ==
  ASSUME Typed, NEW w \in Waiters, GetItem(w) \/ Drain(w)
  PROVE  Typed'
<1>1. CASE \E back \in {"loop", "drain"} : Yield(w, back)
  BY <1>1, YieldTyped DEF GetItem, Drain
<1>2. CASE End(w, "returned") /\ UNCHANGED <<wq, got>>
  BY <1>2 DEF Typed, Logged, TypeOK, End, Move, reactorVars, Drain, GetItem
<1>. QED  BY <1>1, <1>2 DEF GetItem, Drain

\* The length of the log is a place in it, a beginning or an end.
LEMMA LogLength ==
  ASSUME Typed
  PROVE  Len(log) \in 0..Never /\ Len(log) \in 0..MaxEvents
BY WaitAssumption DEF Typed, Logged, TypeOK, Never

LEMMA RunCallTyped ==
  ASSUME Typed, RunCall
  PROVE  Typed'
<1>. DEFINE C == {"add", "send", "del"} \X Waiters
<1>1. calls \in Seq(C) /\ calls # <<>> /\ calls' = Tail(calls)
  BY DEF Typed, TypeOK, RunCall
<1>. HIDE DEF C
<1>2. Head(calls) \in C /\ calls' \in Seq(C)
  BY <1>1
<1>3. PICK w \in Waiters : w = Head(calls)[2]
  BY <1>2 DEF C
<1>4. UNCHANGED <<disp, wq, done, pc, since, expired, connected, now, log, got, outcome>>
  BY DEF RunCall, genVars
<1>5. waitmap' \in [Kinds \cup {NoKind} -> SUBSET Waiters]
  <2>1. waitmap \in [Kinds \cup {NoKind} -> SUBSET Waiters]
    BY DEF Typed, TypeOK
  <2>. QED  BY <1>3, <2>1 DEF RunCall, Unregister, Without
<1>6. from' \in [Waiters -> 0..Never]
  BY <1>3, LogLength, ZenonT(40) DEF Typed, TypeOK, RunCall
<1>7. upto' \in [Waiters -> 0..Never]
  <2>1. UNCHANGED upto \/ upto' = [upto EXCEPT ![w] = IF @ = Open THEN Len(log) ELSE @]
    BY <1>3 DEF RunCall, Unregister
  <2>. QED  BY <2>1, LogLength, ZenonT(40) DEF Typed, TypeOK
<1>. QED  BY <1>2, <1>4, <1>5, <1>6, <1>7 DEF Typed, Logged, TypeOK, C

LEMMA DispatchTyped ==
  ASSUME Typed, NEW k \in Kinds, NEW w \in Waiters \cup {Nobody}, Dispatch(k, w)
  PROVE  Typed'
<1>1. /\ log' \in Seq([kind : Kinds, about : Waiters \cup {Nobody}]) /\ Len(log') = Len(log) + 1
      /\ log' # <<>>
  BY DEF Typed, TypeOK, Dispatch
<1>2. Len(log') <= MaxEvents
  BY <1>1, WaitAssumption, LogLength DEF Dispatch
<1>3. waitmap[k] \in SUBSET Waiters
  BY DEF Typed, TypeOK
<1>4. disp' \in [left : SUBSET Waiters, put : SUBSET Waiters, ended : SUBSET Waiters,
                 busy : BOOLEAN]
  BY <1>3 DEF Dispatch
<1>5. UNCHANGED <<calls, waitmap, wq, done, pc, since, expired, connected, now, from, upto,
                  got, outcome>>
  BY DEF Dispatch, genVars
<1>. QED  BY <1>1, <1>2, <1>4, <1>5 DEF Typed, Logged, TypeOK

LEMMA DispatchToTyped ==
  ASSUME Typed, NEW w \in Waiters, DispatchTo(w)
  PROVE  Typed'
<1>1. Len(log) \in 1..MaxEvents
  BY WaitAssumption, LogLength DEF Typed, Logged, TypeOK, DispatchTo
<1>2. Append(wq[w], Len(log)) \in Seq(1..MaxEvents)
  BY <1>1 DEF Typed, TypeOK
<1>3. wq' \in [Waiters -> Seq(1..MaxEvents)]
  <2>1. UNCHANGED wq \/ wq' = [wq EXCEPT ![w] = Append(wq[w], Len(log))]
    BY DEF DispatchTo, Typed, TypeOK
  <2>. QED  BY <1>2, <2>1 DEF Typed, TypeOK
<1>4. disp' \in [left : SUBSET Waiters, put : SUBSET Waiters, ended : SUBSET Waiters,
                 busy : BOOLEAN] /\ disp'.busy = disp.busy
  <2>1. PICK l \in SUBSET Waiters, p \in SUBSET Waiters, e \in SUBSET Waiters :
               disp' = [disp EXCEPT !.left = l, !.put = p, !.ended = e]
    <3>1. disp \in [left : SUBSET Waiters, put : SUBSET Waiters, ended : SUBSET Waiters,
                    busy : BOOLEAN]
      BY DEF Typed, TypeOK
    <3>2. disp.left \in SUBSET Waiters /\ disp.put \in SUBSET Waiters /\ disp.ended \in SUBSET Waiters
      BY <3>1
    <3>3. CASE disp' = [disp EXCEPT !.left = @ \ {w}, !.put = IF Stopped(w) THEN {w} ELSE {}]
      <4>1. disp' = [disp EXCEPT !.left = disp.left \ {w},
                                 !.put = IF Stopped(w) THEN {w} ELSE {}, !.ended = disp.ended]
        BY <3>1, <3>3
      <4>. QED  BY <3>2, <4>1, Zenon
    <3>4. CASE disp' = [disp EXCEPT !.put = {}, !.ended = @ \cup {w}]
      <4>1. disp' = [disp EXCEPT !.left = disp.left, !.put = {}, !.ended = disp.ended \cup {w}]
        BY <3>1, <3>4
      <4>. QED  BY <3>2, <4>1, Zenon
    <3>. QED  BY <3>3, <3>4, Zenon DEF DispatchTo
  <2>. QED  BY <2>1 DEF Typed, TypeOK
<1>5. UNCHANGED <<calls, waitmap, pc, since, expired, connected, now, log, from, upto,
                  got, outcome>>
  BY DEF DispatchTo, genVars
<1>6. done' \in [Waiters -> BOOLEAN]
  BY DEF Typed, TypeOK, DispatchTo
<1>. QED  BY <1>3, <1>4, <1>5, <1>6 DEF Typed, Logged, TypeOK

LEMMA OthersTyped ==
  ASSUME Typed, DispatchEnd \/ Connect \/ Tick
  PROVE  Typed'
<1>1. UNCHANGED <<calls, wq, done, pc, since, expired, log, from, got, outcome>>
  BY DEF DispatchEnd, Connect, Tick, genVars
<1>2. disp' \in [left : SUBSET Waiters, put : SUBSET Waiters, ended : SUBSET Waiters,
                 busy : BOOLEAN] /\ (disp'.busy => disp.busy)
  <2>1. NoDispatch \in [left : SUBSET Waiters, put : SUBSET Waiters, ended : SUBSET Waiters,
                       busy : BOOLEAN] /\ ~NoDispatch.busy
    BY DEF NoDispatch
  <2>2. disp' = NoDispatch \/ disp' = disp
    BY DEF DispatchEnd, Connect, Tick
  <2>. QED  BY <2>1, <2>2 DEF Typed, TypeOK
<1>3. waitmap' \in [Kinds \cup {NoKind} -> SUBSET Waiters]
  <2>1. waitmap \in [Kinds \cup {NoKind} -> SUBSET Waiters]
    BY DEF Typed, TypeOK
  <2>. QED  BY <2>1 DEF DispatchEnd, Connect, Tick
<1>4. upto' \in [Waiters -> 0..Never]
  BY LogLength DEF Typed, TypeOK, DispatchEnd, Connect, Tick
<1>5. connected' \in BOOLEAN
  BY DEF Typed, TypeOK, DispatchEnd, Connect, Tick
<1>6. now' \in 0..MaxTime
  <2>1. now' = now \/ (now < MaxTime /\ now' = now + 1)
    BY DEF DispatchEnd, Connect, Tick
  <2>. QED  BY <2>1, WaitAssumption DEF Typed, TypeOK
<1>. QED  BY <1>1, <1>2, <1>3, <1>4, <1>5, <1>6 DEF Typed, Logged, TypeOK

LEMMA NextTyped == Typed /\ [Next]_vars => Typed'
<1>. SUFFICES ASSUME Typed, [Next]_vars PROVE Typed'
  OBVIOUS
<1>1. CASE UNCHANGED vars
  BY <1>1 DEF Typed, Logged, TypeOK, vars
<1>2. ASSUME NEW w \in Waiters, Start(w) \/ Generator(w) PROVE Typed'
  BY <1>2, MovesTyped, CallsTyped, DrainTyped DEF Generator
<1>3. CASE Reactor
  BY <1>3, RunCallTyped, DispatchToTyped, OthersTyped DEF Reactor
<1>4. ASSUME NEW k \in Kinds, NEW w \in Waiters \cup {Nobody}, Dispatch(k, w) PROVE Typed'
  BY <1>4, DispatchTyped
<1>. QED  BY <1>1, <1>2, <1>3, <1>4, OthersTyped DEF Next

\* Every variable keeps to its type.
THEOREM TypeCorrect == Spec => []TypeOK
<1>1. Spec => []Typed
  BY InitTyped, NextTyped, PTL DEF Spec
<1>. QED  BY <1>1, PTL DEF Typed

----------------------------------------------------------------------------
(* The queue of calls.                                                     *)

At(s, f, w, i) == i \in 1..Len(s) /\ s[i] = <<f, w>>
Named == {"add", "send", "del"}
Fresh == {"idle", "connecting", "register"}    \* no call made yet

\* A waiter that has called nothing is in no queue; it is added once; and
\* nothing else that it asks for runs before it is added.
Ordered(w) ==
  /\ pc[w] \in Fresh => /\ from[w] = Never
                        /\ \A f \in Named, i \in 1..Len(calls) : ~At(calls, f, w, i)
  /\ \A i \in 1..Len(calls) : At(calls, "add", w, i) =>
       /\ from[w] = Never
       /\ \A j \in 1..Len(calls) : At(calls, "add", w, j) => i = j
  /\ \A f \in {"send", "del"}, i \in 1..Len(calls) : At(calls, f, w, i) =>
       from[w] # Never \/ \E j \in 1..(i - 1) : At(calls, "add", w, j)
  /\ pc[w] \notin Fresh \cup {"finished"} =>
       from[w] # Never \/ \E j \in 1..Len(calls) : At(calls, "add", w, j)
Queue == \A w \in Waiters : Ordered(w)

\* A waiter that has finished is not registered, or waits to be deleted.
Cleaned(w) ==
  pc[w] = "finished" =>
    \/ from[w] = Never /\ \A f \in Named, i \in 1..Len(calls) : ~At(calls, f, w, i)
    \/ \E i \in 1..Len(calls) : At(calls, "del", w, i)
    \/ from[w] # Never /\ upto[w] # Open
Clean == \A w \in Waiters : Cleaned(w)

LEMMA AtAppend ==
  ASSUME NEW s \in Seq(Named \X Waiters), NEW g \in Named, NEW w \in Waiters
  PROVE  /\ Len(s) \in Nat /\ Len(Append(s, <<g, w>>)) = Len(s) + 1
         /\ \A f, v : \A i \in Nat :
              At(Append(s, <<g, w>>), f, v, i) <=> At(s, f, v, i) \/ (i = Len(s) + 1 /\ f = g /\ v = w)
<1>. DEFINE t == Append(s, <<g, w>>)
<1>1. /\ Len(t) = Len(s) + 1 /\ Len(s) \in Nat
      /\ t[Len(s) + 1] = <<g, w>> /\ \A i \in 1..Len(s) : t[i] = s[i]
  OBVIOUS
<1>. HIDE DEF t
<1>2. ASSUME NEW f, NEW v, NEW i \in Nat
      PROVE  At(t, f, v, i) <=> At(s, f, v, i) \/ (i = Len(s) + 1 /\ f = g /\ v = w)
  <2>1. CASE i \in 1..Len(s)
    BY <1>1, <2>1 DEF At
  <2>2. CASE i = Len(s) + 1
    <3>1. i \in 1..Len(t) /\ i \notin 1..Len(s) /\ t[i] = <<g, w>>
      BY <1>1, <2>2
    <3>2. <<g, w>> = <<f, v>> <=> g = f /\ w = v
      OBVIOUS
    <3>. QED  BY <2>2, <3>1, <3>2, Zenon DEF At
  <2>3. CASE i \notin 1..Len(s) /\ i # Len(s) + 1
    <3>1. i \notin 1..Len(t)
      BY <1>1, <2>3
    <3>. QED  BY <2>3, <3>1 DEF At
  <2>. QED  BY <2>1, <2>2, <2>3
<1>. QED  BY <1>1, <1>2 DEF t

LEMMA AtTail ==
  ASSUME NEW s \in Seq(Named \X Waiters), s # <<>>
  PROVE  /\ Len(s) \in Nat \ {0} /\ Len(Tail(s)) = Len(s) - 1
         /\ \E g \in Named, w \in Waiters : Head(s) = <<g, w>> /\ At(s, g, w, 1)
         /\ \A f, v : \A i \in Nat : At(Tail(s), f, v, i) <=> i # 0 /\ At(s, f, v, i + 1)
<1>1. /\ Len(s) \in Nat \ {0} /\ Len(Tail(s)) = Len(s) - 1 /\ Head(s) = s[1]
      /\ \A i \in 1..Len(s) - 1 : Tail(s)[i] = s[i + 1]
      /\ Head(s) \in Named \X Waiters
  OBVIOUS
<1>2. PICK g \in Named, w \in Waiters : Head(s) = <<g, w>>
  BY <1>1
<1>3. At(s, g, w, 1)
  BY <1>1, <1>2 DEF At
<1>4. ASSUME NEW f, NEW v, NEW i \in Nat
      PROVE  At(Tail(s), f, v, i) <=> i # 0 /\ At(s, f, v, i + 1)
  <2>1. i \in 1..Len(Tail(s)) <=> i # 0 /\ i + 1 \in 1..Len(s)
    BY <1>1
  <2>2. i \in 1..Len(Tail(s)) => Tail(s)[i] = s[i + 1]
    BY <1>1
  <2>. QED  BY <2>1, <2>2, Zenon DEF At
<1>. QED  BY <1>1, <1>2, <1>3, <1>4

LEMMA CallsAreNamed == Typed => calls \in Seq(Named \X Waiters)
BY DEF Typed, TypeOK, Named

\* The steps that leave the queue, the registrations and the deletions alone.
LEMMA QueueStays ==
  ASSUME Typed, Queue, Clean, UNCHANGED <<calls, from, upto>>,
         \A w \in Waiters : \/ pc'[w] = pc[w]
                            \/ pc[w] \in Fresh /\ pc'[w] \in Fresh \cup {"finished"}
                            \/ pc[w] \notin Fresh \cup {"finished"} /\ pc'[w] \notin Fresh \cup {"finished"}
  PROVE  Queue' /\ Clean'
<1>. SUFFICES ASSUME NEW w \in Waiters PROVE Ordered(w)' /\ Cleaned(w)'
  BY DEF Queue, Clean
<1>1. Ordered(w) /\ Cleaned(w)
  BY DEF Queue, Clean
<1>2. Ordered(w)'
  BY <1>1 DEF Ordered, Never
<1>3. Cleaned(w)'
  BY <1>1 DEF Ordered, Cleaned, Never, Open, Fresh
<1>. QED  BY <1>2, <1>3

LEMMA QueueGrows ==
  ASSUME Typed, Queue, Clean, NEW w \in Waiters, RegisterAndSend(w) \/ Cleanup(w)
  PROVE  Queue' /\ Clean'
<1>. DEFINE f0 == IF pc[w] = "register" THEN "add" ELSE IF pc[w] = "send" THEN "send" ELSE "del"
<1>1. /\ pc[w] \in {"register", "send", "cleanup"}
      /\ calls' = Append(calls, <<f0, w>>)
      /\ pc' = [pc EXCEPT ![w] = CASE f0 = "add" -> "send" [] f0 = "send" -> "loop"
                                   [] OTHER -> "finished"]
      /\ UNCHANGED <<from, upto>>
  BY DEF RegisterAndSend, Cleanup, Call, Move, reactorVars
<1>2. f0 \in Named
  BY DEF Named
<1>3. /\ f0 = "add" <=> pc[w] \in Fresh
      /\ f0 = "send" => pc'[w] = "loop"
      /\ f0 = "add" => pc'[w] = "send"
      /\ f0 = "del" => pc'[w] = "finished"
      /\ pc'[w] \notin Fresh
      /\ f0 # "del" => pc'[w] # "finished"
      /\ pc[w] # "finished"
      /\ \A v \in Waiters \ {w} : pc'[v] = pc[v]
  BY <1>1 DEF Typed, TypeOK, Fresh
<1>0. calls' = Append(calls, <<f0, w>>)
  BY <1>1
<1>. HIDE DEF f0
<1>4. /\ Len(calls) \in Nat /\ Len(calls') = Len(calls) + 1
      /\ \A f, v : \A i \in Nat : At(calls', f, v, i) <=> At(calls, f, v, i) \/ (i = Len(calls) + 1 /\ f = f0 /\ v = w)
  <2>1. calls \in Seq(Named \X Waiters)
    BY CallsAreNamed
  <2>. QED  BY <1>0, <1>2, <2>1, AtAppend
<1>5. \A f, v, i : At(calls, f, v, i) => i \in 1..Len(calls) /\ i \in Nat
  BY DEF At
<1>. SUFFICES ASSUME NEW v \in Waiters PROVE Ordered(v)' /\ Cleaned(v)'
  BY DEF Queue, Clean
<1>6. Ordered(v) /\ Cleaned(v)
  BY DEF Queue, Clean
<1>7. UNCHANGED <<from, upto>>
  BY <1>1
<1>8. Ordered(v)'
  <2>1. pc'[v] \in Fresh => /\ from'[v] = Never
                            /\ \A f \in Named, i \in 1..Len(calls') : ~At(calls', f, v, i)
    BY <1>3, <1>4, <1>5, <1>6, <1>7 DEF Ordered
  <2>2. ASSUME NEW i \in 1..Len(calls'), At(calls', "add", v, i)
        PROVE  from'[v] = Never /\ \A j \in 1..Len(calls') : At(calls', "add", v, j) => i = j
    <3>1. CASE v = w /\ f0 = "add"
      BY <1>2, <1>3, <1>4, <1>5, <1>6, <1>7, <2>2, <3>1 DEF Ordered, Named
    <3>2. CASE ~(v = w /\ f0 = "add")
      BY <1>4, <1>5, <1>6, <1>7, <2>2, <3>2 DEF Ordered
    <3>. QED  BY <3>1, <3>2
  <2>3. ASSUME NEW f \in {"send", "del"}, NEW i \in 1..Len(calls'), At(calls', f, v, i)
        PROVE  from'[v] # Never \/ \E j \in 1..(i - 1) : At(calls', "add", v, j)
    <3>1. CASE At(calls, f, v, i)
      BY <1>4, <1>5, <1>6, <1>7, <3>1 DEF Ordered
    <3>2. CASE i = Len(calls) + 1 /\ f = f0 /\ v = w
      <4>1. pc[v] \notin Fresh \cup {"finished"}
        BY <1>3, <3>2
      <4>2. from[v] # Never \/ \E j \in 1..Len(calls) : At(calls, "add", v, j)
        BY <1>6, <4>1 DEF Ordered
      <4>. QED  BY <1>4, <1>7, <3>2, <4>2
    <3>. QED  BY <1>4, <2>3, <3>1, <3>2
  <2>4. ASSUME pc'[v] \notin Fresh \cup {"finished"}
        PROVE  from'[v] # Never \/ \E j \in 1..Len(calls') : At(calls', "add", v, j)
    <3>1. CASE v = w /\ f0 = "add"
      <4>. Len(calls) + 1 \in 1..Len(calls') /\ At(calls', "add", v, Len(calls) + 1)
        BY <1>4, <3>1
      <4>. QED  OBVIOUS
    <3>2. CASE ~(v = w /\ f0 = "add")
      <4>1. pc[v] \notin Fresh \cup {"finished"}
        BY <1>3, <2>4, <3>2
      <4>. QED  BY <1>4, <1>6, <1>7, <4>1 DEF Ordered
    <3>. QED  BY <3>1, <3>2
  <2>. QED  BY <2>1, <2>2, <2>3, <2>4 DEF Ordered, Never
<1>9. Cleaned(v)'
  <2>1. CASE v = w
    <3>1. pc'[w] = "finished" => f0 = "del"
      BY <1>2, <1>3 DEF Named
    <3>2. f0 = "del" => Len(calls) + 1 \in 1..Len(calls') /\ At(calls', "del", w, Len(calls) + 1)
      BY <1>4
    <3>. QED  BY <2>1, <3>1, <3>2 DEF Cleaned
  <2>2. CASE v # w
    BY <1>3, <1>4, <1>5, <1>6, <1>7, <2>2 DEF Cleaned, Never, Open
  <2>. QED  BY <2>1, <2>2
<1>. QED  BY <1>8, <1>9

\* Only the end of a dispatch ends spans without a call.
LEMMA QueueEnds ==
  ASSUME Typed, Queue, Clean, DispatchEnd, \A w \in disp.ended : from[w] # Never
  PROVE  Queue' /\ Clean'
<1>1. UNCHANGED <<calls, from, pc>>
  BY DEF DispatchEnd, genVars
<1>2. Len(log) # Open /\ \A w \in Waiters : upto'[w] = IF w \in disp.ended THEN Len(log) ELSE upto[w]
  BY LogLength, WaitAssumption DEF DispatchEnd, Open
<1>. SUFFICES ASSUME NEW w \in Waiters PROVE Ordered(w)' /\ Cleaned(w)'
  BY DEF Queue, Clean
<1>3. Ordered(w) /\ Cleaned(w)
  BY DEF Queue, Clean
<1>4. Ordered(w)'
  BY <1>1, <1>3 DEF Ordered, Never
<1>5. Cleaned(w)'
  <2>1. (from[w] # Never /\ upto[w] # Open) => (from'[w] # Never' /\ upto'[w] # Open')
    BY <1>1, <1>2 DEF Never, Open
  <2>. QED  BY <1>1, <1>3, <2>1 DEF Cleaned, Never
<1>. QED  BY <1>4, <1>5

LEMMA QueueRuns ==
  ASSUME Typed, Queue, Clean, RunCall, \A w \in Waiters : from[w] = Never => upto[w] = Open
  PROVE  Queue' /\ Clean'
<1>1. calls # <<>> /\ calls' = Tail(calls) /\ UNCHANGED pc
  BY DEF RunCall, genVars
<1>2. /\ Len(calls) \in Nat \ {0} /\ Len(calls') = Len(calls) - 1
      /\ \E g \in Named, w \in Waiters : Head(calls) = <<g, w>> /\ At(calls, g, w, 1)
      /\ \A f, v : \A i \in Nat : At(calls', f, v, i) <=> i # 0 /\ At(calls, f, v, i + 1)
  BY <1>1, AtTail, CallsAreNamed
<1>3. PICK g \in Named, w \in Waiters : Head(calls) = <<g, w>> /\ At(calls, g, w, 1)
  BY <1>2
<1>4. /\ from' = IF g = "add" THEN [from EXCEPT ![w] = Len(log)] ELSE from
      /\ upto' = IF g = "del" THEN [upto EXCEPT ![w] = IF @ = Open THEN Len(log) ELSE @] ELSE upto
  <2>1. Head(calls)[1] = g /\ Head(calls)[2] = w
    BY <1>3
  <2>. QED  BY <2>1 DEF RunCall, Unregister, Named
<1>5. Len(log) \in Nat /\ Len(log) # Never /\ Len(log) # Open
  BY LogLength, WaitAssumption DEF Never, Open
<1>6. /\ \A v \in Waiters : from'[v] = IF g = "add" /\ v = w THEN Len(log) ELSE from[v]
      /\ g = "del" => upto'[w] # Open
      /\ \A v \in Waiters : g # "del" \/ v # w => upto'[v] = upto[v]
  BY <1>4, <1>5 DEF Typed, TypeOK
<1>. SUFFICES ASSUME NEW v \in Waiters PROVE Ordered(v)' /\ Cleaned(v)'
  BY DEF Queue, Clean
<1>7. Ordered(v) /\ Cleaned(v) /\ Ordered(w)
  BY DEF Queue, Clean
<1>8. \A f, u : \A i \in 1..Len(calls') : At(calls', f, u, i) <=> At(calls, f, u, i + 1)
  BY <1>2
<1>9. \A i \in 1..Len(calls') : i \in Nat /\ i + 1 \in 1..Len(calls) /\ i + 1 # 1
  BY <1>2
<1>10. g = "add" => pc[w] \notin Fresh
  BY <1>2, <1>3, <1>7 DEF Ordered
<1>11. Ordered(v)'
  <2>1. pc[v] \in Fresh => /\ from'[v] = Never
                           /\ \A f \in Named, i \in 1..Len(calls') : ~At(calls', f, v, i)
    BY <1>6, <1>7, <1>8, <1>9, <1>10 DEF Ordered
  <2>2. ASSUME NEW i \in 1..Len(calls'), At(calls', "add", v, i)
        PROVE  from'[v] = Never /\ \A j \in 1..Len(calls') : At(calls', "add", v, j) => i = j
    <3>1. At(calls, "add", v, i + 1)
      BY <1>8, <2>2
    <3>2. ~(g = "add" /\ v = w)
      BY <1>2, <1>3, <1>7, <1>9, <3>1 DEF Ordered
    <3>3. ASSUME NEW j \in 1..Len(calls'), At(calls', "add", v, j) PROVE i = j
      <4>1. At(calls, "add", v, j + 1)
        BY <1>8, <3>3
      <4>2. i + 1 = j + 1
        BY <1>7, <1>9, <3>1, <4>1 DEF Ordered
      <4>. QED  BY <4>2
    <3>. QED  BY <1>6, <1>7, <1>9, <3>1, <3>2, <3>3 DEF Ordered
  <2>3. ASSUME NEW f \in {"send", "del"}, NEW i \in 1..Len(calls'), At(calls', f, v, i)
        PROVE  from'[v] # Never \/ \E j \in 1..(i - 1) : At(calls', "add", v, j)
    <3>1. from[v] # Never \/ \E j \in 1..((i + 1) - 1) : At(calls, "add", v, j)
      BY <1>7, <1>8, <1>9, <2>3 DEF Ordered
    <3>2. CASE from[v] # Never
      BY <1>5, <1>6, <3>2
    <3>3. ASSUME NEW j \in 1..i, At(calls, "add", v, j)
          PROVE  from'[v] # Never \/ \E j2 \in 1..(i - 1) : At(calls', "add", v, j2)
      <4>1. CASE j = 1
        <5>1. <<g, w>> = <<"add", v>>
          BY <1>3, <3>3, <4>1 DEF At
        <5>. QED  BY <1>5, <1>6, <5>1
      <4>2. CASE j # 1
        <5>1. j - 1 \in 1..(i - 1) /\ j - 1 \in 1..Len(calls')
          BY <1>2, <3>3, <4>2
        <5>2. At(calls', "add", v, j - 1)
          BY <1>8, <3>3, <5>1
        <5>. QED  BY <5>1, <5>2
      <4>. QED  BY <4>1, <4>2
    <3>. QED  BY <3>1, <3>2, <3>3
  <2>4. ASSUME pc[v] \notin Fresh \cup {"finished"}
        PROVE  from'[v] # Never \/ \E j \in 1..Len(calls') : At(calls', "add", v, j)
    <3>1. CASE from[v] # Never
      BY <1>5, <1>6, <3>1
    <3>2. ASSUME NEW j \in 1..Len(calls), At(calls, "add", v, j)
          PROVE  from'[v] # Never \/ \E j2 \in 1..Len(calls') : At(calls', "add", v, j2)
      <4>1. CASE j = 1
        <5>1. <<g, w>> = <<"add", v>>
          BY <1>3, <3>2, <4>1 DEF At
        <5>. QED  BY <1>5, <1>6, <5>1
      <4>2. CASE j # 1
        <5>1. j - 1 \in 1..Len(calls')
          BY <1>2, <3>2, <4>2
        <5>2. At(calls', "add", v, j - 1)
          BY <1>8, <3>2, <5>1
        <5>. QED  BY <5>1, <5>2
      <4>. QED  BY <4>1, <4>2
    <3>. QED  BY <1>7, <2>4, <3>1, <3>2 DEF Ordered
  <2>. QED  BY <1>1, <2>1, <2>2, <2>3, <2>4 DEF Ordered, Never
<1>12. Cleaned(v)'
  <2>. SUFFICES ASSUME pc[v] = "finished"
                PROVE  \/ from'[v] = Never /\ \A f \in Named, i \in 1..Len(calls') : ~At(calls', f, v, i)
                       \/ \E i \in 1..Len(calls') : At(calls', "del", v, i)
                       \/ from'[v] # Never /\ upto'[v] # Open
    BY <1>1 DEF Cleaned, Never, Open
  <2>1. CASE from[v] = Never /\ \A f \in Named, i \in 1..Len(calls) : ~At(calls, f, v, i)
    <3>1. v # w
      BY <1>2, <1>3, <2>1
    <3>. QED  BY <1>6, <1>8, <1>9, <2>1, <3>1
  <2>2. ASSUME NEW i \in 1..Len(calls), At(calls, "del", v, i)
        PROVE  \/ \E j \in 1..Len(calls') : At(calls', "del", v, j)
               \/ from'[v] # Never /\ upto'[v] # Open
    <3>1. CASE i = 1
      <4>1. <<g, w>> = <<"del", v>>
        BY <1>3, <2>2, <3>1 DEF At
      <4>2. g = "del" /\ w = v
        BY <4>1
      <4>3. from[v] # Never
        BY <1>7, <2>2, <3>1 DEF Ordered
      <4>. QED  BY <1>6, <4>2, <4>3
    <3>2. CASE i # 1
      <4>1. i - 1 \in 1..Len(calls')
        BY <1>2, <2>2, <3>2
      <4>2. At(calls', "del", v, i - 1)
        BY <1>8, <2>2, <4>1
      <4>. QED  BY <4>1, <4>2
    <3>. QED  BY <3>1, <3>2
  <2>3. CASE from[v] # Never /\ upto[v] # Open
    BY <1>5, <1>6, <2>3
  <2>. QED  BY <1>7, <2>1, <2>2, <2>3 DEF Cleaned
<1>. QED  BY <1>11, <1>12

----------------------------------------------------------------------------
(* The wait map and the dispatch.                                          *)

\* The wait map holds a waiter for as long as its span is open.
Registered(w) ==
  /\ \A k \in Kinds \cup {NoKind} :
       w \in waitmap[k] <=> /\ from[w] # Never /\ upto[w] = Open
                            /\ k \in Interested[w] \cup Stops[w]
  /\ from[w] = Never => upto[w] = Open
  /\ from[w] # Never => from[w] <= Len(log)
  /\ upto[w] # Open => upto[w] <= Len(log)

\* A dispatch serves only waiters that were registered when it began, and a waiter
\* is at one point of it only.
Serving(w) ==
  /\ ~disp.busy => w \notin disp.left \cup disp.put \cup disp.ended
  /\ w \in disp.left \cup disp.put \cup disp.ended =>
       /\ from[w] # Never /\ upto[w] = Open /\ from[w] < Len(log)
       /\ Event.kind \in Interested[w] \cup Stops[w]
  /\ w \in disp.put \cup disp.ended => w \notin disp.left /\ Stopped(w)
Map == \A w \in Waiters : Registered(w) /\ Serving(w)

LEMMA InitMap == Init => Map
BY DEF Init, Map, Registered, Serving, NoDispatch, Never, Open

LEMMA MapStays ==
  ASSUME Map, UNCHANGED <<waitmap, disp, log, from, upto>>
  PROVE  Map'
BY DEF Map, Registered, Serving, Event, Stopped, Never, Open

LEMMA MapRuns ==
  ASSUME Typed, Queue, Map, RunCall
  PROVE  Map'
<1>1. /\ calls # <<>> /\ ~disp.busy /\ UNCHANGED <<disp, log>>
      /\ waitmap \in [Kinds \cup {NoKind} -> SUBSET Waiters]
  BY DEF RunCall, Typed, TypeOK
<1>2. PICK g \in Named, w \in Waiters : Head(calls) = <<g, w>> /\ At(calls, g, w, 1)
  BY <1>1, AtTail, CallsAreNamed
<1>3. Head(calls)[1] = g /\ Head(calls)[2] = w
  BY <1>2
<1>4. 1 \in 1..Len(calls) /\ Ordered(w)
  BY <1>2 DEF At, Queue
<1>5. Len(log) \in Nat /\ Len(log) # Never /\ Len(log) # Open
  BY LogLength, WaitAssumption DEF Never, Open
<1>. SUFFICES ASSUME NEW v \in Waiters PROVE Registered(v)' /\ Serving(v)'
  BY DEF Map
<1>6. Registered(v) /\ Serving(v)
  BY DEF Map
<1>7. v \notin disp.left \cup disp.put \cup disp.ended
  BY <1>1, <1>6 DEF Serving
<1>8. Serving(v)'
  BY <1>1, <1>7 DEF Serving
<1>9. CASE g = "add"
  <2>1. from[w] = Never /\ upto[w] = Open
    BY <1>2, <1>4, <1>9 DEF Ordered, Map, Registered
  <2>2. /\ waitmap' = [k \in DOMAIN waitmap |->
                         IF k \in Interested[w] \cup Stops[w] THEN waitmap[k] \cup {w}
                                                              ELSE waitmap[k]]
        /\ from' = [from EXCEPT ![w] = Len(log)] /\ upto' = upto
    BY <1>3, <1>9 DEF RunCall
  <2>3. CASE v = w
    <3>1. from'[w] = Len(log)
      BY <2>2 DEF Typed, TypeOK
    <3>2. \A k \in Kinds \cup {NoKind} : w \in waitmap'[k] <=> k \in Interested[w] \cup Stops[w]
      BY <1>1, <1>6, <2>1, <2>2, <2>3 DEF Registered
    <3>3. upto'[w] = Open /\ log' = log
      BY <1>1, <2>1, <2>2
    <3>4. Registered(w)'
      BY <1>5, <3>1, <3>2, <3>3 DEF Registered, Never, Open
    <3>. QED  BY <1>8, <2>3, <3>4
  <2>4. CASE v # w
    <3>1. from'[v] = from[v] /\ upto'[v] = upto[v]
      BY <2>2, <2>4 DEF Typed, TypeOK
    <3>2. \A k \in Kinds \cup {NoKind} : v \in waitmap'[k] <=> v \in waitmap[k]
      BY <1>1, <2>2, <2>4
    <3>. QED  BY <1>1, <1>6, <1>8, <3>1, <3>2 DEF Registered, Never, Open
  <2>. QED  BY <2>3, <2>4
<1>10. CASE g = "del"
  <2>1. /\ waitmap' = [k \in DOMAIN waitmap |-> waitmap[k] \ {w}] /\ from' = from
        /\ upto' = [upto EXCEPT ![w] = IF @ = Open THEN Len(log) ELSE @]
    BY <1>3, <1>10 DEF RunCall, Unregister, Without
  <2>2. CASE v = w
    <3>1. upto'[w] = IF upto[w] = Open THEN Len(log) ELSE upto[w]
      BY <2>1 DEF Typed, TypeOK
    <3>2. \A k \in Kinds \cup {NoKind} : w \notin waitmap'[k]
      BY <1>1, <2>1
    <3>3. from[w] # Never
      BY <1>2, <1>4, <1>10 DEF Ordered, At
    <3>. QED  BY <1>1, <1>5, <1>6, <1>8, <2>1, <2>2, <3>1, <3>2, <3>3 DEF Registered, Never, Open
  <2>3. CASE v # w
    <3>1. from'[v] = from[v] /\ upto'[v] = upto[v]
      BY <2>1, <2>3 DEF Typed, TypeOK
    <3>2. \A k \in Kinds \cup {NoKind} : v \in waitmap'[k] <=> v \in waitmap[k]
      BY <1>1, <2>1, <2>3
    <3>. QED  BY <1>1, <1>6, <1>8, <3>1, <3>2 DEF Registered, Never, Open
  <2>. QED  BY <2>2, <2>3
<1>11. CASE g = "send"
  <2>1. UNCHANGED <<waitmap, from, upto>>
    BY <1>3, <1>11 DEF RunCall
  <2>. QED  BY <1>1, <1>6, <1>8, <2>1 DEF Registered, Never, Open
<1>. QED  BY <1>9, <1>10, <1>11 DEF Named

LEMMA MapDispatches ==
  ASSUME Typed, Map, NEW k \in Kinds, NEW about \in Waiters \cup {Nobody}, Dispatch(k, about)
  PROVE  Map'
<1>1. UNCHANGED <<waitmap, from, upto>>
  BY DEF Dispatch
<1>2. /\ Len(log') = Len(log) + 1 /\ Len(log) \in Nat /\ log'[Len(log')].kind = k
      /\ \A w \in Waiters : from[w] \in Nat /\ upto[w] \in Nat
  BY DEF Dispatch, Typed, TypeOK
<1>3. /\ disp'.left = waitmap[k] /\ disp'.put = {} /\ disp'.ended = {} /\ disp'.busy
  BY DEF Dispatch
<1>. SUFFICES ASSUME NEW w \in Waiters PROVE Registered(w)' /\ Serving(w)'
  BY DEF Map
<1>4. Registered(w)
  BY DEF Map
<1>5. Registered(w)'
  BY <1>1, <1>2, <1>4 DEF Registered, Never, Open
<1>6. Serving(w)'
  <2>1. w \in waitmap[k] => /\ from[w] # Never /\ upto[w] = Open
                            /\ k \in Interested[w] \cup Stops[w] /\ from[w] < Len(log')
    BY <1>2, <1>4 DEF Registered
  <2>. QED  BY <1>1, <1>2, <1>3, <2>1 DEF Serving, Event, Never, Open
<1>. QED  BY <1>5, <1>6

LEMMA MapServes ==
  ASSUME Typed, Map, NEW w \in Waiters, DispatchTo(w)
  PROVE  Map'
<1>1. UNCHANGED <<waitmap, log, from, upto>>
  BY DEF DispatchTo
<1>2. disp \in [left : SUBSET Waiters, put : SUBSET Waiters, ended : SUBSET Waiters,
                busy : BOOLEAN] /\ disp.busy
  BY DEF DispatchTo, Typed, TypeOK
<1>3. disp'.busy = disp.busy
  BY <1>2 DEF DispatchTo
<1>. SUFFICES ASSUME NEW v \in Waiters PROVE Registered(v)' /\ Serving(v)'
  BY DEF Map
<1>4. Registered(v) /\ Serving(v)
  BY DEF Map
<1>5. Registered(v)'
  BY <1>1, <1>4 DEF Registered, Never, Open
<1>6. CASE w \in disp.left /\ disp' = [disp EXCEPT !.left = @ \ {w}, !.put = IF Stopped(w) THEN {w} ELSE {}]
  <2>1. /\ disp'.left = disp.left \ {w} /\ disp'.put = IF Stopped(w) THEN {w} ELSE {}
        /\ disp'.ended = disp.ended
    BY <1>2, <1>6
  <2>. QED  BY <1>1, <1>2, <1>3, <1>4, <1>5, <1>6, <2>1 DEF Serving, Event, Stopped, Never, Open
<1>7. CASE w \in disp.put /\ disp' = [disp EXCEPT !.put = {}, !.ended = @ \cup {w}]
  <2>1. disp'.left = disp.left /\ disp'.put = {} /\ disp'.ended = disp.ended \cup {w}
    BY <1>2, <1>7
  <2>. QED  BY <1>1, <1>2, <1>3, <1>4, <1>5, <1>7, <2>1 DEF Serving, Event, Stopped, Never, Open
<1>. QED  BY <1>6, <1>7 DEF DispatchTo

LEMMA MapEnds ==
  ASSUME Typed, Map, DispatchEnd
  PROVE  Map'
<1>1. UNCHANGED <<log, from>> /\ disp' = NoDispatch
  BY DEF DispatchEnd
<1>2. \A k \in Kinds \cup {NoKind} : waitmap'[k] = waitmap[k] \ disp.ended
  BY DEF DispatchEnd, Typed, TypeOK
<1>3. Len(log) \in Nat /\ Len(log) # Open
  BY LogLength, WaitAssumption DEF Open
<1>. SUFFICES ASSUME NEW w \in Waiters PROVE Registered(w)' /\ Serving(w)'
  BY DEF Map
<1>4. Registered(w) /\ Serving(w)
  BY DEF Map
<1>5. upto'[w] = IF w \in disp.ended THEN Len(log) ELSE upto[w]
  BY DEF DispatchEnd
<1>6. Serving(w)'
  BY <1>1 DEF Serving, NoDispatch
<1>7. CASE w \in disp.ended
  <2>1. from[w] # Never /\ upto'[w] = Len(log) /\ \A k \in Kinds \cup {NoKind} : w \notin waitmap'[k]
    BY <1>2, <1>4, <1>5, <1>7 DEF Serving
  <2>. QED  BY <1>1, <1>3, <1>4, <1>6, <2>1 DEF Registered, Never, Open
<1>8. CASE w \notin disp.ended
  BY <1>1, <1>2, <1>4, <1>5, <1>6, <1>8 DEF Registered, Never, Open
<1>. QED  BY <1>7, <1>8

----------------------------------------------------------------------------
(* Types, queue and wait map together.                                     *)

Core == Typed /\ Queue /\ Clean /\ Map

LEMMA InitCore == Init => Core
<1>1. Init => Queue /\ Clean
  BY DEF Init, Queue, Clean, Ordered, Cleaned, Fresh, At
<1>. QED  BY <1>1, InitTyped, InitMap DEF Core

\* A step of a generator that makes no call.
LEMMA CoreOfMoves ==
  ASSUME Core, NEW w \in Waiters,
         Start(w) \/ AwaitBot(w) \/ Loop(w) \/ GetItem(w) \/ GetEmpty(w) \/ Drain(w)
  PROVE  Queue' /\ Clean' /\ Map'
<1>1. UNCHANGED <<calls, waitmap, disp, log, from, upto>>
  BY DEF Start, AwaitBot, Loop, GetItem, GetEmpty, Drain, reactorVars
<1>2. \E to \in Places : /\ Move(w, to)
                         /\ \/ pc[w] \in Fresh /\ to \in Fresh \cup {"finished"}
                            \/ pc[w] \notin Fresh \cup {"finished"} /\ to \notin Fresh \cup {"finished"}
  BY DEF Start, AwaitBot, Loop, GetItem, GetEmpty, Drain, Yield, End, Places, Fresh
<1>3. \A v \in Waiters : \/ pc'[v] = pc[v]
                         \/ pc[v] \in Fresh /\ pc'[v] \in Fresh \cup {"finished"}
                         \/ pc[v] \notin Fresh \cup {"finished"} /\ pc'[v] \notin Fresh \cup {"finished"}
  BY <1>2 DEF Core, Typed, TypeOK, Move
<1>. QED  BY <1>1, <1>3, QueueStays, MapStays DEF Core

LEMMA NextCore == Core /\ [Next]_vars => Core'
<1>. SUFFICES ASSUME Core, [Next]_vars PROVE Core'
  OBVIOUS
<1>1. Typed'
  BY NextTyped DEF Core
<1>2. CASE UNCHANGED <<calls, waitmap, disp, log, from, upto, pc>>
  BY <1>1, <1>2, QueueStays, MapStays DEF Core
<1>3. ASSUME NEW w \in Waiters, Start(w) \/ Generator(w) PROVE Core'
  <2>1. CASE RegisterAndSend(w) \/ Cleanup(w)
    <3>1. UNCHANGED <<waitmap, disp, log, from, upto>>
      BY <2>1 DEF RegisterAndSend, Cleanup, reactorVars
    <3>. QED  BY <1>1, <2>1, <3>1, QueueGrows, MapStays DEF Core
  <2>. QED  BY <1>1, <1>3, <2>1, CoreOfMoves DEF Core, Generator
<1>4. CASE RunCall
  <2>1. \A w \in Waiters : from[w] = Never => upto[w] = Open
    BY DEF Core, Map, Registered
  <2>. QED  BY <1>1, <1>4, <2>1, QueueRuns, MapRuns DEF Core
<1>5. ASSUME NEW w \in Waiters, DispatchTo(w) PROVE Core'
  <2>1. UNCHANGED <<calls, from, upto, pc>>
    BY <1>5 DEF DispatchTo, genVars
  <2>. QED  BY <1>1, <1>5, <2>1, QueueStays, MapServes DEF Core
<1>6. CASE DispatchEnd
  <2>1. \A w \in disp.ended : from[w] # Never
    BY DEF Core, Map, Serving, Typed, TypeOK
  <2>. QED  BY <1>1, <1>6, <2>1, QueueEnds, MapEnds DEF Core
<1>7. ASSUME NEW k \in Kinds, NEW w \in Waiters \cup {Nobody}, Dispatch(k, w) PROVE Core'
  <2>1. UNCHANGED <<calls, from, upto, pc>>
    BY <1>7 DEF Dispatch, genVars
  <2>. QED  BY <1>1, <1>7, <2>1, QueueStays, MapDispatches DEF Core
<1>8. CASE Connect \/ Tick
  BY <1>2, <1>8 DEF Connect, Tick, genVars
<1>9. CASE UNCHANGED vars
  BY <1>2, <1>9 DEF vars
<1>. QED  BY <1>3, <1>4, <1>5, <1>6, <1>7, <1>8, <1>9 DEF Next, Reactor

LEMMA CoreAlways == Spec => []Core
BY InitCore, NextCore, PTL DEF Spec

\* What f sends is run by the reactor only after the waiter is registered.
THEOREM RegistersFirst == Spec => []RegisteredBeforeSend
<1>1. Core => RegisteredBeforeSend
  <2>. SUFFICES ASSUME Core, NEW i \in 1..Len(calls), calls[i][1] = "send"
                PROVE  from[calls[i][2]] # Never \/ \E j \in 1..(i - 1) : calls[j] = <<"add", calls[i][2]>>
    BY DEF RegisteredBeforeSend
  <2>1. calls[i] \in Named \X Waiters
    BY CallsAreNamed DEF Core
  <2>2. PICK w \in Waiters : calls[i] = <<"send", w>>
    BY <2>1
  <2>3. At(calls, "send", w, i)
    BY <2>2 DEF At
  <2>4. from[w] # Never \/ \E j \in 1..(i - 1) : At(calls, "add", w, j)
    BY <2>3 DEF Core, Queue, Ordered
  <2>5. calls[i][2] = w
    BY <2>2
  <2>. QED  BY <2>4, <2>5 DEF At
<1>. QED  BY <1>1, CoreAlways, PTL

----------------------------------------------------------------------------
(* What is delivered.                                                      *)

LEMMA DeliveredType ==
  ASSUME Typed, NEW w \in Waiters
  PROVE  /\ wq[w] \in Seq(1..MaxEvents) /\ got[w] \in Seq(1..MaxEvents)
         /\ Delivered(w) \in Seq(1..MaxEvents)
BY DEF Typed, TypeOK, Delivered

\* Taking an event from the queue delivers nothing new.
LEMMA YieldDelivers ==
  ASSUME Typed, NEW w \in Waiters, NEW back, Yield(w, back), NEW v \in Waiters
  PROVE  Delivered(v)' = Delivered(v)
<1>1. wq[w] # <<>> /\ wq' = [wq EXCEPT ![w] = Tail(wq[w])]
      /\ got' = [got EXCEPT ![w] = Append(got[w], Head(wq[w]))]
  BY DEF Yield, Typed, TypeOK
<1>2. CASE v = w
  <2>1. wq'[w] = Tail(wq[w]) /\ got'[w] = Append(got[w], Head(wq[w]))
    BY <1>1 DEF Typed, TypeOK
  <2>2. Append(got[w], Head(wq[w])) \o Tail(wq[w]) = got[w] \o wq[w]
    BY <1>1, DeliveredType, HeadMoves, Zenon
  <2>. QED  BY <1>2, <2>1, <2>2 DEF Delivered
<1>3. CASE v # w
  BY <1>1, <1>3 DEF Delivered, Typed, TypeOK
<1>. QED  BY <1>2, <1>3

\* Only a dispatch delivers.
LEMMA DeliversNothing ==
  ASSUME Core, NEW v \in Waiters, [Next]_vars, \A w \in Waiters : ~DispatchTo(w)
  PROVE  Delivered(v)' = Delivered(v)
<1>1. UNCHANGED <<wq, got>> => Delivered(v)' = Delivered(v)
  BY DEF Delivered
<1>2. CASE RunCall \/ DispatchEnd \/ Connect \/ Tick \/ UNCHANGED vars
  BY <1>1, <1>2 DEF RunCall, DispatchEnd, Connect, Tick, vars, genVars
<1>3. ASSUME NEW k \in Kinds, NEW w \in Waiters \cup {Nobody}, Dispatch(k, w)
      PROVE  Delivered(v)' = Delivered(v)
  BY <1>1, <1>3 DEF Dispatch, genVars
<1>4. ASSUME NEW w \in Waiters, Start(w) \/ Generator(w) PROVE Delivered(v)' = Delivered(v)
  <2>1. CASE Start(w) \/ AwaitBot(w) \/ RegisterAndSend(w) \/ Loop(w) \/ GetEmpty(w) \/ Cleanup(w)
    BY <1>1, <2>1 DEF Start, AwaitBot, RegisterAndSend, Loop, GetEmpty, Cleanup
  <2>2. CASE GetItem(w) \/ Drain(w)
    BY <1>1, <2>2, YieldDelivers DEF GetItem, Drain, Core
  <2>. QED  BY <1>4, <2>1, <2>2 DEF Generator
<1>. QED  BY <1>2, <1>3, <1>4 DEF Next, Reactor

\* Only a dispatch delivers, so only a dispatch widens a span.
LEMMA SpanStays ==
  ASSUME Core, NEW v \in Waiters, [Next]_vars, \A w \in Waiters : ~DispatchTo(w)
  PROVE  Span(v)' = Span(v)
<1>. USE DEF Never, Open
<1>1. UNCHANGED <<from, upto, disp, log>> => Span(v)' = Span(v)
  BY DEF Span, Wanted
<1>2. Len(log) \in Nat /\ Len(log) <= MaxEvents /\ MaxEvents \in Nat
  BY LogLength, WaitAssumption DEF Core
<1>3. Registered(v) /\ Serving(v) /\ from[v] \in Nat /\ upto[v] \in Nat
  BY DEF Core, Map, Typed, TypeOK
<1>4. CASE RunCall
  <2>1. /\ calls # <<>> /\ ~disp.busy /\ UNCHANGED <<disp, log>>
    BY <1>4 DEF RunCall
  <2>2. PICK g \in Named, w \in Waiters : Head(calls) = <<g, w>> /\ At(calls, g, w, 1)
    BY <2>1, AtTail, CallsAreNamed DEF Core
  <2>3. Head(calls)[1] = g /\ Head(calls)[2] = w
    BY <2>2
  <2>4. 1 \in 1..Len(calls) /\ Ordered(w) /\ Registered(w)
    BY <2>2 DEF At, Queue, Core, Map
  <2>5. CASE g = "add"
    <3>1. from' = [from EXCEPT ![w] = Len(log)] /\ upto' = upto
      BY <2>3, <2>5, <1>4 DEF RunCall
    <3>2. CASE v = w
      <4>1. from[v] = Never /\ upto[v] = Open
        BY <2>2, <2>4, <2>5, <3>2 DEF Ordered, Registered
      <4>2. from'[v] = Len(log) /\ upto'[v] = Open
        BY <3>1, <3>2, <4>1 DEF Core, Typed, TypeOK
      <4>3. Span(v) = {}
        BY <4>1 DEF Span
      <4>4. Span(v)' = {}
        BY <1>2, <2>1, <4>2 DEF Span
      <4>. QED  BY <4>3, <4>4
    <3>3. CASE v # w
      <4>1. from'[v] = from[v] /\ upto'[v] = upto[v]
        BY <3>1, <3>3 DEF Core, Typed, TypeOK
      <4>. QED  BY <2>1, <4>1 DEF Span, Wanted
    <3>. QED  BY <3>2, <3>3
  <2>6. CASE g = "del"
    <3>1. from' = from /\ upto' = [upto EXCEPT ![w] = IF @ = Open THEN Len(log) ELSE @]
      BY <2>3, <2>6, <1>4 DEF RunCall, Unregister
    <3>2. CASE v = w
      <4>1. upto'[v] = IF upto[v] = Open THEN Len(log) ELSE upto[v]
        BY <3>1, <3>2 DEF Core, Typed, TypeOK
      <4>. QED  BY <1>2, <2>1, <3>1, <4>1 DEF Span, Wanted
    <3>3. CASE v # w
      <4>1. from'[v] = from[v] /\ upto'[v] = upto[v]
        BY <3>1, <3>3 DEF Core, Typed, TypeOK
      <4>. QED  BY <2>1, <4>1 DEF Span, Wanted
    <3>. QED  BY <3>2, <3>3
  <2>7. CASE g = "send"
    BY <1>1, <1>4, <2>1, <2>3, <2>7 DEF RunCall
  <2>. QED  BY <2>5, <2>6, <2>7 DEF Named
<1>5. CASE DispatchEnd
  <2>1. /\ disp.busy /\ disp.left = {} /\ ~disp'.busy /\ UNCHANGED <<from, log>>
        /\ upto'[v] = IF v \in disp.ended THEN Len(log) ELSE upto[v]
    BY <1>5 DEF DispatchEnd, NoDispatch
  <2>2. v \in disp.ended => upto[v] = Open
    BY <1>3 DEF Serving
  <2>. QED  BY <1>2, <2>1, <2>2 DEF Span, Wanted
<1>6. ASSUME NEW k \in Kinds, NEW about \in Waiters \cup {Nobody}, Dispatch(k, about)
      PROVE  Span(v)' = Span(v)
  <2>1. /\ UNCHANGED <<from, upto>> /\ ~disp.busy /\ disp'.busy /\ disp'.left = waitmap[k]
        /\ Len(log') = Len(log) + 1 /\ log'[Len(log) + 1].kind = k
        /\ \A i \in 1..Len(log) : log'[i] = log[i]
    BY <1>6 DEF Dispatch, Core, Typed, TypeOK
  <2>2. CASE from[v] = Never
    BY <2>1, <2>2 DEF Span
  <2>3. CASE from[v] # Never /\ upto[v] # Open
    <3>1. upto[v] <= Len(log)
      BY <1>3, <2>3 DEF Registered
    <3>2. \A i \in 1..upto[v] : Wanted(v, i)' <=> Wanted(v, i)
      BY <1>2, <1>3, <2>1, <3>1 DEF Wanted
    <3>3. /\ Span(v) = {i \in 1..upto[v] : i > from[v] /\ Wanted(v, i)}
          /\ Span(v)' = {i \in 1..upto[v] : i > from[v] /\ Wanted(v, i)'}
      BY <2>1, <2>3 DEF Span
    <3>. QED  BY <3>2, <3>3
  <2>4. CASE from[v] # Never /\ upto[v] = Open
    <3>1. \A i \in 1..Len(log) : Wanted(v, i)' <=> Wanted(v, i)
      BY <1>2, <2>1 DEF Wanted
    <3>2. Span(v) = {i \in 1..Len(log) : i > from[v] /\ Wanted(v, i)}
      BY <2>1, <2>4 DEF Span
    <3>3. CASE v \in waitmap[k]
      <4>1. Span(v)' = {i \in 1..Len(log') - 1 : i > from[v] /\ Wanted(v, i)'}
        BY <2>1, <2>4, <3>3 DEF Span
      <4>2. Len(log') - 1 = Len(log)
        BY <1>2, <2>1
      <4>. QED  BY <3>1, <3>2, <4>1, <4>2
    <3>4. CASE v \notin waitmap[k]
      <4>1. Span(v)' = {i \in 1..Len(log) + 1 : i > from[v] /\ Wanted(v, i)'}
        BY <2>1, <2>4, <3>4 DEF Span
      <4>2. k \notin Interested[v] \cup Stops[v]
        BY <1>3, <2>4, <3>4 DEF Registered
      <4>3. \A i \in 1..Len(log) + 1 : Wanted(v, i)' => i \in 1..Len(log)
        BY <1>2, <2>1, <4>2 DEF Wanted
      <4>. QED  BY <1>2, <3>1, <3>2, <4>1, <4>3
    <3>. QED  BY <3>3, <3>4
  <2>. QED  BY <2>2, <2>3, <2>4
<1>7. CASE Connect \/ Tick \/ UNCHANGED vars
  BY <1>1, <1>7 DEF Connect, Tick, vars
<1>8. ASSUME NEW w \in Waiters, Start(w) \/ Generator(w) PROVE Span(v)' = Span(v)
  <2>1. UNCHANGED reactorVars
    BY <1>8 DEF Start, Generator, AwaitBot, RegisterAndSend, Loop, GetItem, GetEmpty, Drain, Cleanup
  <2>. QED  BY <1>1, <2>1 DEF reactorVars
<1>. QED  BY <1>4, <1>5, <1>6, <1>7, <1>8 DEF Next, Reactor

\* A waiter of the dispatch under way is given the event once, as the last.
LEMMA DispatchDelivers ==
  ASSUME Core, DeliveredInOrder, NEW w \in Waiters, DispatchTo(w)
  PROVE  /\ DeliveredInOrder'
         /\ w \in disp.left => Delivered(w)' = Append(Delivered(w), Len(log))
         /\ \A v \in Waiters : w \notin disp.left \/ v # w => Delivered(v)' = Delivered(v)
<1>. USE DEF Never, Open
<1>1. /\ UNCHANGED <<log, from, upto, got>> /\ disp.busy
      /\ disp \in [left : SUBSET Waiters, put : SUBSET Waiters, ended : SUBSET Waiters,
                   busy : BOOLEAN]
  BY DEF DispatchTo, genVars, Core, Typed, TypeOK
<1>2. Len(log) \in 1..MaxEvents
  BY <1>1, LogLength, WaitAssumption DEF Core, Typed, Logged, TypeOK
<1>3. CASE w \in disp.left
  <2>1. w \notin disp.put
    BY <1>3 DEF Core, Map, Serving
  <2>2. /\ wq' = [wq EXCEPT ![w] = Append(wq[w], Len(log))]
        /\ disp' = [disp EXCEPT !.left = @ \ {w}, !.put = IF Stopped(w) THEN {w} ELSE {}]
    BY <2>1 DEF DispatchTo, Core, Typed, TypeOK
  <2>3. disp'.busy /\ disp'.left = disp.left \ {w}
    BY <1>1, <2>2
  <2>4. ASSUME NEW v \in Waiters, v # w
        PROVE  Delivered(v)' = Delivered(v) /\ Span(v)' = Span(v)
    <3>1. wq'[v] = wq[v] /\ got'[v] = got[v]
      BY <1>1, <2>2, <2>4 DEF Core, Typed, TypeOK
    <3>. QED  BY <1>1, <2>3, <2>4, <3>1 DEF Delivered, Span, Wanted
  <2>5. Delivered(w)' = Append(Delivered(w), Len(log))
    <3>1. wq'[w] = Append(wq[w], Len(log)) /\ got'[w] = got[w]
      BY <1>1, <2>2 DEF Core, Typed, TypeOK
    <3>2. wq[w] \in Seq(1..MaxEvents) /\ got[w] \in Seq(1..MaxEvents)
      BY DeliveredType DEF Core
    <3>3. got[w] \o Append(wq[w], Len(log)) = Append(got[w] \o wq[w], Len(log))
      <4>1. \A p \in Seq(1..MaxEvents), q \in Seq(1..MaxEvents), n \in 1..MaxEvents :
              p \o Append(q, n) = Append(p \o q, n)
        BY AppendToConcat
      <4>. QED  BY <1>2, <3>2, <4>1, Zenon
    <3>. QED  BY <3>1, <3>3 DEF Delivered
  <2>6. Serving(w) /\ from[w] \in Nat
    BY DEF Core, Map, Typed, TypeOK
  <2>7. from[w] # Never /\ upto[w] = Open /\ from[w] < Len(log) /\ Wanted(w, Len(log))
    BY <1>3, <2>6 DEF Serving, Wanted, Event
  <2>8. Span(w) = {i \in 1..Len(log) - 1 : i > from[w] /\ Wanted(w, i)}
    BY <1>1, <1>3, <2>7 DEF Span
  <2>9. Span(w)' = {i \in 1..Len(log) : i > from[w] /\ Wanted(w, i)}
    BY <1>1, <2>3, <2>7 DEF Span, Wanted
  <2>10. Span(w)' = Span(w) \cup {Len(log)} /\ \A m \in Span(w) : m < Len(log)
    BY <1>2, <2>6, <2>7, <2>8, <2>9
  <2>11. Delivered(w) \in Seq(Nat) /\ Increasing(Delivered(w)) /\ ToSet(Delivered(w)) = Span(w)
    <3>1. Delivered(w) \in Seq(1..MaxEvents)
      BY DeliveredType DEF Core
    <3>. QED  BY <3>1, WaitAssumption DEF DeliveredInOrder
  <2>12. Increasing(Delivered(w)') /\ ToSet(Delivered(w)') = Span(w)'
    <3>1. /\ Increasing(Append(Delivered(w), Len(log)))
          /\ ToSet(Append(Delivered(w), Len(log))) = ToSet(Delivered(w)) \cup {Len(log)}
      BY <1>2, <2>10, <2>11, AppendAbove
    <3>. QED  BY <2>5, <2>10, <2>11, <3>1
  <2>13. DeliveredInOrder'
    <3>. SUFFICES ASSUME NEW v \in Waiters
                  PROVE  Increasing(Delivered(v)') /\ ToSet(Delivered(v)') = Span(v)'
      BY DEF DeliveredInOrder
    <3>1. CASE v = w
      BY <2>12, <3>1
    <3>2. CASE v # w
      BY <2>4, <3>2 DEF DeliveredInOrder
    <3>. QED  BY <3>1, <3>2
  <2>. QED  BY <1>3, <2>4, <2>5, <2>13
<1>4. CASE w \notin disp.left
  <2>1. UNCHANGED wq /\ disp' = [disp EXCEPT !.put = {}, !.ended = @ \cup {w}]
    BY <1>4 DEF DispatchTo
  <2>2. disp'.busy = disp.busy /\ disp'.left = disp.left
    BY <1>1, <2>1
  <2>3. \A v \in Waiters : Delivered(v)' = Delivered(v) /\ Span(v)' = Span(v)
    BY <1>1, <2>1, <2>2 DEF Delivered, Span, Wanted
  <2>4. DeliveredInOrder'
    BY <2>3 DEF DeliveredInOrder
  <2>. QED  BY <1>4, <2>3, <2>4
<1>. QED  BY <1>3, <1>4

LEMMA NextInOrder == Core /\ DeliveredInOrder /\ [Next]_vars => DeliveredInOrder'
<1>. SUFFICES ASSUME Core, DeliveredInOrder, [Next]_vars PROVE DeliveredInOrder'
  OBVIOUS
<1>1. CASE \E w \in Waiters : DispatchTo(w)
  BY <1>1, DispatchDelivers
<1>2. CASE \A w \in Waiters : ~DispatchTo(w)
  <2>1. \A v \in Waiters : Delivered(v)' = Delivered(v) /\ Span(v)' = Span(v)
    BY <1>2, DeliversNothing, SpanStays
  <2>. QED  BY <2>1 DEF DeliveredInOrder
<1>. QED  BY <1>1, <1>2

LEMMA InitInOrder == Init => DeliveredInOrder
<1>. SUFFICES ASSUME Init, NEW w \in Waiters
              PROVE  Increasing(Delivered(w)) /\ ToSet(Delivered(w)) = Span(w)
  BY DEF DeliveredInOrder
<1>1. Delivered(w) = <<>> /\ Span(w) = {}
  BY DEF Init, Delivered, Span
<1>2. DOMAIN Delivered(w) = {}
  BY <1>1
<1>. QED  BY <1>1, <1>2 DEF Increasing, ToSet

\* What a waiter is given, and what waits in its queue, are the events of its kinds
\* dispatched while it was registered, each once and in their order.
THEOREM DeliversInOrder == Spec => []DeliveredInOrder
BY InitInOrder, NextInOrder, CoreAlways, PTL DEF Spec

----------------------------------------------------------------------------
(* How a generator ends.                                                   *)

LastOf(w) == Delivered(w)[Len(Delivered(w))]

\* A waiter is done when the last it was given or has in its queue is its stop event,
\* and gets nothing more; one that returned has emptied its queue.
Ending(w) ==
  /\ w \in disp.put => Delivered(w) # <<>> /\ LastOf(w) = Len(log)
  /\ done[w] => /\ Delivered(w) # <<>> /\ log[LastOf(w)].kind \in Stops[w]
                /\ upto[w] # Open \/ w \in disp.ended
  /\ pc[w] = "drain" => done[w]
  /\ outcome[w] = "returned" => done[w] /\ wq[w] = <<>>
Endings == \A w \in Waiters : Ending(w)

\* The steps that deliver nothing and change neither the log nor the dispatch.
LEMMA EndingStays ==
  ASSUME Core, NEW w \in Waiters, Ending(w), UNCHANGED <<log, disp>>,
         Delivered(w)' = Delivered(w), done'[w] = done[w],
         upto[w] # Open => upto'[w] # Open,
         pc'[w] = "drain" => pc[w] = "drain" \/ done[w],
         outcome'[w] = "returned" => \/ outcome[w] = "returned" /\ wq'[w] = wq[w]
                                     \/ done[w] /\ wq'[w] = <<>>
  PROVE  Ending(w)'
<1>1. LastOf(w)' = LastOf(w)
  BY DEF LastOf
<1>. QED  BY <1>1 DEF Ending, Open

LEMMA EndingOfGenerators ==
  ASSUME Core, Endings, NEW w \in Waiters, Start(w) \/ Generator(w)
  PROVE  Endings'
<1>. SUFFICES ASSUME NEW v \in Waiters PROVE Ending(v)'
  BY DEF Endings
<1>1. Ending(v) /\ Ending(w)
  BY DEF Endings
<1>2. UNCHANGED <<log, disp, done, upto>>
  BY DEF Start, Generator, AwaitBot, RegisterAndSend, Loop, GetItem, GetEmpty, Drain, Cleanup, reactorVars
<1>3. Delivered(v)' = Delivered(v)
  <2>1. \A u \in Waiters : ~DispatchTo(u)
    <3>1. UNCHANGED disp
      BY <1>2
    <3>2. disp \in [left : SUBSET Waiters, put : SUBSET Waiters, ended : SUBSET Waiters,
                    busy : BOOLEAN]
      BY DEF Core, Typed, TypeOK
    <3>3. ASSUME NEW u \in Waiters, DispatchTo(u) PROVE FALSE
      <4>1. CASE u \in disp.left /\ disp' = [disp EXCEPT !.left = @ \ {u}, !.put = IF Stopped(u) THEN {u} ELSE {}]
        <5>1. disp'.left = disp.left \ {u}
          BY <3>2, <4>1
        <5>. QED  BY <3>1, <4>1, <5>1
      <4>2. CASE u \in disp.put /\ disp' = [disp EXCEPT !.put = {}, !.ended = @ \cup {u}]
        <5>1. disp'.put = {}
          BY <3>2, <4>2
        <5>. QED  BY <3>1, <4>2, <5>1
      <4>. QED  BY <3>3, <4>1, <4>2 DEF DispatchTo
    <3>. QED  BY <3>3
  <2>2. [Next]_vars
    BY DEF Next
  <2>. QED  BY <2>1, <2>2, DeliversNothing
<1>4. CASE v # w
  <2>1. pc'[v] = pc[v] /\ wq'[v] = wq[v] /\ outcome'[v] = outcome[v]
    <3>1. UNCHANGED pc \/ \E to \in Places : Move(w, to)
      BY DEF Start, Generator, AwaitBot, RegisterAndSend, Loop, GetItem, GetEmpty, Drain, Cleanup,
             Yield, End, Places
    <3>2. UNCHANGED wq \/ wq' = [wq EXCEPT ![w] = Tail(@)]
      BY DEF Start, Generator, AwaitBot, RegisterAndSend, Loop, GetItem, GetEmpty, Drain, Cleanup, Yield
    <3>3. UNCHANGED outcome \/ \E how : outcome' = [outcome EXCEPT ![w] = how]
      BY DEF Start, Generator, AwaitBot, RegisterAndSend, Loop, GetItem, GetEmpty, Drain, Cleanup,
             Yield, End
    <3>. QED  BY <1>4, <3>1, <3>2, <3>3 DEF Move, Core, Typed, TypeOK
  <2>. QED  BY <1>1, <1>2, <1>3, <2>1, EndingStays
<1>5. CASE v = w
  <2>1. CASE Start(w) \/ RegisterAndSend(w) \/ Cleanup(w)
    <3>1. pc'[w] # "drain" /\ UNCHANGED <<wq, outcome>>
      BY <2>1 DEF Start, RegisterAndSend, Cleanup, Move, Core, Typed, TypeOK
    <3>. QED  BY <1>1, <1>2, <1>3, <1>5, <3>1, EndingStays
  <2>2. CASE Loop(w)
    <3>1. (pc'[w] = "drain" => done[w]) /\ UNCHANGED <<wq, outcome>>
      BY <2>2 DEF Loop, Move, Core, Typed, TypeOK
    <3>. QED  BY <1>1, <1>2, <1>3, <1>5, <3>1, EndingStays
  <2>3. CASE AwaitBot(w) \/ GetEmpty(w)
    <3>1. UNCHANGED wq /\ (outcome' = outcome \/ outcome' = [outcome EXCEPT ![w] = "timeout"])
      BY <2>3 DEF AwaitBot, GetEmpty, End
    <3>2. \E to \in Places \ {"drain"} : Move(w, to)
      BY <2>3 DEF AwaitBot, GetEmpty, End, Places
    <3>3. pc'[w] # "drain" /\ (outcome'[w] = outcome[w] \/ outcome'[w] = "timeout")
      BY <3>1, <3>2 DEF Move, Core, Typed, TypeOK
    <3>. QED  BY <1>1, <1>2, <1>3, <1>5, <3>1, <3>3, EndingStays
  <2>4. ASSUME NEW back \in {"loop", "drain"}, pc[w] = "drain" \/ back = "loop", Yield(w, back)
        PROVE  Ending(v)'
    <3>1. wq[w] # <<>> /\ outcome[w] # "returned"
      BY <1>1, <2>4 DEF Yield, Ending
    <3>2. outcome' = outcome \/ outcome' = [outcome EXCEPT ![w] = "found"]
      BY <2>4 DEF Yield, End
    <3>3. Move(w, "cleanup") \/ Move(w, back)
      BY <2>4 DEF Yield, End
    <3>4. outcome'[w] # "returned" /\ (pc'[w] = "drain" => pc[w] = "drain")
      BY <2>4, <3>1, <3>2, <3>3 DEF Move, Core, Typed, TypeOK
    <3>. QED  BY <1>1, <1>2, <1>3, <1>5, <3>4, EndingStays
  <2>5. CASE Drain(w) /\ wq[w] = <<>> /\ End(w, "returned") /\ UNCHANGED <<wq, got>>
    <3>1. pc[w] = "drain" /\ done[w]
      BY <1>1, <2>5 DEF Drain, Ending
    <3>2. pc'[w] # "drain" /\ wq'[w] = <<>>
      BY <2>5 DEF End, Move, Core, Typed, TypeOK
    <3>. QED  BY <1>1, <1>2, <1>3, <1>5, <3>1, <3>2, EndingStays
  <2>. QED  BY <2>1, <2>2, <2>3, <2>4, <2>5 DEF Generator, GetItem, Drain
<1>. QED  BY <1>4, <1>5

LEMMA EndingOfDispatch ==
  ASSUME Core, DeliveredInOrder, Endings, NEW w \in Waiters, DispatchTo(w)
  PROVE  Endings'
<1>1. /\ UNCHANGED <<log, upto, pc, outcome>>
      /\ disp \in [left : SUBSET Waiters, put : SUBSET Waiters, ended : SUBSET Waiters,
                   busy : BOOLEAN]
  BY DEF DispatchTo, genVars, Core, Typed, TypeOK
<1>. SUFFICES ASSUME NEW v \in Waiters PROVE Ending(v)'
  BY DEF Endings
<1>2. Ending(v) /\ Serving(v) /\ Serving(w)
  BY DEF Endings, Core, Map
<1>3. CASE w \in disp.left
  <2>1. w \notin disp.put /\ w \notin disp.ended /\ upto[w] = Open
    BY <1>2, <1>3 DEF Serving
  <2>2. /\ UNCHANGED done /\ wq' = [wq EXCEPT ![w] = Append(@, Len(log))]
        /\ disp' = [disp EXCEPT !.left = @ \ {w}, !.put = IF Stopped(w) THEN {w} ELSE {}]
    BY <2>1 DEF DispatchTo
  <2>3. disp'.ended = disp.ended /\ disp'.put \in SUBSET {w}
    BY <1>1, <2>2
  <2>4. CASE v = w
    <3>1. ~done[w] /\ outcome[w] # "returned" /\ pc[w] # "drain"
      BY <1>2, <2>1, <2>4 DEF Ending
    <3>2. Delivered(w)' = Append(Delivered(w), Len(log)) /\ Delivered(w) \in Seq(1..MaxEvents)
      BY <1>3, DispatchDelivers, DeliveredType DEF Core
    <3>3. Delivered(w)' # <<>> /\ LastOf(w)' = Len(log)
      BY <3>2 DEF LastOf
    <3>. QED  BY <1>1, <2>2, <2>4, <3>1, <3>3 DEF Ending
  <2>5. CASE v # w
    <3>1. Delivered(v)' = Delivered(v) /\ wq'[v] = wq[v]
      BY <2>2, <2>5, DispatchDelivers DEF Core, Typed, TypeOK
    <3>2. LastOf(v)' = LastOf(v)
      BY <3>1 DEF LastOf
    <3>. QED  BY <1>1, <1>2, <2>2, <2>3, <2>5, <3>1, <3>2 DEF Ending, Open
  <2>. QED  BY <2>4, <2>5
<1>4. CASE w \notin disp.left
  <2>1. /\ w \in disp.put /\ UNCHANGED wq /\ done' = [done EXCEPT ![w] = TRUE]
        /\ disp' = [disp EXCEPT !.put = {}, !.ended = @ \cup {w}]
    BY <1>4 DEF DispatchTo
  <2>2. disp'.ended = disp.ended \cup {w} /\ disp'.put = {}
    BY <1>1, <2>1
  <2>3. Delivered(v)' = Delivered(v) /\ LastOf(v)' = LastOf(v)
    BY <1>4, DispatchDelivers DEF LastOf
  <2>4. CASE v = w
    <3>1. Delivered(w) # <<>> /\ log[LastOf(w)].kind \in Stops[w]
      BY <1>2, <2>1, <2>4 DEF Ending, Serving, Stopped, Event
    <3>2. done'[w]
      BY <2>1 DEF Core, Typed, TypeOK
    <3>. QED  BY <1>1, <1>2, <2>1, <2>2, <2>3, <2>4, <3>1, <3>2 DEF Ending
  <2>5. CASE v # w
    <3>1. done'[v] = done[v]
      BY <2>1, <2>5 DEF Core, Typed, TypeOK
    <3>. QED  BY <1>1, <1>2, <2>1, <2>2, <2>3, <3>1 DEF Ending, Open
  <2>. QED  BY <2>4, <2>5
<1>. QED  BY <1>3, <1>4

LEMMA NextEndings == Core /\ DeliveredInOrder /\ Endings /\ [Next]_vars => Endings'
<1>. SUFFICES ASSUME Core, DeliveredInOrder, Endings, [Next]_vars PROVE Endings'
  OBVIOUS
<1>1. CASE \E w \in Waiters : Start(w) \/ Generator(w)
  BY <1>1, EndingOfGenerators
<1>2. CASE \E w \in Waiters : DispatchTo(w)
  BY <1>2, EndingOfDispatch
<1>3. CASE \A w \in Waiters : ~DispatchTo(w) /\ ~(Start(w) \/ Generator(w))
  <2>. SUFFICES ASSUME NEW w \in Waiters PROVE Ending(w)'
    BY DEF Endings
  <2>1. Ending(w) /\ Serving(w) /\ Registered(w)
    BY DEF Endings, Core, Map
  <2>2. Delivered(w)' = Delivered(w) /\ LastOf(w)' = LastOf(w)
    BY <1>3, DeliversNothing DEF LastOf
  <2>3. Len(log) \in Nat /\ Len(log) # Open
    BY LogLength, WaitAssumption DEF Open, Core
  <2>4. CASE RunCall
    <3>1. /\ UNCHANGED <<log, disp, done, pc, outcome, wq>>
          /\ UNCHANGED upto \/ upto' = [upto EXCEPT ![Head(calls)[2]] = IF @ = Open THEN Len(log) ELSE @]
      BY <2>4 DEF RunCall, Unregister, genVars
    <3>2. upto[w] # Open => upto'[w] # Open
      BY <2>3, <3>1 DEF Core, Typed, TypeOK
    <3>. QED  BY <2>1, <2>2, <3>1, <3>2, EndingStays
  <2>5. CASE Connect \/ Tick \/ UNCHANGED vars
    <3>1. UNCHANGED <<log, disp, done, pc, outcome, wq, upto>>
      BY <2>5 DEF Connect, Tick, vars, genVars
    <3>. QED  BY <2>1, <2>2, <3>1, EndingStays
  <2>6. CASE DispatchEnd
    <3>1. /\ UNCHANGED <<log, done, pc, outcome, wq>> /\ disp'.put = {}
          /\ upto'[w] = IF w \in disp.ended THEN Len(log) ELSE upto[w]
      BY <2>6 DEF DispatchEnd, genVars, NoDispatch
    <3>. QED  BY <2>1, <2>2, <2>3, <3>1 DEF Ending, Open
  <2>7. ASSUME NEW k \in Kinds, NEW about \in Waiters \cup {Nobody}, Dispatch(k, about)
        PROVE  Ending(w)'
    <3>1. /\ UNCHANGED <<upto, done, pc, outcome, wq>> /\ ~disp.busy /\ disp'.put = {}
          /\ \A i \in 1..Len(log) : log'[i] = log[i]
      BY <2>7 DEF Dispatch, genVars, Core, Typed, TypeOK
    <3>2. w \notin disp.ended
      BY <2>1, <3>1 DEF Serving
    <3>3. Delivered(w) # <<>> => LastOf(w) \in 1..Len(log)
      <4>1. Delivered(w) \in Seq(1..MaxEvents)
        BY DeliveredType DEF Core
      <4>2. Delivered(w) # <<>> => LastOf(w) \in ToSet(Delivered(w))
        BY <4>1 DEF LastOf, ToSet
      <4>3. Span(w) \subseteq 1..Len(log)
        <5>1. upto[w] \in Nat /\ from[w] \in Nat
          BY DEF Core, Typed, TypeOK
        <5>. QED  BY <2>1, <2>3, <3>1, <5>1 DEF Span, Registered, Open, Never
      <4>. QED  BY <4>2, <4>3 DEF DeliveredInOrder
    <3>. QED  BY <2>1, <2>2, <3>1, <3>2, <3>3 DEF Ending, Open
  <2>8. \/ RunCall \/ Connect \/ Tick \/ UNCHANGED vars \/ DispatchEnd
        \/ \E k \in Kinds, about \in Waiters \cup {Nobody} : Dispatch(k, about)
    BY <1>3 DEF Next, Reactor
  <2>. QED  BY <2>4, <2>5, <2>6, <2>7, <2>8
<1>. QED  BY <1>1, <1>2, <1>3

LEMMA InitEndings == Init => Endings
BY DEF Init, Endings, Ending, NoDispatch

\* However a generator ends, the wait map has forgotten it once the reactor has caught
\* up, and one that returns by itself has given out its stop event last.
THEOREM GeneratorsEndCleanly == Spec => []EndsCleanly
<1>1. Core /\ Endings => EndsCleanly
  <2>. SUFFICES ASSUME Core, Endings, NEW w \in Waiters
                PROVE  /\ pc[w] = "finished" /\ calls = <<>> /\ ~disp.busy => Forgotten(w)
                       /\ outcome[w] = "returned" => got[w] # <<>> /\ log[Last(got[w])].kind \in Stops[w]
    BY DEF EndsCleanly
  <2>1. Registered(w) /\ Cleaned(w) /\ Ending(w)
    BY DEF Core, Map, Clean, Endings
  <2>2. pc[w] = "finished" /\ calls = <<>> => Forgotten(w)
    BY <2>1 DEF Registered, Cleaned, Forgotten
  <2>3. ASSUME outcome[w] = "returned"
        PROVE  got[w] # <<>> /\ log[Last(got[w])].kind \in Stops[w]
    <3>1. Delivered(w) = got[w]
      <4>1. wq[w] = <<>> /\ got[w] \in Seq(1..MaxEvents)
        BY <2>1, <2>3, DeliveredType DEF Ending, Core
      <4>2. got[w] \o <<>> = got[w]
        BY <4>1
      <4>. QED  BY <4>1, <4>2 DEF Delivered
    <3>. QED  BY <2>1, <2>3, <3>1 DEF Ending, LastOf, Last
  <2>. QED  BY <2>2, <2>3
<1>. QED  BY <1>1, InitEndings, NextEndings, InitInOrder, NextInOrder, CoreAlways, PTL DEF Spec

----------------------------------------------------------------------------
(* Time.                                                                   *)

\* A generator lags behind its timeout by the half second of a get() and one for each
\* event it was given.
Timely(w) ==
  LET late == expired[w] + 1 + Len(got[w]) IN
  /\ pc[w] = "connecting" => now <= expired[w] + 1
  /\ pc[w] \in {"register", "send", "loop", "drain"} => now <= late
  /\ pc[w] = "get" => since[w] <= late /\ now <= since[w] + 1
  /\ pc[w] = "cleanup" => now <= late + 1
Times == \A w \in Waiters : Timely(w)

LEMMA NextTimes == Core /\ Times /\ [Next]_vars => Times'
<1>. SUFFICES ASSUME Core, Times, [Next]_vars, NEW w \in Waiters PROVE Timely(w)'
  BY DEF Times
<1>1. /\ Timely(w) /\ now \in Nat /\ Len(got[w]) \in Nat /\ expired[w] \in Nat /\ since[w] \in Nat
      /\ Timeout \in Nat
  BY WaitAssumption DEF Times, Core, Typed, TypeOK
<1>2. CASE UNCHANGED <<pc, since, expired, got, now>>
  BY <1>1, <1>2 DEF Timely
<1>3. ASSUME NEW v \in Waiters, Start(v) \/ Generator(v) PROVE Timely(w)'
  <2>1. UNCHANGED now
    BY <1>3 DEF Start, Generator, AwaitBot, RegisterAndSend, Loop, GetItem, GetEmpty, Drain, Cleanup, reactorVars
  <2>2. CASE v # w
    <3>1. /\ UNCHANGED pc \/ \E to \in Places : Move(v, to)
          /\ UNCHANGED since \/ since' = [since EXCEPT ![v] = now]
          /\ UNCHANGED expired \/ expired' = [expired EXCEPT ![v] = now + Timeout]
          /\ UNCHANGED got \/ got' = [got EXCEPT ![v] = Append(@, Head(wq[v]))]
      BY <1>3 DEF Start, Generator, AwaitBot, RegisterAndSend, Loop, GetItem, GetEmpty, Drain, Cleanup,
                  Yield, End, Places
    <3>2. pc'[w] = pc[w] /\ since'[w] = since[w] /\ expired'[w] = expired[w] /\ got'[w] = got[w]
      BY <2>2, <3>1 DEF Move, Core, Typed, TypeOK
    <3>. QED  BY <1>1, <2>1, <3>2 DEF Timely
  <2>3. CASE v = w /\ Start(w)
    <3>1. pc'[w] = "connecting" /\ expired'[w] = now + Timeout
      BY <2>3 DEF Start, Move, Core, Typed, TypeOK
    <3>. QED  BY <1>1, <2>1, <3>1 DEF Timely
  <2>4. CASE v = w /\ AwaitBot(w)
    <3>1. pc[w] = "connecting" /\ (Move(w, "register") \/ Move(w, "finished")) /\ UNCHANGED <<expired, got>>
      BY <2>4 DEF AwaitBot
    <3>2. pc'[w] \in {"register", "finished"}
      BY <3>1 DEF Move, Core, Typed, TypeOK
    <3>. QED  BY <1>1, <2>1, <3>1, <3>2 DEF Timely
  <2>5. CASE v = w /\ RegisterAndSend(w)
    <3>1. /\ pc[w] \in {"register", "send"} /\ (Move(w, "send") \/ Move(w, "loop"))
          /\ UNCHANGED <<expired, got>>
      BY <2>5 DEF RegisterAndSend
    <3>2. pc'[w] \in {"send", "loop"}
      BY <3>1 DEF Move, Core, Typed, TypeOK
    <3>. QED  BY <1>1, <2>1, <3>1, <3>2 DEF Timely
  <2>6. CASE v = w /\ Loop(w)
    <3>1. /\ pc[w] = "loop" /\ UNCHANGED <<expired, got>>
          /\ Move(w, "drain") \/ (Move(w, "get") /\ since' = [since EXCEPT ![w] = now])
      BY <2>6 DEF Loop
    <3>2. pc'[w] = "drain" \/ (pc'[w] = "get" /\ since'[w] = now)
      BY <3>1 DEF Move, Core, Typed, TypeOK
    <3>. QED  BY <1>1, <2>1, <3>1, <3>2 DEF Timely
  <2>7. ASSUME v = w, NEW back \in {"loop", "drain"}, pc[w] \in {"get", "drain"}, Yield(w, back),
               UNCHANGED expired
        PROVE  Timely(w)'
    <3>1. Move(w, "cleanup") \/ Move(w, back)
      BY <2>7 DEF Yield, End
    <3>2. pc'[w] \in {"cleanup", "loop", "drain"}
      BY <2>7, <3>1 DEF Move, Core, Typed, TypeOK
    <3>3. Len(got'[w]) = Len(got[w]) + 1
      BY <2>7 DEF Yield, Core, Typed, TypeOK
    <3>4. now <= expired[w] + 2 + Len(got[w])
      <4>1. CASE pc[w] = "get"
        <5>1. since[w] <= expired[w] + 1 + Len(got[w]) /\ now <= since[w] + 1
          BY <1>1, <4>1 DEF Timely
        <5>. QED  BY <1>1, <5>1, SMTT(20)
      <4>2. CASE pc[w] = "drain"
        <5>1. now <= expired[w] + 1 + Len(got[w])
          BY <1>1, <4>2 DEF Timely
        <5>. QED  BY <1>1, <5>1
      <4>. QED  BY <2>7, <4>1, <4>2
    <3>5. now' = now /\ expired'[w] = expired[w]
      BY <2>1, <2>7
    <3>6. /\ now' <= expired'[w] + 1 + Len(got'[w])
          /\ now' <= expired'[w] + 1 + Len(got'[w]) + 1
      BY <1>1, <3>3, <3>4, <3>5
    <3>. QED  BY <3>2, <3>6 DEF Timely
  <2>8. CASE v = w /\ GetEmpty(w)
    <3>1. /\ pc[w] = "get" /\ UNCHANGED <<expired, got>>
          /\ IF expired[w] < now THEN Move(w, "cleanup") ELSE Move(w, "loop")
      BY <2>8 DEF GetEmpty, End
    <3>2. pc'[w] = IF expired[w] < now THEN "cleanup" ELSE "loop"
      BY <3>1 DEF Move, Core, Typed, TypeOK
    <3>. QED  BY <1>1, <2>1, <3>1, <3>2 DEF Timely
  <2>9. CASE v = w /\ Drain(w) /\ End(w, "returned") /\ UNCHANGED got
    <3>1. pc[w] = "drain" /\ pc'[w] = "cleanup" /\ UNCHANGED <<expired, got>>
      BY <2>9 DEF Drain, End, Move, Core, Typed, TypeOK
    <3>. QED  BY <1>1, <2>1, <3>1 DEF Timely
  <2>10. CASE v = w /\ Cleanup(w)
    <3>1. pc'[w] = "finished"
      BY <2>10 DEF Cleanup, Move, Core, Typed, TypeOK
    <3>. QED  BY <3>1 DEF Timely
  <2>. QED  BY <1>3, <2>2, <2>3, <2>4, <2>5, <2>6, <2>7, <2>8, <2>9, <2>10 DEF Generator, GetItem, Drain
<1>4. CASE Tick
  <2>1. Asleep(w) /\ now' = now + 1 /\ UNCHANGED <<pc, since, expired, got>>
    BY <1>4 DEF Tick, genVars
  <2>. QED  BY <1>1, <2>1 DEF Timely, Asleep
<1>5. CASE RunCall \/ DispatchEnd \/ Connect \/ UNCHANGED vars
  BY <1>2, <1>5 DEF RunCall, DispatchEnd, Connect, vars, genVars
<1>6. ASSUME NEW v \in Waiters, DispatchTo(v) PROVE Timely(w)'
  BY <1>2, <1>6 DEF DispatchTo, genVars
<1>7. ASSUME NEW k \in Kinds, NEW v \in Waiters \cup {Nobody}, Dispatch(k, v) PROVE Timely(w)'
  BY <1>2, <1>7 DEF Dispatch, genVars
<1>. QED  BY <1>3, <1>4, <1>5, <1>6, <1>7 DEF Next, Reactor

\* A wait is over when its timeout is, but for two half seconds and one for each event
\* it was given.
THEOREM GeneratorsEndInTime == Spec => []EndsInTime
<1>1. Init => Times
  BY DEF Init, Times, Timely
<1>2. Core /\ Times => EndsInTime
  <2>. SUFFICES ASSUME Core, Times, NEW w \in Waiters, pc[w] \notin {"idle", "finished"}
                PROVE  now <= LastStart + Timeout + 2 + Len(got[w])
    BY DEF EndsInTime, Core, Typed
  <2>1. /\ Timely(w) /\ now \in Nat /\ Len(got[w]) \in Nat /\ since[w] \in Nat
        /\ expired[w] \in Nat /\ expired[w] <= LastStart + Timeout /\ LastStart \in Nat /\ Timeout \in Nat
        /\ pc[w] \in {"connecting", "register", "send", "loop", "get", "drain", "cleanup"}
    BY WaitAssumption DEF Times, Core, Typed, TypeOK
  <2>2. now <= expired[w] + 2 + Len(got[w])
    <3>1. CASE pc[w] = "get"
      <4>1. since[w] <= expired[w] + 1 + Len(got[w]) /\ now <= since[w] + 1
        BY <2>1, <3>1 DEF Timely
      <4>. QED  BY <2>1, <4>1, SMTT(20)
    <3>2. CASE pc[w] = "connecting"
      BY <2>1, <3>2 DEF Timely
    <3>3. CASE pc[w] \in {"register", "send", "loop", "drain", "cleanup"}
      BY <2>1, <3>3, SMTT(20) DEF Timely
    <3>. QED  BY <2>1, <3>1, <3>2, <3>3
  <2>3. \A n, e, g, l, t \in Nat : e <= l + t /\ n <= e + 2 + g => n <= l + t + 2 + g
    OBVIOUS
  <2>. QED  BY <2>1, <2>2, <2>3, Zenon
<1>. QED  BY <1>1, <1>2, NextTimes, CoreAlways, PTL DEF Spec

----------------------------------------------------------------------------
(* Pictures.                                                               *)

Sound == {p \in Pictures : ReferencesMeet(p)}

LEMMA PictureParts ==
  ASSUME NEW p \in Pictures
  PROVE  /\ p.users \in [Nicks -> Objects \cup {NoUser}]
         /\ p.user \in [Objects -> User]
         /\ p.chan \in [Chans -> {Untracked} \cup Channel]
         /\ p = [users |-> p.users, user |-> p.user, chan |-> p.chan]
BY DEF Pictures

LEMMA PictureChanged ==
  ASSUME NEW p \in Pictures, NEW users, NEW chan
  PROVE  [p EXCEPT !.chan = chan, !.users = users] = [users |-> users, user |-> p.user, chan |-> chan]
<1>. DEFINE q == [p EXCEPT !.chan = chan, !.users = users]
<1>1. q \in [users : {users}, user : {p.user}, chan : {chan}]
  BY DEF Pictures
<1>. HIDE DEF q
<1>2. q = [users |-> users, user |-> p.user, chan |-> chan]
  BY <1>1
<1>. QED  BY <1>2 DEF q

LEMMA ChannelParts ==
  ASSUME NEW ch \in Channel
  PROVE  /\ ch.tracked = TRUE /\ ch.users \in [Nicks -> Objects \cup {NoUser}]
         /\ ch.ops \subseteq Nicks /\ ch.voices \subseteq Nicks
         /\ ch.flags \subseteq {"m"} /\ ch.bans \subseteq {"mask"} /\ ch.topic \in Topics
BY DEF Channel

LEMMA UserParts ==
  ASSUME NEW u \in User
  PROVE  u.nick \in Nicks \cup {NoNick} /\ u.channels \subseteq Chans
BY DEF User

LEMMA TrackedOnes ==
  ASSUME NEW p \in Pictures, NEW c \in Chans
  PROVE  /\ Tracked(p, c) \in BOOLEAN
         /\ Tracked(p, c) => p.chan[c] \in Channel
         /\ ~Tracked(p, c) => p.chan[c] = Untracked
<1>1. p.chan[c] \in {Untracked} \cup Channel
  BY PictureParts
<1>2. CASE p.chan[c] = Untracked
  BY <1>2 DEF Tracked, Untracked
<1>3. CASE p.chan[c] \in Channel
  BY <1>3, ChannelParts DEF Tracked
<1>. QED  BY <1>1, <1>2, <1>3

LEMMA ObjectsArePositive == Objects \subseteq Nat /\ NoUser \notin Objects /\ NoUser \in Nat
<1>1. Cardinality(Nicks) \in Nat /\ Cardinality(Chans) \in Nat
  BY NickAssumption, FS_CardinalityType
<1>. QED  BY <1>1 DEF Objects, NoUser

\* What something refers to.
LEMMA References ==
  ASSUME NEW p \in Pictures
  PROVE  /\ \A n \in Nicks : p.users[n] \in Referenced(p)
         /\ \A c \in Chans : Tracked(p, c) => \A n \in Nicks : p.chan[c].users[n] \in Referenced(p)
         /\ \A x \in Referenced(p) : \/ \E n \in Nicks : x = p.users[n]
                                     \/ \E c \in Chans : Tracked(p, c) /\ \E n \in Nicks : x = p.chan[c].users[n]
         /\ Referenced(p) \subseteq Objects \cup {NoUser}
<1>1. ASSUME NEW c \in Chans, Tracked(p, c), NEW n \in Nicks PROVE p.chan[c].users[n] \in Objects \cup {NoUser}
  <2>1. p.chan[c] \in Channel
    BY <1>1, TrackedOnes
  <2>. QED  BY <2>1, ChannelParts
<1>2. \A n \in Nicks : p.users[n] \in Objects \cup {NoUser}
  BY PictureParts
<1>. QED  BY <1>1, <1>2 DEF Referenced

\* Collecting garbage leaves what is referred to alone.
LEMMA Collecting ==
  ASSUME NEW p \in Pictures
  PROVE  /\ Collected(p) \in Pictures
         /\ Collected(p).users = p.users /\ Collected(p).chan = p.chan
         /\ \A i \in Objects : Collected(p).user[i] = IF i \in Referenced(p) THEN p.user[i] ELSE NoObject
<1>. DEFINE u == [i \in Objects |-> IF i \in Referenced(p) THEN p.user[i] ELSE NoObject]
<1>1. Collected(p) = [users |-> p.users, user |-> u, chan |-> p.chan]
  <2>1. p = [users |-> p.users, user |-> p.user, chan |-> p.chan]
    BY PictureParts
  <2>. QED  BY <2>1 DEF Collected
<1>2. NoObject \in User
  BY DEF NoObject, User
<1>3. u \in [Objects -> User]
  BY <1>2, PictureParts
<1>. HIDE DEF u
<1>4. Collected(p) \in Pictures
  BY <1>1, <1>3, PictureParts DEF Pictures
<1>. QED  BY <1>1, <1>4 DEF u

LEMMA CollectingIsSound ==
  ASSUME NEW p \in Sound
  PROVE  Collected(p) \in Sound
<1>1. p \in Pictures /\ ReferencesMeet(p)
  BY DEF Sound
<1>. DEFINE q == Collected(p)
<1>2. q \in Pictures /\ q.users = p.users /\ q.chan = p.chan
      /\ \A i \in Objects : i \in Referenced(p) => q.user[i] = p.user[i]
  BY <1>1, Collecting
<1>. HIDE DEF q
<1>3. \A c \in Chans : Tracked(q, c) = Tracked(p, c)
  BY <1>2 DEF Tracked
<1>4. ASSUME NEW n \in Nicks, p.users[n] # NoUser PROVE q.user[q.users[n]] = p.user[p.users[n]]
  BY <1>1, <1>2, <1>4, References, PictureParts
<1>5. ReferencesMeet(q)
  <2>. SUFFICES ASSUME NEW n \in Nicks
                PROVE  LET i == q.users[n] IN
                       /\ i # NoUser => /\ q.user[i].nick = n /\ q.user[i].channels # {}
                                        /\ \A c \in q.user[i].channels : Tracked(q, c) /\ q.chan[c].users[n] = i
                       /\ \A c \in Chans : Tracked(q, c) /\ q.chan[c].users[n] # NoUser =>
                            q.chan[c].users[n] = i /\ c \in q.user[i].channels
    BY DEF ReferencesMeet
  <2>1. p.users[n] # NoUser => p.user[p.users[n]].channels \subseteq Chans
    BY <1>1, PictureParts, UserParts
  <2>. QED  BY <1>1, <1>2, <1>3, <1>4, <2>1 DEF ReferencesMeet
<1>. QED  BY <1>2, <1>5 DEF Sound, q

\* There are objects enough for who is new.
LEMMA FreshOnes ==
  ASSUME NEW p \in Pictures, NEW who \in SUBSET Nicks, \A n \in who : p.users[n] = NoUser
  PROVE  \E f \in [who -> Objects \ Referenced(p)] : \A m, n \in who : f[m] = f[n] => m = n
<1>. DEFINE known == {n \in Nicks : p.users[n] # NoUser}
            first == {p.users[n] : n \in known}
            pairs == {e \in Chans \X Nicks : Tracked(p, e[1]) /\ p.chan[e[1]].users[e[2]] # NoUser}
            second == {p.chan[e[1]].users[e[2]] : e \in pairs}
            free == Objects \ Referenced(p)
            N == Cardinality(Nicks)
            C == Cardinality(Chans)
<1>1. IsFiniteSet(Nicks) /\ IsFiniteSet(Chans) /\ N \in Nat /\ C \in Nat
  BY NickAssumption, FS_CardinalityType
<1>2. IsFiniteSet(Objects) /\ Cardinality(Objects) = (C + 1) * N
  <2>1. (C + 1) * N \in Nat
    BY <1>1
  <2>. QED  BY <2>1, FS_Interval DEF Objects
<1>3. IsFiniteSet(first) /\ Cardinality(first) <= Cardinality(known)
  <2>1. IsFiniteSet(known)
    BY <1>1, FS_Subset
  <2>2. [n \in known |-> p.users[n]] \in Surjection(known, first)
    BY DEF Surjection
  <2>. HIDE DEF known, first
  <2>. QED  BY <2>1, <2>2, FS_Surjection
<1>4. IsFiniteSet(second) /\ Cardinality(second) <= C * N
  <2>1. IsFiniteSet(Chans \X Nicks) /\ Cardinality(Chans \X Nicks) = C * N
    BY <1>1, FS_Product
  <2>2. IsFiniteSet(pairs) /\ Cardinality(pairs) <= C * N
    <3>1. pairs \in SUBSET (Chans \X Nicks)
      OBVIOUS
    <3>. QED  BY <2>1, <3>1, FS_Subset
  <2>3. [e \in pairs |-> p.chan[e[1]].users[e[2]]] \in Surjection(pairs, second)
    BY Zenon DEF Surjection
  <2>4. Cardinality(pairs) \in Nat
    BY <2>2, FS_CardinalityType, Zenon
  <2>. HIDE DEF pairs, second
  <2>5. IsFiniteSet(second) /\ Cardinality(second) <= Cardinality(pairs)
    BY <2>2, <2>3, FS_Surjection
  <2>6. Cardinality(second) \in Nat /\ C * N \in Nat
    BY <1>1, <2>5, FS_CardinalityType
  <2>. QED  BY <2>2, <2>4, <2>5, <2>6
<1>5. Objects \cap Referenced(p) \subseteq first \cup second
  <2>. SUFFICES ASSUME NEW x \in Objects, x \in Referenced(p) PROVE x \in first \cup second
    OBVIOUS
  <2>1. x # NoUser
    BY ObjectsArePositive
  <2>2. CASE \E n \in Nicks : x = p.users[n]
    BY <2>1, <2>2
  <2>3. CASE \E c \in Chans : Tracked(p, c) /\ \E n \in Nicks : x = p.chan[c].users[n]
    <3>1. PICK c \in Chans, n \in Nicks : Tracked(p, c) /\ x = p.chan[c].users[n]
      BY <2>3
    <3>2. <<c, n>> \in pairs
      BY <2>1, <3>1
    <3>. QED  BY <3>1, <3>2, Zenon
  <2>. QED  BY <2>2, <2>3, References
<1>. HIDE DEF first, second
<1>6. IsFiniteSet(known) /\ Cardinality(known) \in Nat /\ Cardinality(known) <= N
  BY <1>1, FS_Subset, FS_CardinalityType
<1>7. IsFiniteSet(who) /\ Cardinality(who) \in Nat /\ Cardinality(who) <= N - Cardinality(known)
  <2>1. who \in SUBSET (Nicks \ known)
    OBVIOUS
  <2>2. IsFiniteSet(Nicks \ known) /\ Cardinality(Nicks \ known) = N - Cardinality(Nicks \cap known)
    BY <1>1, FS_Difference
  <2>3. Nicks \cap known = known
    OBVIOUS
  <2>. HIDE DEF known
  <2>4. IsFiniteSet(who) /\ Cardinality(who) <= Cardinality(Nicks \ known)
    BY <2>1, <2>2, FS_Subset
  <2>. QED  BY <2>2, <2>3, <2>4, FS_CardinalityType
<1>8. IsFiniteSet(free) /\ Cardinality(free) \in Nat /\ Cardinality(who) <= Cardinality(free)
  <2>1. IsFiniteSet(free) /\ Cardinality(free) = (C + 1) * N - Cardinality(Objects \cap Referenced(p))
    BY <1>2, FS_Difference
  <2>2. IsFiniteSet(first \cup second)
        /\ Cardinality(first \cup second) = Cardinality(first) + Cardinality(second) - Cardinality(first \cap second)
    BY <1>3, <1>4, FS_Union
  <2>3. Cardinality(Objects \cap Referenced(p)) <= Cardinality(first \cup second)
        /\ IsFiniteSet(Objects \cap Referenced(p))
    BY <1>5, <2>2, FS_Subset
  <2>4. IsFiniteSet(first \cap second)
    BY <1>3, FS_Intersection
  <2>5. Cardinality(free) \in Nat /\ Cardinality(first) \in Nat /\ Cardinality(second) \in Nat
        /\ Cardinality(first \cap second) \in Nat /\ Cardinality(first \cup second) \in Nat
        /\ Cardinality(Objects \cap Referenced(p)) \in Nat
    BY <1>3, <1>4, <2>1, <2>2, <2>3, <2>4, FS_CardinalityType
  <2>6. C * N \in Nat /\ (C + 1) * N = C * N + N
    BY <1>1
  <2>. HIDE DEF free, known, N, C
  <2>. QED  BY <1>1, <1>3, <1>4, <1>6, <1>7, <2>1, <2>2, <2>3, <2>5, <2>6
<1>. HIDE DEF free, known
<1>9. ExistsInjection(who, free)
  <2>1. ExistsBijection(who, 1..Cardinality(who)) /\ ExistsBijection(1..Cardinality(free), free)
    BY <1>7, <1>8, FS_CardinalityType, Fun_ExistsBijSymmetric
  <2>2. ExistsInjection(who, 1..Cardinality(who)) /\ ExistsInjection(1..Cardinality(free), free)
    BY <2>1 DEF ExistsBijection, ExistsInjection, Bijection
  <2>3. ExistsInjection(1..Cardinality(who), 1..Cardinality(free))
    BY <1>7, <1>8, Fun_NatInjLeq
  <2>. QED  BY <2>2, <2>3, Fun_ExistsInjTransitive
<1>10. PICK f \in Injection(who, free) : TRUE
  BY <1>9 DEF ExistsInjection
<1>. QED  BY <1>10 DEF Injection, IsInjective, free

----------------------------------------------------------------------------
(* What the methods make of a picture.                                     *)

LEMMA MadePicture ==
  ASSUME NEW users \in [Nicks -> Objects \cup {NoUser}], NEW user \in [Objects -> User],
         NEW chan \in [Chans -> {Untracked} \cup Channel]
  PROVE  [users |-> users, user |-> user, chan |-> chan] \in Pictures
BY DEF Pictures

LEMMA NewOne == NewChannel \in Channel /\ Untracked.tracked = FALSE /\ NewChannel.tracked = TRUE
BY NickAssumption DEF NewChannel, Channel, Untracked

\* _removeuser
LEMMA Removing ==
  ASSUME NEW ch \in Channel, NEW n
  PROVE  /\ RemoveUser(ch, n) \in Channel
         /\ RemoveUser(ch, n) = [ch EXCEPT !.users = [ch.users EXCEPT ![n] = NoUser],
                                          !.ops = ch.ops \ {n}, !.voices = ch.voices \ {n}]
         /\ \A k \in Nicks : RemoveUser(ch, n).users[k] = IF k = n THEN NoUser ELSE ch.users[k]
         /\ RemoveUser(ch, n).ops = ch.ops \ {n} /\ RemoveUser(ch, n).voices = ch.voices \ {n}
         /\ RemoveUser(ch, n).flags = ch.flags /\ RemoveUser(ch, n).bans = ch.bans
<1>1. [ch.users EXCEPT ![n] = NoUser] \in [Nicks -> Objects \cup {NoUser}]
  BY ChannelParts
<1>2. RemoveUser(ch, n) = [ch EXCEPT !.users = [ch.users EXCEPT ![n] = NoUser],
                                     !.ops = ch.ops \ {n}, !.voices = ch.voices \ {n}]
  BY DEF RemoveUser, Channel
<1>3. RemoveUser(ch, n) \in Channel
  <2>1. ch.ops \ {n} \in SUBSET Nicks /\ ch.voices \ {n} \in SUBSET Nicks
    BY ChannelParts
  <2>. QED  BY <1>1, <1>2, <2>1 DEF Channel
<1>. QED  BY <1>2, <1>3, ZenonT(40) DEF Channel

\* _changeuser
LEMMA Changing ==
  ASSUME NEW ch \in Channel, NEW old \in Nicks, NEW new \in Nicks, old # new
  PROVE  /\ ChangeUser(ch, old, new) \in Channel
         /\ \A k \in Nicks : ChangeUser(ch, old, new).users[k] =
              IF ch.users[old] = NoUser THEN ch.users[k]
              ELSE IF k = old THEN NoUser ELSE IF k = new THEN ch.users[old] ELSE ch.users[k]
         /\ ChangeUser(ch, old, new).ops = Changed(ch.ops, old, new)
         /\ ChangeUser(ch, old, new).voices = Changed(ch.voices, old, new)
         /\ ChangeUser(ch, old, new).flags = ch.flags /\ ChangeUser(ch, old, new).bans = ch.bans
<1>. DEFINE u == IF ch.users[old] = NoUser THEN ch.users
                 ELSE [ch.users EXCEPT ![old] = NoUser, ![new] = ch.users[old]]
<1>1. u \in [Nicks -> Objects \cup {NoUser}]
  BY ChannelParts
<1>2. Changed(ch.ops, old, new) \in SUBSET Nicks /\ Changed(ch.voices, old, new) \in SUBSET Nicks
  BY ChannelParts DEF Changed
<1>3. ChangeUser(ch, old, new) = [ch EXCEPT !.users = u, !.ops = Changed(ch.ops, old, new),
                                            !.voices = Changed(ch.voices, old, new)]
  BY DEF ChangeUser, Channel
<1>4. \A k \in Nicks : u[k] = IF ch.users[old] = NoUser THEN ch.users[k]
              ELSE IF k = old THEN NoUser ELSE IF k = new THEN ch.users[old] ELSE ch.users[k]
  BY ChannelParts
<1>. HIDE DEF u
<1>5. ChangeUser(ch, old, new) \in Channel
  BY <1>1, <1>2, <1>3 DEF Channel
<1>. QED  BY <1>3, <1>4, <1>5 DEF Channel

\* A picture whose users are left alone, and the channels but for what is not who is
\* in them, is as sound.
LEMMA SameUsers ==
  ASSUME NEW p \in Pictures, NEW q \in Pictures, q.users = p.users, q.user = p.user,
         \A c \in Chans : Tracked(q, c) = Tracked(p, c) /\ (Tracked(p, c) => q.chan[c].users = p.chan[c].users)
  PROVE  /\ p \in Sound => q \in Sound
         /\ \A c \in Chans : Tracked(p, c) => Members(q, c) = Members(p, c)
<1>1. ASSUME p \in Sound PROVE ReferencesMeet(q)
  <2>. SUFFICES ASSUME NEW n \in Nicks
                PROVE  LET i == q.users[n] IN
                       /\ i # NoUser => /\ q.user[i].nick = n /\ q.user[i].channels # {}
                                        /\ \A c \in q.user[i].channels : Tracked(q, c) /\ q.chan[c].users[n] = i
                       /\ \A c \in Chans : Tracked(q, c) /\ q.chan[c].users[n] # NoUser =>
                            q.chan[c].users[n] = i /\ c \in q.user[i].channels
    BY DEF ReferencesMeet
  <2>1. p.users[n] # NoUser => p.user[p.users[n]].channels \subseteq Chans
    BY PictureParts, UserParts
  <2>. QED  BY <1>1, <2>1 DEF ReferencesMeet, Sound
<1>. QED  BY <1>1 DEF Members, Sound

\* What a sound picture says of a nick.
LEMMA SoundPicture ==
  ASSUME NEW p \in Sound, NEW n \in Nicks
  PROVE  /\ p \in Pictures
         /\ p.users[n] # NoUser =>
              /\ p.users[n] \in Objects /\ p.user[p.users[n]] \in User
              /\ p.user[p.users[n]].nick = n /\ p.user[p.users[n]].channels # {}
              /\ p.user[p.users[n]].channels \subseteq Chans
              /\ \A c \in p.user[p.users[n]].channels : Tracked(p, c) /\ p.chan[c].users[n] = p.users[n]
         /\ \A c \in Chans : Tracked(p, c) /\ p.chan[c].users[n] # NoUser =>
              p.chan[c].users[n] = p.users[n] /\ c \in p.user[p.users[n]].channels
<1>1. p \in Pictures /\ ReferencesMeet(p)
  BY DEF Sound
<1>2. p.users[n] # NoUser => p.users[n] \in Objects /\ p.user[p.users[n]] \in User
  BY <1>1, PictureParts
<1>. QED  BY <1>1, <1>2, UserParts DEF ReferencesMeet

\* What has to be shown of a picture for it to be sound.
LEMMA IsSound ==
  ASSUME NEW q \in Pictures,
         \A n \in Nicks : q.users[n] # NoUser =>
           /\ q.user[q.users[n]].nick = n /\ q.user[q.users[n]].channels # {}
           /\ \A c \in Chans : c \in q.user[q.users[n]].channels => Tracked(q, c) /\ q.chan[c].users[n] = q.users[n],
         \A n \in Nicks : \A c \in Chans : Tracked(q, c) /\ q.chan[c].users[n] # NoUser =>
           q.chan[c].users[n] = q.users[n] /\ c \in q.user[q.users[n]].channels
  PROVE  q \in Sound
<1>1. \A n \in Nicks : q.users[n] # NoUser => q.user[q.users[n]].channels \subseteq Chans
  BY PictureParts, UserParts
<1>. QED  BY <1>1 DEF Sound, ReferencesMeet

\* _nukechannel
LEMMA Nuking ==
  ASSUME NEW p \in Pictures, NEW c \in Chans
  PROVE  /\ NukeChannel(p, c) \in Pictures
         /\ NukeChannel(p, c).chan = [p.chan EXCEPT ![c] = Untracked]
         /\ p \in Sound => NukeChannel(p, c) \in Sound
<1>1. CASE ~Tracked(p, c)
  <2>1. NukeChannel(p, c) = p
    BY <1>1 DEF NukeChannel
  <2>2. p.chan = [p.chan EXCEPT ![c] = Untracked]
    BY <1>1, TrackedOnes, PictureParts
  <2>. QED  BY <2>1, <2>2
<1>2. CASE Tracked(p, c)
  <2>. DEFINE here == {p.chan[c].users[n] : n \in Members(p, c)}
              gone == {p.user[i].nick : i \in {j \in here : p.user[j].channels \subseteq {c}}}
              users == [n \in Nicks |-> IF n \in gone THEN NoUser ELSE p.users[n]]
              user == [i \in Objects |-> IF i \in here THEN [p.user[i] EXCEPT !.channels = @ \ {c}] ELSE p.user[i]]
              chan == [p.chan EXCEPT ![c] = Untracked]
              q == [users |-> users, user |-> user, chan |-> chan]
  <2>1. NukeChannel(p, c) = Collected(q)
    BY <1>2 DEF NukeChannel
  <2>2. users \in [Nicks -> Objects \cup {NoUser}]
    BY PictureParts
  <2>3. \A i \in Objects : user[i] \in User /\ user[i].nick = p.user[i].nick
          /\ user[i].channels = IF i \in here THEN p.user[i].channels \ {c} ELSE p.user[i].channels
    <3>. HIDE DEF here
    <3>. QED  BY PictureParts DEF User
  <2>4. chan \in [Chans -> {Untracked} \cup Channel]
    BY PictureParts
  <2>5. q \in Pictures
    <3>1. user \in [Objects -> User]
      BY <2>3
    <3>. QED  BY <2>2, <2>4, <3>1, MadePicture
  <2>6. ASSUME p \in Sound PROVE q \in Sound
    <3>1. \A d \in Chans : Tracked(q, d) <=> d # c /\ Tracked(p, d)
      <4>. HIDE DEF users, user
      <4>. QED  BY PictureParts DEF Tracked, Untracked
    <3>2. \A d \in Chans : d # c => q.chan[d] = p.chan[d]
      BY PictureParts
    <3>3. \A n \in Nicks : q.users[n] = IF n \in gone THEN NoUser ELSE p.users[n]
      BY PictureParts
    <3>4. \A i \in Objects : q.user[i].nick = p.user[i].nick
            /\ q.user[i].channels = IF i \in here THEN p.user[i].channels \ {c} ELSE p.user[i].channels
      BY <2>3
    <3>5. ASSUME NEW n \in Nicks, p.users[n] # NoUser
          PROVE  /\ p.users[n] \in here <=> c \in p.user[p.users[n]].channels
                 /\ n \in gone => p.user[p.users[n]].channels \subseteq {c}
                 /\ p.user[p.users[n]].channels \subseteq {c} => n \in gone
      <4>1. ASSUME NEW i \in here PROVE \E m \in Nicks : i = p.chan[c].users[m] /\ i = p.users[m] /\ i # NoUser
                                          /\ p.user[i].nick = m /\ c \in p.user[i].channels
        <5>1. PICK m \in Members(p, c) : i = p.chan[c].users[m]
          BY <4>1
        <5>. QED  BY <1>2, <2>6, <5>1, SoundPicture, SMTT(20) DEF Members
      <4>2. c \in p.user[p.users[n]].channels => p.users[n] \in here
        BY <1>2, <2>6, <3>5, SoundPicture DEF Members
      <4>3. p.users[n] \in here => c \in p.user[p.users[n]].channels
        BY <4>1
      <4>4. p.user[p.users[n]].nick = n /\ p.user[p.users[n]].channels # {}
        BY <2>6, <3>5, SoundPicture
      <4>. HIDE DEF here
      <4>. QED  BY <4>1, <4>2, <4>3, <4>4
    <3>. HIDE DEF here, gone, users, user, chan, q
    <3>6. ASSUME NEW n \in Nicks, q.users[n] # NoUser
          PROVE  /\ q.user[q.users[n]].nick = n /\ q.user[q.users[n]].channels # {}
                 /\ \A d \in Chans : d \in q.user[q.users[n]].channels =>
                      Tracked(q, d) /\ q.chan[d].users[n] = q.users[n]
      <4>1. n \notin gone /\ q.users[n] = p.users[n] /\ p.users[n] # NoUser
        BY <3>3, <3>6
      <4>2. p.users[n] \in Objects /\ p.user[p.users[n]].nick = n
            /\ \A d \in p.user[p.users[n]].channels : d \in Chans /\ Tracked(p, d) /\ p.chan[d].users[n] = p.users[n]
        BY <2>6, <4>1, SoundPicture
      <4>3. q.user[p.users[n]].channels = p.user[p.users[n]].channels \ {c}
        BY <3>4, <3>5, <4>1, <4>2, ZenonT(40)
      <4>4. ~(p.user[p.users[n]].channels \subseteq {c})
        BY <3>5, <4>1
      <4>5. ASSUME NEW d \in Chans, d \in q.user[q.users[n]].channels
            PROVE  Tracked(q, d) /\ q.chan[d].users[n] = q.users[n]
        BY <3>1, <3>2, <4>1, <4>2, <4>3, <4>5
      <4>6. q.user[q.users[n]].nick = n
        BY <3>4, <4>1, <4>2
      <4>. QED  BY <4>1, <4>3, <4>4, <4>5, <4>6
    <3>7. ASSUME NEW n \in Nicks, NEW d \in Chans, Tracked(q, d), q.chan[d].users[n] # NoUser
          PROVE  q.chan[d].users[n] = q.users[n] /\ d \in q.user[q.users[n]].channels
      <4>1. d # c /\ Tracked(p, d) /\ p.chan[d].users[n] # NoUser /\ q.chan[d] = p.chan[d]
        BY <3>1, <3>2, <3>7
      <4>2. p.chan[d].users[n] = p.users[n] /\ d \in p.user[p.users[n]].channels /\ p.users[n] \in Objects
        BY <2>6, <4>1, SoundPicture
      <4>3. n \notin gone
        BY <3>5, <4>1, <4>2
      <4>. QED  BY <3>3, <3>4, <4>1, <4>2, <4>3
    <3>. QED  BY <2>5, <3>6, <3>7, IsSound
  <2>7. q.chan = chan
    OBVIOUS
  <2>. HIDE DEF q
  <2>. QED  BY <2>1, <2>5, <2>6, <2>7, Collecting, CollectingIsSound
<1>. QED  BY <1>1, <1>2

\* _joinchannel
LEMMA Joining ==
  ASSUME NEW p \in Pictures, NEW c \in Chans
  PROVE  /\ JoinChannel(p, c) \in Pictures
         /\ JoinChannel(p, c).chan = [p.chan EXCEPT ![c] = NewChannel]
         /\ p \in Sound => JoinChannel(p, c) \in Sound
<1>. DEFINE n == NukeChannel(p, c)
            q == JoinChannel(p, c)
<1>1. n \in Pictures /\ n.chan = [p.chan EXCEPT ![c] = Untracked] /\ (p \in Sound => n \in Sound)
  BY Nuking
<1>2. q = [n EXCEPT !.chan = [n.chan EXCEPT ![c] = NewChannel]]
  BY <1>1, PictureParts DEF JoinChannel
<1>. HIDE DEF n, q
<1>3. q = [users |-> n.users, user |-> n.user, chan |-> [n.chan EXCEPT ![c] = NewChannel]]
  BY <1>1, <1>2, PictureParts
<1>4. q.users = n.users /\ q.user = n.user /\ q.chan = [p.chan EXCEPT ![c] = NewChannel]
  BY <1>1, <1>3, PictureParts
<1>5. q \in Pictures
  <2>1. [n.chan EXCEPT ![c] = NewChannel] \in [Chans -> {Untracked} \cup Channel]
    BY <1>1, NewOne, PictureParts
  <2>. QED  BY <1>1, <1>3, <2>1, PictureParts, MadePicture
<1>6. ASSUME p \in Sound PROVE q \in Sound
  <2>1. \A d \in Chans : d # c => q.chan[d] = n.chan[d] /\ Tracked(q, d) = Tracked(n, d)
    BY <1>1, <1>3, PictureParts DEF Tracked
  <2>2. ~Tracked(n, c) /\ \A m \in Nicks : q.chan[c].users[m] = NoUser
    BY <1>1, <1>4, PictureParts DEF Tracked, Untracked, NewChannel
  <2>3. n \in Sound
    BY <1>1, <1>6
  <2>4. ASSUME NEW m \in Nicks, q.users[m] # NoUser
        PROVE  /\ q.user[q.users[m]].nick = m /\ q.user[q.users[m]].channels # {}
               /\ \A d \in Chans : d \in q.user[q.users[m]].channels => Tracked(q, d) /\ q.chan[d].users[m] = q.users[m]
    BY <1>4, <2>1, <2>2, <2>3, <2>4, SoundPicture
  <2>5. ASSUME NEW m \in Nicks, NEW d \in Chans, Tracked(q, d), q.chan[d].users[m] # NoUser
        PROVE  q.chan[d].users[m] = q.users[m] /\ d \in q.user[q.users[m]].channels
    BY <1>4, <2>1, <2>2, <2>3, <2>5, SoundPicture
  <2>. QED  BY <1>5, <2>4, <2>5, IsSound
<1>. QED  BY <1>4, <1>5, <1>6 DEF q

\* _userjoin, for each of who
LEMMA UsersJoining ==
  ASSUME NEW p \in Pictures, NEW c \in Chans, NEW who \in SUBSET Nicks, Tracked(p, c)
  PROVE  /\ UsersJoin(p, c, who) \in Pictures
         /\ \A d \in Chans : d # c => UsersJoin(p, c, who).chan[d] = p.chan[d]
         /\ UsersJoin(p, c, who).chan[c] = [p.chan[c] EXCEPT !.users = UsersJoin(p, c, who).chan[c].users]
         /\ p \in Sound => /\ UsersJoin(p, c, who) \in Sound
                           /\ Members(UsersJoin(p, c, who), c) = Members(p, c) \cup who
<1>. DEFINE new == {n \in who : p.users[n] = NoUser}
            fresh == CHOOSE f \in [new -> Objects \ Referenced(p)] : \A m, n \in new : f[m] = f[n] => m = n
            users == [n \in Nicks |-> IF n \in new THEN fresh[n] ELSE p.users[n]]
            nick == [n \in who |-> IF n \in new THEN n ELSE p.user[p.users[n]].nick]
            user == [i \in Objects |-> IF \A n \in who : users[n] # i THEN p.user[i]
                       ELSE LET n == CHOOSE m \in who : users[m] = i
                            IN [nick |-> nick[n],
                                channels |-> {c} \cup IF n \in new THEN {} ELSE p.user[i].channels]]
            named == [k \in Nicks |-> IF p.chan[c].users[k] # NoUser \/ \A n \in who : nick[n] # k THEN p.chan[c].users[k]
                                      ELSE users[CHOOSE n \in who : nick[n] = k]]
            chan == [p.chan EXCEPT ![c].users = named]
            q == [users |-> users, user |-> user, chan |-> chan]
<1>1. UsersJoin(p, c, who) = q
  <2>1. chan = [p.chan EXCEPT ![c].users = [k \in Nicks |-> IF @[k] # NoUser \/ \A n \in who : nick[n] # k THEN @[k]
                                        ELSE users[CHOOSE n \in who : nick[n] = k]]]
    OBVIOUS
  <2>. QED  BY <2>1, Zenon DEF UsersJoin
<1>2. /\ fresh \in [new -> Objects \ Referenced(p)]
      /\ \A m, n \in new : fresh[m] = fresh[n] => m = n
  <2>1. \E f \in [new -> Objects \ Referenced(p)] : \A m, n \in new : f[m] = f[n] => m = n
    <3>1. new \in SUBSET Nicks /\ \A n \in new : p.users[n] = NoUser
      OBVIOUS
    <3>. HIDE DEF new
    <3>. QED  BY <3>1, FreshOnes
  <2>. HIDE DEF new
  <2>. QED  BY <2>1
<1>. HIDE DEF fresh
<1>3. \A n \in Nicks : users[n] = IF n \in new THEN fresh[n] ELSE p.users[n]
  OBVIOUS
<1>4. \A n \in who : users[n] \in Objects /\ nick[n] = IF n \in new THEN n ELSE p.user[p.users[n]].nick
  <2>. SUFFICES ASSUME NEW n \in who PROVE users[n] \in Objects
    OBVIOUS
  <2>1. CASE n \in new
    BY <1>2, <1>3, <2>1
  <2>2. CASE n \notin new
    <3>1. p.users[n] # NoUser
      BY <2>2
    <3>. QED  BY <1>3, <2>2, <3>1, PictureParts
  <2>. QED  BY <2>1, <2>2
<1>5. users \in [Nicks -> Objects \cup {NoUser}]
  <2>. SUFFICES ASSUME NEW n \in Nicks PROVE users[n] \in Objects \cup {NoUser}
    OBVIOUS
  <2>. QED  BY <1>2, <1>3, PictureParts
<1>6. \A n \in who : nick[n] \in Nicks \cup {NoNick}
  <2>. SUFFICES ASSUME NEW n \in who PROVE nick[n] \in Nicks \cup {NoNick}
    OBVIOUS
  <2>1. CASE n \in new
    BY <1>4, <2>1
  <2>2. CASE n \notin new
    <3>1. users[n] = p.users[n] /\ p.users[n] \in Objects
      BY <1>3, <1>4, <2>2
    <3>. QED  BY <1>4, <2>2, <3>1, PictureParts, UserParts
  <2>. QED  BY <2>1, <2>2
<1>7. \A i \in Objects : user[i] = IF \A n \in who : users[n] # i THEN p.user[i]
                       ELSE LET n == CHOOSE m \in who : users[m] = i
                            IN [nick |-> nick[n],
                                channels |-> {c} \cup IF n \in new THEN {} ELSE p.user[i].channels]
  OBVIOUS
<1>8. named \in [Nicks -> Objects \cup {NoUser}]
  <2>. SUFFICES ASSUME NEW k \in Nicks PROVE named[k] \in Objects \cup {NoUser}
    OBVIOUS
  <2>1. p.chan[c].users[k] \in Objects \cup {NoUser}
    <3>1. p.chan[c] \in Channel
      BY TrackedOnes
    <3>. QED  BY <3>1, ChannelParts
  <2>. HIDE DEF users, nick
  <2>2. CASE \E n \in who : nick[n] = k
    <3>1. (CHOOSE n \in who : nick[n] = k) \in who
      BY <2>2
    <3>. QED  BY <1>4, <2>1, <3>1
  <2>3. CASE ~\E n \in who : nick[n] = k
    BY <2>1, <2>3
  <2>. QED  BY <2>2, <2>3
<1>9. user \in [Objects -> User]
  <2>. SUFFICES ASSUME NEW i \in Objects PROVE user[i] \in User
    OBVIOUS
  <2>1. p.user[i] \in User
    BY PictureParts
  <2>. HIDE DEF users, nick, user, new
  <2>2. CASE \E n \in who : users[n] = i
    <3>. DEFINE n == CHOOSE m \in who : users[m] = i
    <3>1. n \in who
      BY <2>2
    <3>2. user[i] = [nick |-> nick[n], channels |-> {c} \cup IF n \in new THEN {} ELSE p.user[i].channels]
      BY <1>7, <2>2
    <3>. HIDE DEF n
    <3>3. nick[n] \in Nicks \cup {NoNick} /\ ({c} \cup IF n \in new THEN {} ELSE p.user[i].channels) \subseteq Chans
      BY <1>6, <2>1, <3>1, UserParts
    <3>. QED  BY <3>2, <3>3 DEF User
  <2>3. CASE ~\E n \in who : users[n] = i
    BY <1>7, <2>1, <2>3
  <2>. QED  BY <2>2, <2>3
<1>. HIDE DEF users, user, named
<1>10. /\ chan \in [Chans -> {Untracked} \cup Channel]
       /\ chan[c] = [p.chan[c] EXCEPT !.users = named] /\ chan[c].users = named
       /\ chan[c].tracked = TRUE
       /\ \A d \in Chans : d # c => chan[d] = p.chan[d]
  <2>1. p.chan[c] \in Channel
    BY TrackedOnes
  <2>2. [p.chan[c] EXCEPT !.users = named] \in Channel /\ [p.chan[c] EXCEPT !.users = named].users = named
    BY <1>8, <2>1 DEF Channel
  <2>. QED  BY <2>2, PictureParts, ChannelParts
<1>11. q \in Pictures
  BY <1>5, <1>9, <1>10, MadePicture
<1>12. ASSUME p \in Sound PROVE q \in Sound /\ Members(q, c) = Members(p, c) \cup who
  <2>1. \A n \in who : nick[n] = n
    BY <1>4, <1>12, SoundPicture
  <2>2. ASSUME NEW m \in Nicks, NEW n \in who, users[m] = users[n] PROVE m = n
    <3>1. n \in Nicks /\ users[n] \in Objects
      BY <1>4
    <3>2. CASE n \in new /\ m \in new
      BY <1>2, <1>3, <2>2, <3>1, <3>2
    <3>3. CASE n \in new /\ m \notin new
      BY <1>2, <1>3, <2>2, <3>1, <3>3, References
    <3>4. CASE n \notin new /\ m \in new
      BY <1>2, <1>3, <2>2, <3>1, <3>4, References
    <3>5. CASE n \notin new /\ m \notin new
      <4>1. p.users[m] = p.users[n] /\ p.users[n] # NoUser
        BY <1>3, <2>2, <3>1, <3>5, ObjectsArePositive
      <4>. QED  BY <1>12, <3>1, <4>1, SoundPicture
    <3>. QED  BY <3>2, <3>3, <3>4, <3>5
  <2>3. ASSUME NEW n \in who
        PROVE  /\ users[n] \in Objects /\ user[users[n]].nick = n
               /\ user[users[n]].channels = {c} \cup IF n \in new THEN {} ELSE p.user[p.users[n]].channels
    <3>. DEFINE m == CHOOSE m \in who : users[m] = users[n]
    <3>1. m \in who /\ users[m] = users[n]
      <4>. HIDE DEF new, nick
      <4>. QED  OBVIOUS
    <3>2. m = n
      BY <2>2, <3>1
    <3>3. user[users[n]] = [nick |-> nick[m], channels |-> {c} \cup IF m \in new THEN {} ELSE p.user[users[n]].channels]
      <4>1. users[n] \in Objects /\ ~\A k \in who : users[k] # users[n]
        BY <1>4
      <4>. HIDE DEF new, nick
      <4>. QED  BY <1>7, <4>1
    <3>. HIDE DEF m
    <3>. QED  BY <1>3, <1>4, <2>1, <3>2, <3>3
  <2>4. ASSUME NEW n \in Nicks, n \notin who, users[n] # NoUser
        PROVE  users[n] = p.users[n] /\ users[n] \in Objects /\ user[users[n]] = p.user[p.users[n]]
    <3>1. users[n] = p.users[n] /\ users[n] \in Objects
      BY <1>3, <1>5, <2>4
    <3>2. \A m \in who : users[m] # users[n]
      BY <2>2, <2>4
    <3>. QED  BY <1>7, <3>1, <3>2
  <2>5. \A k \in Nicks : named[k] = IF p.chan[c].users[k] # NoUser \/ k \notin who THEN p.chan[c].users[k] ELSE users[k]
    <3>. SUFFICES ASSUME NEW k \in Nicks
                  PROVE  named[k] = IF p.chan[c].users[k] # NoUser \/ k \notin who THEN p.chan[c].users[k] ELSE users[k]
      OBVIOUS
    <3>1. named[k] = IF p.chan[c].users[k] # NoUser \/ \A n \in who : nick[n] # k THEN p.chan[c].users[k]
                     ELSE users[CHOOSE n \in who : nick[n] = k]
      BY DEF named
    <3>. HIDE DEF nick
    <3>2. CASE k \in who
      <4>1. (CHOOSE n \in who : nick[n] = k) = k
        BY <2>1, <3>2
      <4>. QED  BY <2>1, <3>1, <3>2, <4>1
    <3>3. CASE k \notin who
      BY <2>1, <3>1, <3>3
    <3>. QED  BY <3>2, <3>3
  <2>6. /\ q.users = users /\ q.user = user /\ q.chan = chan
        /\ \A d \in Chans : Tracked(q, d) <=> Tracked(p, d)
    BY <1>10 DEF Tracked
  <2>. HIDE DEF chan, q, nick
  <2>7. ASSUME NEW n \in Nicks, NEW d \in Chans, Tracked(p, d), p.chan[d].users[n] # NoUser
        PROVE  /\ n \notin new /\ users[n] = p.users[n] /\ p.chan[d].users[n] = p.users[n]
               /\ d \in p.user[p.users[n]].channels /\ p.users[n] \in Objects
    BY <1>3, <1>12, <2>7, SoundPicture, ObjectsArePositive
  <2>8. ASSUME NEW n \in Nicks, q.users[n] # NoUser
        PROVE  /\ q.user[q.users[n]].nick = n /\ q.user[q.users[n]].channels # {}
               /\ \A d \in Chans : d \in q.user[q.users[n]].channels => Tracked(q, d) /\ q.chan[d].users[n] = q.users[n]
    <3>1. CASE n \in who
      <4>1. ASSUME NEW d \in Chans, d \in user[users[n]].channels PROVE Tracked(p, d) /\ chan[d].users[n] = users[n]
        <5>1. CASE d = c
          <6>1. CASE p.chan[c].users[n] # NoUser
            <7>1. named[n] = p.chan[c].users[n] /\ p.chan[c].users[n] = p.users[n] /\ users[n] = p.users[n]
              BY <2>5, <2>7, <6>1
            <7>. QED  BY <1>10, <5>1, <7>1
          <6>2. CASE p.chan[c].users[n] = NoUser
            BY <1>10, <2>5, <3>1, <5>1, <6>2
          <6>. QED  BY <6>1, <6>2
        <5>2. CASE d # c
          <6>1. n \notin new /\ d \in p.user[p.users[n]].channels
            BY <2>3, <3>1, <4>1, <5>2
          <6>2. p.users[n] # NoUser /\ users[n] = p.users[n]
            BY <1>3, <3>1, <6>1
          <6>. QED  BY <1>10, <1>12, <5>2, <6>1, <6>2, SoundPicture
        <5>. QED  BY <5>1, <5>2
      <4>. QED  BY <2>3, <2>6, <3>1, <4>1
    <3>2. CASE n \notin who
      <4>1. users[n] = p.users[n] /\ p.users[n] # NoUser /\ user[users[n]] = p.user[p.users[n]]
        BY <2>4, <2>6, <2>8, <3>2
      <4>2. ASSUME NEW d \in Chans, d \in user[users[n]].channels PROVE Tracked(p, d) /\ chan[d].users[n] = users[n]
        <5>1. Tracked(p, d) /\ p.chan[d].users[n] = p.users[n]
          BY <1>12, <4>1, <4>2, SoundPicture
        <5>2. CASE d = c
          BY <1>10, <2>5, <4>1, <5>1, <5>2
        <5>3. CASE d # c
          BY <1>10, <4>1, <5>1, <5>3
        <5>. QED  BY <5>2, <5>3
      <4>. QED  BY <1>12, <2>6, <4>1, <4>2, SoundPicture
    <3>. QED  BY <3>1, <3>2
  <2>9. ASSUME NEW n \in Nicks, NEW d \in Chans, Tracked(q, d), q.chan[d].users[n] # NoUser
        PROVE  q.chan[d].users[n] = q.users[n] /\ d \in q.user[q.users[n]].channels
    <3>1. CASE Tracked(p, d) /\ p.chan[d].users[n] # NoUser
      <4>1. n \notin new /\ users[n] = p.users[n] /\ p.chan[d].users[n] = users[n]
            /\ d \in p.user[users[n]].channels /\ users[n] \in Objects
        BY <2>7, <3>1
      <4>2. d \in user[users[n]].channels
        <5>1. CASE n \in who
          BY <2>3, <4>1, <5>1
        <5>2. CASE n \notin who
          BY <2>4, <4>1, <5>2, ObjectsArePositive
        <5>. QED  BY <5>1, <5>2
      <4>3. chan[d].users[n] = users[n]
        <5>1. CASE d = c
          BY <1>10, <2>5, <3>1, <4>1, <5>1
        <5>2. CASE d # c
          BY <1>10, <4>1, <5>2
        <5>. QED  BY <5>1, <5>2
      <4>. QED  BY <2>6, <4>2, <4>3
    <3>2. CASE ~(Tracked(p, d) /\ p.chan[d].users[n] # NoUser)
      <4>1. d = c
        BY <1>10, <2>6, <2>9, <3>2
      <4>2. n \in who /\ chan[d].users[n] = users[n]
        BY <1>10, <2>5, <2>6, <2>9, <3>2, <4>1
      <4>. QED  BY <2>3, <2>6, <4>1, <4>2
    <3>. QED  BY <3>1, <3>2
  <2>10. q \in Sound
    BY <1>11, <2>8, <2>9, IsSound
  <2>11. Members(q, c) = Members(p, c) \cup who
    <3>1. \A k \in Nicks : q.chan[c].users[k] # NoUser <=> p.chan[c].users[k] # NoUser \/ k \in who
      <4>. SUFFICES ASSUME NEW k \in Nicks
                    PROVE  q.chan[c].users[k] # NoUser <=> p.chan[c].users[k] # NoUser \/ k \in who
        OBVIOUS
      <4>1. q.chan[c].users[k] = named[k]
        BY <1>10, <2>6
      <4>2. k \in who => users[k] # NoUser
        BY <1>4, ObjectsArePositive
      <4>. QED  BY <2>5, <4>1, <4>2
    <3>. QED  BY <3>1 DEF Members
  <2>. QED  BY <2>10, <2>11
<1>13. /\ \A d \in Chans : d # c => q.chan[d] = p.chan[d]
       /\ q.chan[c] = [p.chan[c] EXCEPT !.users = q.chan[c].users]
  <2>. HIDE DEF chan
  <2>. QED  BY <1>10
<1>. HIDE DEF q
<1>. QED  BY <1>1, <1>11, <1>12, <1>13

\* _userpart
LEMMA Parting ==
  ASSUME NEW p \in Pictures, NEW c \in Chans, NEW n \in Nicks
  PROVE  /\ UserPart(p, c, n) \in Pictures
         /\ p \in Sound =>
              /\ UserPart(p, c, n) \in Sound
              /\ UserPart(p, c, n).chan =
                   IF p.users[n] = NoUser \/ ~Tracked(p, c) THEN p.chan
                   ELSE [p.chan EXCEPT ![c] = RemoveUser(p.chan[c], n)]
<1>1. CASE p.users[n] = NoUser
  <2>1. UserPart(p, c, n) = p
    BY <1>1 DEF UserPart
  <2>. QED  BY <1>1, <2>1
<1>2. CASE p.users[n] # NoUser
  <2>. DEFINE i == p.users[n]
              ch == IF Tracked(p, c) THEN RemoveUser(p.chan[c], p.user[i].nick) ELSE p.chan[c]
              left == p.user[i].channels \ {c}
              users == [p.users EXCEPT ![n] = IF p.user[i].channels \subseteq {c} THEN NoUser ELSE i]
              user == [p.user EXCEPT ![i] = [@ EXCEPT !.channels = left]]
              chan == [p.chan EXCEPT ![c] = ch]
              q == [users |-> users, user |-> user, chan |-> chan]
  <2>1. i \in Objects /\ p.user[i] \in User
    BY <1>2, PictureParts
  <2>2. UserPart(p, c, n) = Collected(q)
    <3>1. UserPart(p, c, n) = Collected([p EXCEPT !.chan = chan, !.user = user, !.users = users])
      BY <1>2 DEF UserPart
    <3>. HIDE DEF chan, user, users
    <3>2. [p EXCEPT !.chan = chan, !.user = user, !.users = users] = q
      <4>. DEFINE r == [p EXCEPT !.chan = chan, !.user = user, !.users = users]
      <4>1. r \in [users : {users}, user : {user}, chan : {chan}]
        BY DEF Pictures
      <4>. HIDE DEF r
      <4>2. r = q
        BY <4>1
      <4>. QED  BY <4>2 DEF r
    <3>. QED  BY <3>1, <3>2
  <2>3. ch \in {Untracked} \cup Channel
    BY TrackedOnes, Removing, Zenon
  <2>4. users \in [Nicks -> Objects \cup {NoUser}]
    BY <2>1, PictureParts
  <2>5. /\ user \in [Objects -> User] /\ user[i].nick = p.user[i].nick /\ user[i].channels = left
        /\ \A j \in Objects : j # i => user[j] = p.user[j]
    <3>1. [p.user[i] EXCEPT !.channels = left] \in User
      BY <2>1 DEF User
    <3>2. [p.user[i] EXCEPT !.channels = left].nick = p.user[i].nick /\ [p.user[i] EXCEPT !.channels = left].channels = left
      BY <2>1 DEF User
    <3>. QED  BY <2>1, <3>1, <3>2, PictureParts
  <2>. HIDE DEF ch, user
  <2>6. q \in Pictures
    <3>1. chan \in [Chans -> {Untracked} \cup Channel]
      BY <2>3, PictureParts
    <3>. QED  BY <2>4, <2>5, <3>1, MadePicture
  <2>7. ASSUME p \in Sound
        PROVE  /\ q \in Sound
               /\ q.chan = IF ~Tracked(p, c) THEN p.chan ELSE [p.chan EXCEPT ![c] = RemoveUser(p.chan[c], n)]
    <3>1. p.user[i].nick = n /\ \A m \in Nicks : p.users[m] = i => m = n
      BY <1>2, <2>7, SoundPicture
    <3>2. \A d \in Chans : Tracked(q, d) <=> Tracked(p, d)
      <4>1. Tracked(p, c) => RemoveUser(p.chan[c], p.user[i].nick).tracked = TRUE
        BY TrackedOnes, Removing, ChannelParts, Zenon
      <4>. QED  BY <4>1, PictureParts DEF Tracked, ch
    <3>3. \A d \in Chans : d # c => q.chan[d] = p.chan[d]
      BY PictureParts
    <3>4. Tracked(p, c) => \A m \in Nicks : q.chan[c].users[m] = IF m = n THEN NoUser ELSE p.chan[c].users[m]
      <4>1. Tracked(p, c) => q.chan[c] = RemoveUser(p.chan[c], n)
        BY <3>1, PictureParts DEF ch
      <4>2. Tracked(p, c) => p.chan[c] \in Channel
        BY TrackedOnes
      <4>3. Tracked(p, c) => \A m \in Nicks : RemoveUser(p.chan[c], n).users[m] = IF m = n THEN NoUser ELSE p.chan[c].users[m]
        BY <4>2, Removing, Zenon
      <4>. HIDE DEF q, ch
      <4>. QED  BY <4>1, <4>3
    <3>5. \A m \in Nicks : q.users[m] = IF m = n THEN IF p.user[i].channels \subseteq {c} THEN NoUser ELSE i
                                        ELSE p.users[m]
      BY PictureParts
    <3>6. \A m \in Nicks : m # n /\ p.users[m] # NoUser => q.user[p.users[m]] = p.user[p.users[m]]
      BY <2>5, <2>7, <3>1, SoundPicture
    <3>7. q.user[i].nick = n /\ q.user[i].channels = p.user[i].channels \ {c}
      BY <2>5, <3>1
    <3>8. q.chan = IF ~Tracked(p, c) THEN p.chan ELSE [p.chan EXCEPT ![c] = RemoveUser(p.chan[c], n)]
      BY <3>1, PictureParts DEF ch
    <3>. HIDE DEF q, users, chan
    <3>9. ASSUME NEW m \in Nicks, q.users[m] # NoUser
          PROVE  /\ q.user[q.users[m]].nick = m /\ q.user[q.users[m]].channels # {}
                 /\ \A d \in Chans : d \in q.user[q.users[m]].channels => Tracked(q, d) /\ q.chan[d].users[m] = q.users[m]
      <4>1. CASE m = n
        <5>1. q.users[m] = i /\ ~(p.user[i].channels \subseteq {c})
          BY <3>5, <3>9, <4>1
        <5>2. \A d \in Chans : d \in p.user[i].channels => Tracked(p, d) /\ p.chan[d].users[n] = i
          BY <1>2, <2>7, SoundPicture
        <5>. QED  BY <3>2, <3>3, <3>7, <4>1, <5>1, <5>2
      <4>2. CASE m # n
        <5>1. q.users[m] = p.users[m] /\ p.users[m] # NoUser /\ q.user[q.users[m]] = p.user[p.users[m]]
          BY <3>5, <3>6, <3>9, <4>2
        <5>2. ASSUME NEW d \in Chans, d \in p.user[p.users[m]].channels PROVE Tracked(q, d) /\ q.chan[d].users[m] = p.users[m]
          <6>1. Tracked(p, d) /\ p.chan[d].users[m] = p.users[m]
            BY <2>7, <5>1, <5>2, SoundPicture
          <6>. QED  BY <3>2, <3>3, <3>4, <4>2, <6>1
        <5>. QED  BY <2>7, <5>1, <5>2, SoundPicture
      <4>. QED  BY <4>1, <4>2
    <3>10. ASSUME NEW m \in Nicks, NEW d \in Chans, Tracked(q, d), q.chan[d].users[m] # NoUser
           PROVE  q.chan[d].users[m] = q.users[m] /\ d \in q.user[q.users[m]].channels
      <4>1. Tracked(p, d) /\ q.chan[d].users[m] = p.chan[d].users[m] /\ ~(d = c /\ m = n)
        BY <3>2, <3>3, <3>4, <3>10
      <4>2. p.chan[d].users[m] = p.users[m] /\ d \in p.user[p.users[m]].channels /\ p.users[m] # NoUser
        BY <2>7, <3>10, <4>1, SoundPicture
      <4>3. CASE m = n
        <5>1. d # c /\ q.users[m] = i
          BY <3>5, <4>1, <4>2, <4>3
        <5>. QED  BY <3>7, <4>1, <4>2, <4>3, <5>1
      <4>4. CASE m # n
        BY <3>5, <3>6, <4>1, <4>2, <4>4
      <4>. QED  BY <4>3, <4>4
    <3>11. q \in Sound
      BY <2>6, <3>9, <3>10, IsSound
    <3>. QED  BY <3>8, <3>11
  <2>. HIDE DEF q
  <2>. QED  BY <1>2, <2>2, <2>6, <2>7, Collecting, CollectingIsSound
<1>. QED  BY <1>1, <1>2

\* _userquit
LEMMA Quitting ==
  ASSUME NEW p \in Pictures, NEW n \in Nicks
  PROVE  /\ UserQuit(p, n) \in Pictures
         /\ p \in Sound =>
              /\ UserQuit(p, n) \in Sound
              /\ UserQuit(p, n).chan = [c \in Chans |-> IF Tracked(p, c) /\ n \in Members(p, c)
                                                        THEN RemoveUser(p.chan[c], n) ELSE p.chan[c]]
<1>1. CASE p.users[n] = NoUser
  <2>1. UserQuit(p, n) = p
    BY <1>1 DEF UserQuit
  <2>2. ASSUME p \in Sound
        PROVE  p.chan = [c \in Chans |-> IF Tracked(p, c) /\ n \in Members(p, c)
                                         THEN RemoveUser(p.chan[c], n) ELSE p.chan[c]]
    <3>1. \A c \in Chans : ~(Tracked(p, c) /\ n \in Members(p, c))
      BY <1>1, <2>2, SoundPicture DEF Members
    <3>. QED  BY <3>1, PictureParts
  <2>. QED  BY <2>1, <2>2
<1>2. CASE p.users[n] # NoUser
  <2>. DEFINE i == p.users[n]
              chan == [c \in Chans |-> IF c \in p.user[i].channels /\ Tracked(p, c)
                                       THEN RemoveUser(p.chan[c], p.user[i].nick) ELSE p.chan[c]]
              users == [p.users EXCEPT ![n] = NoUser]
              q == [users |-> users, user |-> p.user, chan |-> chan]
  <2>1. UserQuit(p, n) = Collected(q)
    <3>1. UserQuit(p, n) = Collected([p EXCEPT !.chan = chan, !.users = users])
      BY <1>2 DEF UserQuit
    <3>. HIDE DEF chan, users
    <3>2. [p EXCEPT !.chan = chan, !.users = users] = q
      BY PictureChanged, Zenon
    <3>. QED  BY <3>1, <3>2
  <2>2. chan \in [Chans -> {Untracked} \cup Channel]
    <3>. SUFFICES ASSUME NEW c \in Chans PROVE chan[c] \in {Untracked} \cup Channel
      OBVIOUS
    <3>. QED  BY TrackedOnes, Removing, ZenonT(40)
  <2>3. users \in [Nicks -> Objects \cup {NoUser}]
    BY PictureParts
  <2>4. q \in Pictures
    BY <2>2, <2>3, PictureParts, MadePicture
  <2>5. ASSUME p \in Sound
        PROVE  /\ q \in Sound
               /\ q.chan = [c \in Chans |-> IF Tracked(p, c) /\ n \in Members(p, c)
                                            THEN RemoveUser(p.chan[c], n) ELSE p.chan[c]]
    <3>1. p.user[i].nick = n
      BY <1>2, <2>5, SoundPicture
    <3>2. \A c \in Chans : (c \in p.user[i].channels /\ Tracked(p, c)) <=> (Tracked(p, c) /\ n \in Members(p, c))
      BY <1>2, <2>5, SoundPicture DEF Members
    <3>3. q.chan = [c \in Chans |-> IF Tracked(p, c) /\ n \in Members(p, c)
                                    THEN RemoveUser(p.chan[c], n) ELSE p.chan[c]]
      BY <3>1, <3>2
    <3>4. ASSUME NEW c \in Chans
          PROVE  /\ Tracked(q, c) <=> Tracked(p, c)
                 /\ Tracked(p, c) => \A m \in Nicks : q.chan[c].users[m] = IF m = n THEN NoUser ELSE p.chan[c].users[m]
      <4>1. CASE Tracked(p, c) /\ n \in Members(p, c)
        <5>1. q.chan[c] = RemoveUser(p.chan[c], n) /\ p.chan[c] \in Channel
          BY <3>3, <4>1, TrackedOnes
        <5>2. q.chan[c].tracked = TRUE
          BY <5>1, Removing, ChannelParts, Zenon
        <5>3. \A m \in Nicks : q.chan[c].users[m] = IF m = n THEN NoUser ELSE p.chan[c].users[m]
          <6>1. \A m \in Nicks : RemoveUser(p.chan[c], n).users[m] = IF m = n THEN NoUser ELSE p.chan[c].users[m]
            BY <5>1, Removing, ZenonT(40)
          <6>. HIDE DEF q
          <6>. QED  BY <5>1, <6>1
        <5>. QED  BY <4>1, <5>2, <5>3 DEF Tracked
      <4>2. CASE ~(Tracked(p, c) /\ n \in Members(p, c))
        <5>1. q.chan[c] = p.chan[c]
          BY <3>3, <4>2
        <5>. QED  BY <4>2, <5>1, Zenon DEF Tracked, Members
      <4>. QED  BY <4>1, <4>2, Zenon
    <3>5. /\ q.user = p.user
          /\ \A m \in Nicks : q.users[m] = IF m = n THEN NoUser ELSE p.users[m]
      BY PictureParts
    <3>. HIDE DEF q, users, chan
    <3>6. ASSUME NEW m \in Nicks, q.users[m] # NoUser
          PROVE  /\ q.user[q.users[m]].nick = m /\ q.user[q.users[m]].channels # {}
                 /\ \A d \in Chans : d \in q.user[q.users[m]].channels => Tracked(q, d) /\ q.chan[d].users[m] = q.users[m]
      <4>1. m # n /\ q.users[m] = p.users[m] /\ p.users[m] # NoUser
        BY <3>5, <3>6
      <4>2. ASSUME NEW d \in Chans, d \in p.user[p.users[m]].channels PROVE Tracked(q, d) /\ q.chan[d].users[m] = p.users[m]
        <5>1. Tracked(p, d) /\ p.chan[d].users[m] = p.users[m]
          BY <2>5, <4>1, <4>2, SoundPicture
        <5>. QED  BY <3>4, <4>1, <5>1
      <4>. QED  BY <2>5, <3>5, <4>1, <4>2, SoundPicture
    <3>7. ASSUME NEW m \in Nicks, NEW d \in Chans, Tracked(q, d), q.chan[d].users[m] # NoUser
          PROVE  q.chan[d].users[m] = q.users[m] /\ d \in q.user[q.users[m]].channels
      <4>1. Tracked(p, d) /\ m # n /\ q.chan[d].users[m] = p.chan[d].users[m]
        BY <3>4, <3>7
      <4>. QED  BY <2>5, <3>5, <3>7, <4>1, SoundPicture
    <3>. QED  BY <2>4, <3>3, <3>6, <3>7, IsSound
  <2>. HIDE DEF q
  <2>. QED  BY <1>2, <2>1, <2>4, <2>5, Collecting, CollectingIsSound
<1>. QED  BY <1>1, <1>2

\* _userrename, when it has got to the channels of through.
LEMMA Renamed ==
  ASSUME NEW p \in Pictures, NEW old \in Nicks, NEW new \in Nicks, old # new, p.users[old] # NoUser,
         NEW through \in SUBSET Chans, \A c \in through : Tracked(p, c)
  PROVE  /\ UserRenamed(p, old, new, through) \in Pictures
         /\ UserRenamed(p, old, new, through).chan =
              [c \in Chans |-> IF c \in through THEN ChangeUser(p.chan[c], old, new) ELSE p.chan[c]]
         /\ p \in Sound /\ p.users[new] = NoUser /\ through = p.user[p.users[old]].channels =>
              UserRenamed(p, old, new, through) \in Sound
<1>. DEFINE i == p.users[old]
            users == [p.users EXCEPT ![old] = NoUser, ![new] = i]
            user == [p.user EXCEPT ![i] = [@ EXCEPT !.nick = new]]
            chan == [c \in Chans |-> IF c \in through THEN ChangeUser(p.chan[c], old, new) ELSE p.chan[c]]
            q == [users |-> users, user |-> user, chan |-> chan]
<1>1. UserRenamed(p, old, new, through) = Collected(q)
  BY DEF UserRenamed
<1>2. i \in Objects /\ p.user[i] \in User
  BY PictureParts
<1>3. users \in [Nicks -> Objects \cup {NoUser}]
  BY <1>2, PictureParts
<1>4. /\ user \in [Objects -> User] /\ user[i].nick = new /\ user[i].channels = p.user[i].channels
      /\ \A j \in Objects : j # i => user[j] = p.user[j]
  <2>1. [p.user[i] EXCEPT !.nick = new] \in User
    BY <1>2 DEF User
  <2>2. [p.user[i] EXCEPT !.nick = new].nick = new /\ [p.user[i] EXCEPT !.nick = new].channels = p.user[i].channels
    BY <1>2 DEF User
  <2>. QED  BY <1>2, <2>1, <2>2, PictureParts
<1>5. chan \in [Chans -> {Untracked} \cup Channel]
  <2>. SUFFICES ASSUME NEW c \in Chans PROVE chan[c] \in {Untracked} \cup Channel
    OBVIOUS
  <2>. QED  BY TrackedOnes, Changing
<1>6. q \in Pictures
  BY <1>3, <1>4, <1>5, MadePicture
<1>7. ASSUME p \in Sound, p.users[new] = NoUser, through = p.user[i].channels PROVE q \in Sound
  <2>1. p.user[i].nick = old /\ \A m \in Nicks : p.users[m] = i => m = old
    BY <1>7, SoundPicture
  <2>2. \A c \in Chans : c \in through <=> Tracked(p, c) /\ p.chan[c].users[old] # NoUser
    BY <1>7, SoundPicture
  <2>3. ASSUME NEW c \in Chans
        PROVE  /\ Tracked(q, c) <=> Tracked(p, c)
               /\ Tracked(p, c) => \A m \in Nicks : q.chan[c].users[m] =
                    IF m = old THEN NoUser ELSE IF m = new THEN p.chan[c].users[old] ELSE p.chan[c].users[m]
    <3>1. CASE c \in through
      <4>1. q.chan[c] = ChangeUser(p.chan[c], old, new) /\ p.chan[c] \in Channel /\ p.chan[c].users[old] # NoUser
        BY <2>2, <3>1, TrackedOnes
      <4>2. q.chan[c].tracked = TRUE
        BY <4>1, Changing, ChannelParts
      <4>3. \A m \in Nicks : q.chan[c].users[m] =
                    IF m = old THEN NoUser ELSE IF m = new THEN p.chan[c].users[old] ELSE p.chan[c].users[m]
        <5>1. \A m \in Nicks : ChangeUser(p.chan[c], old, new).users[m] =
                IF m = old THEN NoUser ELSE IF m = new THEN p.chan[c].users[old] ELSE p.chan[c].users[m]
          <6>. DEFINE ch == p.chan[c]
          <6>1. ch \in Channel /\ ch.users[old] # NoUser
            BY <4>1
          <6>. HIDE DEF ch
          <6>2. \A m \in Nicks : ChangeUser(ch, old, new).users[m] =
                  IF m = old THEN NoUser ELSE IF m = new THEN ch.users[old] ELSE ch.users[m]
            BY <6>1, Changing
          <6>. QED  BY <6>2 DEF ch
        <5>. HIDE DEF q
        <5>. QED  BY <4>1, <5>1
      <4>. QED  BY <3>1, <4>2, <4>3 DEF Tracked
    <3>2. CASE c \notin through
      <4>1. q.chan[c] = p.chan[c]
        BY <3>2
      <4>2. Tracked(p, c) => p.chan[c].users[old] = NoUser /\ p.chan[c].users[new] = NoUser
        BY <1>7, <2>2, <3>2, SoundPicture
      <4>. QED  BY <4>1, <4>2 DEF Tracked
    <3>. QED  BY <3>1, <3>2
  <2>4. \A m \in Nicks : q.users[m] = IF m = old THEN NoUser ELSE IF m = new THEN i ELSE p.users[m]
    BY PictureParts
  <2>5. q.user[i].nick = new /\ q.user[i].channels = p.user[i].channels
        /\ \A j \in Objects : j # i => q.user[j] = p.user[j]
    BY <1>4
  <2>. HIDE DEF q, users, user, chan
  <2>6. ASSUME NEW m \in Nicks, q.users[m] # NoUser
        PROVE  /\ q.user[q.users[m]].nick = m /\ q.user[q.users[m]].channels # {}
               /\ \A d \in Chans : d \in q.user[q.users[m]].channels => Tracked(q, d) /\ q.chan[d].users[m] = q.users[m]
    <3>1. CASE m = new
      <4>1. ASSUME NEW d \in Chans, d \in p.user[i].channels PROVE Tracked(q, d) /\ q.chan[d].users[new] = i
        <5>1. Tracked(p, d) /\ p.chan[d].users[old] = i
          BY <1>7, <4>1, SoundPicture
        <5>. QED  BY <2>3, <5>1
      <4>2. q.users[m] = i /\ q.user[i].nick = new /\ q.user[i].channels = p.user[i].channels
        BY <2>4, <2>5, <3>1
      <4>3. p.user[i].channels # {}
        BY <1>7, SoundPicture
      <4>. QED  BY <3>1, <4>1, <4>2, <4>3
    <3>2. CASE m # new
      <4>1. m # old /\ q.users[m] = p.users[m] /\ p.users[m] # NoUser /\ p.users[m] # i
        BY <2>1, <2>4, <2>6, <3>2
      <4>2. p.users[m] \in Objects /\ q.user[p.users[m]] = p.user[p.users[m]]
        BY <1>7, <2>5, <4>1, SoundPicture
      <4>3. ASSUME NEW d \in Chans, d \in p.user[p.users[m]].channels PROVE Tracked(q, d) /\ q.chan[d].users[m] = p.users[m]
        <5>1. Tracked(p, d) /\ p.chan[d].users[m] = p.users[m]
          BY <1>7, <4>1, <4>3, SoundPicture
        <5>. QED  BY <2>3, <3>2, <4>1, <5>1
      <4>. QED  BY <1>7, <4>1, <4>2, <4>3, SoundPicture
    <3>. QED  BY <3>1, <3>2
  <2>7. ASSUME NEW m \in Nicks, NEW d \in Chans, Tracked(q, d), q.chan[d].users[m] # NoUser
        PROVE  q.chan[d].users[m] = q.users[m] /\ d \in q.user[q.users[m]].channels
    <3>1. CASE m = new
      <4>1. Tracked(p, d) /\ q.chan[d].users[m] = p.chan[d].users[old]
        BY <2>3, <2>7, <3>1
      <4>2. p.chan[d].users[old] = i /\ d \in p.user[i].channels
        BY <1>7, <2>7, <4>1, SoundPicture
      <4>3. q.users[m] = i /\ q.user[i].channels = p.user[i].channels
        BY <2>4, <2>5, <3>1
      <4>. QED  BY <4>1, <4>2, <4>3
    <3>2. CASE m # new
      <4>1. Tracked(p, d) /\ m # old /\ q.chan[d].users[m] = p.chan[d].users[m]
        BY <2>3, <2>7, <3>2
      <4>2. p.chan[d].users[m] = p.users[m] /\ d \in p.user[p.users[m]].channels /\ p.users[m] # NoUser
            /\ p.users[m] \in Objects
        BY <1>7, <2>7, <4>1, SoundPicture
      <4>. QED  BY <2>1, <2>4, <2>5, <3>2, <4>1, <4>2
    <3>. QED  BY <3>1, <3>2
  <2>. QED  BY <1>6, <2>6, <2>7, IsSound
<1>8. q.chan = chan
  OBVIOUS
<1>. HIDE DEF q
<1>. QED  BY <1>1, <1>6, <1>7, <1>8, Collecting, CollectingIsSound

\* What leaves users alone in a channel's record.
LEMMA Updating ==
  ASSUME NEW p \in Pictures, NEW c \in Chans, Tracked(p, c), NEW ch \in Channel, ch.users = p.chan[c].users,
         NEW q, q = [users |-> p.users, user |-> p.user, chan |-> [p.chan EXCEPT ![c] = ch]]
  PROVE  /\ q \in Pictures /\ q.chan = [p.chan EXCEPT ![c] = ch]
         /\ p \in Sound => q \in Sound
<1>1. [p.chan EXCEPT ![c] = ch] \in [Chans -> {Untracked} \cup Channel]
  BY PictureParts
<1>2. q \in Pictures
  BY <1>1, PictureParts, MadePicture
<1>3. \A d \in Chans : q.chan[d] = IF d = c THEN ch ELSE p.chan[d]
  BY PictureParts
<1>4. \A d \in Chans : Tracked(q, d) = Tracked(p, d) /\ (Tracked(p, d) => q.chan[d].users = p.chan[d].users)
  BY <1>3, ChannelParts, Zenon DEF Tracked
<1>5. q.users = p.users /\ q.user = p.user
  OBVIOUS
<1>. QED  BY <1>2, <1>4, <1>5, SameUsers, ZenonT(40)

\* A picture with one record changed.
LEMMA RecordChanged ==
  ASSUME NEW p \in Pictures, NEW c \in Chans, NEW ch
  PROVE  [p EXCEPT !.chan = [p.chan EXCEPT ![c] = ch]]
           = [users |-> p.users, user |-> p.user, chan |-> [p.chan EXCEPT ![c] = ch]]
<1>. DEFINE chan == [p.chan EXCEPT ![c] = ch]
            q == [p EXCEPT !.chan = chan]
<1>. HIDE DEF chan
<1>1. q \in [users : {p.users}, user : {p.user}, chan : {chan}]
  BY DEF Pictures
<1>. HIDE DEF q
<1>2. q = [users |-> p.users, user |-> p.user, chan |-> chan]
  BY <1>1
<1>. QED  BY <1>2 DEF q, chan

\* _modechange, _addbans, _settopic: what each does to the record of a tracked channel
Ranked(ch, on, mode, n) ==
  LET Set(S) == IF on THEN S \cup {n} ELSE S \ {n}
  IN IF mode \in OpModes THEN [ch EXCEPT !.ops = Set(ch.ops)]
     ELSE IF mode \in VoiceModes THEN [ch EXCEPT !.voices = Set(ch.voices)] ELSE ch
Flagged(ch, added, removed, reset) ==
  [ch EXCEPT !.flags = ((IF reset THEN {} ELSE ch.flags) \cup added) \ removed]
Banned(ch, on, mask) == [ch EXCEPT !.bans = IF on THEN ch.bans \cup {mask} ELSE ch.bans \ {mask}]

LEMMA Ranking ==
  ASSUME NEW p \in Pictures, NEW c \in Chans, NEW on \in BOOLEAN, NEW mode, NEW n \in Nicks
  PROVE  /\ RankChange(p, c, on, mode, n) \in Pictures
         /\ RankChange(p, c, on, mode, n).chan =
              IF Tracked(p, c) THEN [p.chan EXCEPT ![c] = Ranked(p.chan[c], on, mode, n)] ELSE p.chan
         /\ p \in Sound => RankChange(p, c, on, mode, n) \in Sound
<1>1. CASE ~Tracked(p, c)
  BY <1>1 DEF RankChange
<1>2. CASE Tracked(p, c)
  <2>. DEFINE ch == Ranked(p.chan[c], on, mode, n)
              q == RankChange(p, c, on, mode, n)
  <2>1. p.chan[c] \in Channel
    BY <1>2, TrackedOnes
  <2>2. ch \in Channel /\ ch.users = p.chan[c].users
    BY <2>1 DEF Ranked, Channel
  <2>3. q = [users |-> p.users, user |-> p.user, chan |-> [p.chan EXCEPT ![c] = ch]]
    <3>1. CASE mode \in OpModes
      <4>1. q = [p EXCEPT !.chan = [p.chan EXCEPT ![c] = ch]]
        BY <1>2, <3>1 DEF RankChange, Ranked
      <4>. QED  BY <4>1, RecordChanged
    <3>2. CASE mode \notin OpModes /\ mode \in VoiceModes
      <4>1. q = [p EXCEPT !.chan = [p.chan EXCEPT ![c] = ch]]
        BY <1>2, <3>2 DEF RankChange, Ranked
      <4>. QED  BY <4>1, RecordChanged
    <3>3. CASE mode \notin OpModes /\ mode \notin VoiceModes
      <4>1. q = p /\ ch = p.chan[c]
        BY <1>2, <3>3 DEF RankChange, Ranked
      <4>2. [p.chan EXCEPT ![c] = ch] = p.chan
        BY <4>1, PictureParts
      <4>. HIDE DEF ch, q
      <4>. QED  BY <4>1, <4>2, PictureParts
    <3>. QED  BY <3>1, <3>2, <3>3
  <2>. HIDE DEF q, ch
  <2>4. q \in Pictures /\ q.chan = [p.chan EXCEPT ![c] = ch] /\ (p \in Sound => q \in Sound)
    BY <1>2, <2>2, <2>3, Updating
  <2>. QED  BY <1>2, <2>4 DEF q, ch
<1>. QED  BY <1>1, <1>2

LEMMA Flagging ==
  ASSUME NEW p \in Pictures, NEW c \in Chans, NEW added \in SUBSET {"m"}, NEW removed, NEW reset
  PROVE  /\ FlagsChange(p, c, added, removed, reset) \in Pictures
         /\ FlagsChange(p, c, added, removed, reset).chan =
              IF Tracked(p, c) THEN [p.chan EXCEPT ![c] = Flagged(p.chan[c], added, removed, reset)] ELSE p.chan
         /\ p \in Sound => FlagsChange(p, c, added, removed, reset) \in Sound
<1>1. CASE ~Tracked(p, c)
  BY <1>1 DEF FlagsChange
<1>2. CASE Tracked(p, c)
  <2>. DEFINE ch == Flagged(p.chan[c], added, removed, reset)
              q == FlagsChange(p, c, added, removed, reset)
  <2>1. p.chan[c] \in Channel
    BY <1>2, TrackedOnes
  <2>2. ch \in Channel /\ ch.users = p.chan[c].users
    BY <2>1 DEF Flagged, Channel
  <2>3. q = [p EXCEPT !.chan = [p.chan EXCEPT ![c] = ch]]
    BY <1>2 DEF FlagsChange, Flagged
  <2>. HIDE DEF q, ch
  <2>4. q = [users |-> p.users, user |-> p.user, chan |-> [p.chan EXCEPT ![c] = ch]]
    BY <2>3, RecordChanged
  <2>5. q \in Pictures /\ q.chan = [p.chan EXCEPT ![c] = ch] /\ (p \in Sound => q \in Sound)
    BY <1>2, <2>2, <2>4, Updating
  <2>. QED  BY <1>2, <2>5 DEF q, ch
<1>. QED  BY <1>1, <1>2

LEMMA Banning ==
  ASSUME NEW p \in Pictures, NEW c \in Chans, NEW on \in BOOLEAN
  PROVE  /\ BanChange(p, c, on, "mask") \in Pictures
         /\ BanChange(p, c, on, "mask").chan =
              IF Tracked(p, c) THEN [p.chan EXCEPT ![c] = Banned(p.chan[c], on, "mask")] ELSE p.chan
         /\ p \in Sound => BanChange(p, c, on, "mask") \in Sound
<1>1. CASE ~Tracked(p, c)
  BY <1>1 DEF BanChange
<1>2. CASE Tracked(p, c)
  <2>. DEFINE ch == Banned(p.chan[c], on, "mask")
              q == BanChange(p, c, on, "mask")
  <2>1. p.chan[c] \in Channel
    BY <1>2, TrackedOnes
  <2>2. ch \in Channel /\ ch.users = p.chan[c].users
    BY <2>1 DEF Banned, Channel
  <2>3. q = [p EXCEPT !.chan = [p.chan EXCEPT ![c] = ch]]
    BY <1>2 DEF BanChange, Banned
  <2>. HIDE DEF q, ch
  <2>4. q = [users |-> p.users, user |-> p.user, chan |-> [p.chan EXCEPT ![c] = ch]]
    BY <2>3, RecordChanged
  <2>5. q \in Pictures /\ q.chan = [p.chan EXCEPT ![c] = ch] /\ (p \in Sound => q \in Sound)
    BY <1>2, <2>2, <2>4, Updating
  <2>. QED  BY <1>2, <2>5 DEF q, ch
<1>. QED  BY <1>1, <1>2

LEMMA ListingBans ==
  ASSUME NEW p \in Pictures, NEW c \in Chans, NEW masks \in SUBSET {"mask"}
  PROVE  /\ AddBans(p, c, masks) \in Pictures
         /\ AddBans(p, c, masks).chan =
              IF Tracked(p, c) THEN [p.chan EXCEPT ![c] = [p.chan[c] EXCEPT !.bans = masks]] ELSE p.chan
         /\ p \in Sound => AddBans(p, c, masks) \in Sound
<1>1. CASE ~Tracked(p, c)
  BY <1>1 DEF AddBans
<1>2. CASE Tracked(p, c)
  <2>. DEFINE ch == [p.chan[c] EXCEPT !.bans = masks]
              q == AddBans(p, c, masks)
  <2>1. p.chan[c] \in Channel
    BY <1>2, TrackedOnes
  <2>2. ch \in Channel /\ ch.users = p.chan[c].users
    BY <2>1 DEF Channel
  <2>3. q = [p EXCEPT !.chan = [p.chan EXCEPT ![c] = ch]]
    BY <1>2 DEF AddBans
  <2>. HIDE DEF q, ch
  <2>4. q = [users |-> p.users, user |-> p.user, chan |-> [p.chan EXCEPT ![c] = ch]]
    BY <2>3, RecordChanged
  <2>5. q \in Pictures /\ q.chan = [p.chan EXCEPT ![c] = ch] /\ (p \in Sound => q \in Sound)
    BY <1>2, <2>2, <2>4, Updating
  <2>. QED  BY <1>2, <2>5 DEF q, ch
<1>. QED  BY <1>1, <1>2

LEMMA SettingTopic ==
  ASSUME NEW p \in Pictures, NEW c \in Chans, NEW t \in Topics
  PROVE  /\ SetTopic(p, c, t) \in Pictures
         /\ SetTopic(p, c, t).chan =
              IF Tracked(p, c) THEN [p.chan EXCEPT ![c] = [p.chan[c] EXCEPT !.topic = t]] ELSE p.chan
         /\ p \in Sound => SetTopic(p, c, t) \in Sound
<1>1. CASE ~Tracked(p, c)
  BY <1>1 DEF SetTopic
<1>2. CASE Tracked(p, c)
  <2>. DEFINE ch == [p.chan[c] EXCEPT !.topic = t]
              q == SetTopic(p, c, t)
  <2>1. p.chan[c] \in Channel
    BY <1>2, TrackedOnes
  <2>2. ch \in Channel /\ ch.users = p.chan[c].users
    BY <2>1 DEF Channel
  <2>3. q = [p EXCEPT !.chan = [p.chan EXCEPT ![c] = ch]]
    BY <1>2 DEF SetTopic
  <2>. HIDE DEF q, ch
  <2>4. q = [users |-> p.users, user |-> p.user, chan |-> [p.chan EXCEPT ![c] = ch]]
    BY <2>3, RecordChanged
  <2>5. q \in Pictures /\ q.chan = [p.chan EXCEPT ![c] = ch] /\ (p \in Sound => q \in Sound)
    BY <1>2, <2>2, <2>4, Updating
  <2>. QED  BY <1>2, <2>5 DEF q, ch
<1>. QED  BY <1>1, <1>2

\* _addusers
Entries == [nick : Nicks, shown : RankModes \cup {"none"}]
Showing(list, modes) == {e.nick : e \in {x \in list : x.shown \in modes}}
LEMMA ListingUsers ==
  ASSUME NEW p \in Pictures, NEW c \in Chans, NEW list \in SUBSET Entries, Tracked(p, c)
  PROVE  LET q == AddUsers(p, c, list) IN
         /\ q \in Pictures
         /\ \A d \in Chans : d # c => q.chan[d] = p.chan[d]
         /\ q.chan[c] \in Channel
         /\ q.chan[c].ops = p.chan[c].ops \cup Showing(list, OpModes)
         /\ q.chan[c].voices = p.chan[c].voices \cup Showing(list, VoiceModes)
         /\ q.chan[c].bans = p.chan[c].bans /\ q.chan[c].flags = p.chan[c].flags
         /\ p \in Sound => /\ q \in Sound
                           /\ Members(q, c) = Members(p, c) \cup {e.nick : e \in list}
<1>. DEFINE who == {e.nick : e \in list}
            joined == UsersJoin(p, c, who)
            jc == joined.chan[c]
            ch == [jc EXCEPT !.ops = jc.ops \cup Showing(list, OpModes),
                             !.voices = jc.voices \cup Showing(list, VoiceModes)]
            q == AddUsers(p, c, list)
<1>1. who \in SUBSET Nicks /\ Showing(list, OpModes) \subseteq Nicks /\ Showing(list, VoiceModes) \subseteq Nicks
  BY DEF Entries, Showing
<1>. HIDE DEF who
<1>2. /\ joined \in Pictures /\ \A d \in Chans : d # c => joined.chan[d] = p.chan[d]
      /\ jc = [p.chan[c] EXCEPT !.users = jc.users]
      /\ p \in Sound => joined \in Sound /\ Members(joined, c) = Members(p, c) \cup who
  BY <1>1, UsersJoining
<1>. HIDE DEF joined
<1>3. p.chan[c] \in Channel
  BY TrackedOnes
<1>4. jc.tracked = TRUE /\ jc.ops = p.chan[c].ops /\ jc.voices = p.chan[c].voices
      /\ jc.bans = p.chan[c].bans /\ jc.flags = p.chan[c].flags
  <2>. HIDE DEF jc
  <2>. QED  BY <1>2, <1>3 DEF Channel
<1>5. Tracked(joined, c) /\ jc \in Channel
  BY <1>2, <1>4, TrackedOnes DEF Tracked
<1>. HIDE DEF jc
<1>6. /\ ch \in Channel /\ ch.users = jc.users /\ ch.ops = jc.ops \cup Showing(list, OpModes)
      /\ ch.voices = jc.voices \cup Showing(list, VoiceModes) /\ ch.bans = jc.bans /\ ch.flags = jc.flags
  BY <1>1, <1>5 DEF Channel
<1>7. q = [joined EXCEPT !.chan = [joined.chan EXCEPT ![c] = ch]]
  BY DEF AddUsers, Showing, joined, who, jc
<1>. HIDE DEF ch, q
<1>8. q = [users |-> joined.users, user |-> joined.user, chan |-> [joined.chan EXCEPT ![c] = ch]]
  BY <1>2, <1>7, RecordChanged
<1>9. ch.users = joined.chan[c].users
  BY <1>6 DEF jc
<1>10. q \in Pictures /\ q.chan = [joined.chan EXCEPT ![c] = ch] /\ (joined \in Sound => q \in Sound)
  BY <1>2, <1>5, <1>6, <1>8, <1>9, Updating
<1>11. q.chan[c] = ch /\ \A d \in Chans : d # c => q.chan[d] = joined.chan[d]
  BY <1>2, <1>10, PictureParts
<1>12. Members(q, c) = Members(joined, c)
  BY <1>9, <1>11 DEF Members
<1>. QED  BY <1>2, <1>4, <1>6, <1>10, <1>11, <1>12 DEF q, who

----------------------------------------------------------------------------
(* What is on its way.  A chain Q leads from s over the messages of q into M: *)
(* each message takes a member of S to the next.                              *)

Leads(S, H, s, q, M) ==
  \E Q \in [1..(Len(q) + 1) -> S] :
    /\ Q[1] = s
    /\ \A k \in 1..Len(q) : H[<<q[k], Q[k]>>] = Q[k + 1]
    /\ Q[Len(q) + 1] \in M

LEMMA LeadsStart ==
  ASSUME NEW S, NEW H, NEW s \in S, NEW M, s \in M
  PROVE  Leads(S, H, s, <<>>, M)
<1>. DEFINE Q == [k \in 1..1 |-> s]
<1>1. Q \in [1..(Len(<<>>) + 1) -> S] /\ Q[1] = s /\ Len(<<>>) = 0
  OBVIOUS
<1>. HIDE DEF Q
<1>2. Q[Len(<<>>) + 1] \in M /\ \A k \in 1..Len(<<>>) : H[<<(<<>>)[k], Q[k]>>] = Q[k + 1]
  BY <1>1
<1>. QED  BY <1>1, <1>2 DEF Leads

LEMMA LeadsEnd ==
  ASSUME NEW S, NEW H, NEW s, NEW q, NEW M, Leads(S, H, s, q, M), Len(q) \in Nat
  PROVE  s \in S /\ (q = <<>> => s \in M)
BY DEF Leads

LEMMA LeadsWider ==
  ASSUME NEW S, NEW H, NEW s, NEW q, NEW M, NEW N, M \subseteq N, Leads(S, H, s, q, M)
  PROVE  Leads(S, H, s, q, N)
BY DEF Leads

LEMMA LeadsFurther ==
  ASSUME NEW S, NEW H, NEW s, NEW L, NEW q \in Seq(L), NEW M, NEW N, NEW m \in L,
         Leads(S, H, s, q, M), \A x \in S : x \in M => H[<<m, x>>] \in S /\ H[<<m, x>>] \in N
  PROVE  Leads(S, H, s, Append(q, m), N)
<1>1. PICK Q \in [1..(Len(q) + 1) -> S] : /\ Q[1] = s
                                          /\ \A k \in 1..Len(q) : H[<<q[k], Q[k]>>] = Q[k + 1]
                                          /\ Q[Len(q) + 1] \in M
  BY DEF Leads
<1>. DEFINE r == Append(q, m)
            n == Len(q)
            last == H[<<m, Q[n + 1]>>]
            R == [k \in 1..(n + 2) |-> IF k = n + 2 THEN last ELSE Q[k]]
<1>2. n \in Nat /\ Len(r) = n + 1 /\ r[n + 1] = m /\ \A k \in 1..n : r[k] = q[k]
  OBVIOUS
<1>3. Q[n + 1] \in S /\ last \in S /\ last \in N
  BY <1>1, <1>2
<1>. HIDE DEF last, r, n
<1>4. R \in [1..(n + 2) -> S]
  BY <1>1, <1>2, <1>3 DEF n
<1>5. R[1] = s /\ R[n + 2] = last /\ \A k \in 1..(n + 1) : R[k] = Q[k]
  BY <1>1, <1>2
<1>. HIDE DEF R
<1>6. ASSUME NEW k \in 1..(n + 1) PROVE H[<<r[k], R[k]>>] = R[k + 1]
  <2>1. CASE k = n + 1
    BY <1>2, <1>5, <2>1 DEF last
  <2>2. CASE k # n + 1
    <3>1. k \in 1..n /\ k + 1 \in 1..(n + 1)
      BY <1>2, <2>2
    <3>2. r[k] = q[k] /\ R[k] = Q[k] /\ R[k + 1] = Q[k + 1] /\ H[<<q[k], Q[k]>>] = Q[k + 1]
      BY <1>1, <1>2, <1>5, <3>1 DEF n
    <3>. QED  BY <3>2
  <2>. QED  BY <2>1, <2>2
<1>7. Len(r) + 1 = n + 2 /\ 1..Len(r) = 1..(n + 1)
  BY <1>2
<1>. QED  BY <1>3, <1>4, <1>5, <1>6, <1>7 DEF Leads, r

LEMMA LeadsOn ==
  ASSUME NEW S, NEW H, NEW s, NEW L, NEW q \in Seq(L), q # <<>>, NEW M, Leads(S, H, s, q, M)
  PROVE  Leads(S, H, H[<<Head(q), s>>], Tail(q), M)
<1>1. PICK Q \in [1..(Len(q) + 1) -> S] : /\ Q[1] = s
                                          /\ \A k \in 1..Len(q) : H[<<q[k], Q[k]>>] = Q[k + 1]
                                          /\ Q[Len(q) + 1] \in M
  BY DEF Leads
<1>. DEFINE r == Tail(q)
            n == Len(q)
            R == [k \in 1..n |-> Q[k + 1]]
<1>2. n \in Nat /\ n >= 1 /\ Len(r) = n - 1 /\ q[1] = Head(q) /\ \A k \in 1..(n - 1) : r[k] = q[k + 1]
  OBVIOUS
<1>. HIDE DEF r, n
<1>3. R \in [1..n -> S]
  BY <1>1, <1>2 DEF n
<1>4. \A k \in 1..n : R[k] = Q[k + 1]
  OBVIOUS
<1>. HIDE DEF R
<1>5. R[1] = H[<<Head(q), s>>] /\ R[n] \in M
  BY <1>1, <1>2, <1>4 DEF n
<1>6. ASSUME NEW k \in 1..(n - 1) PROVE H[<<r[k], R[k]>>] = R[k + 1]
  <2>1. k \in 1..n /\ k + 1 \in 1..n
    BY <1>2
  <2>2. r[k] = q[k + 1] /\ R[k] = Q[k + 1] /\ R[k + 1] = Q[k + 1 + 1] /\ H[<<q[k + 1], Q[k + 1]>>] = Q[k + 1 + 1]
    BY <1>1, <1>2, <1>4, <2>1 DEF n
  <2>. QED  BY <2>2
<1>7. Len(r) + 1 = n /\ 1..Len(r) = 1..(n - 1)
  BY <1>2
<1>. QED  BY <1>3, <1>5, <1>6, <1>7 DEF Leads, r

LEMMA Bursts ==
  ASSUME NEW L, NEW q \in Seq(L), NEW a \in L
  PROVE  /\ q \o <<>> = q /\ q \o <<a>> = Append(q, a) /\ q \o (<<a>> \o <<>>) = Append(q, a)
         /\ Append(q, a) \in Seq(L)
         /\ \A b, d \in L : q \o (<<a>> \o <<b, d>>) = Append(Append(Append(q, a), b), d)
OBVIOUS

----------------------------------------------------------------------------
(* Messages, and what each makes of the picture and of the accounts.       *)

JoinLine == [cmd : {"JOIN"}, nick : Nicks, chan : Chans, acct : Accounts \cup {NoAccount}]
LeaveLine == [cmd : {"PART", "KICK"}, nick : Nicks, chan : Chans]
QuitLine == [cmd : {"QUIT"}, nick : Nicks]
NickLine == {m \in [cmd : {"NICK"}, nick : Nicks, new : Nicks] : m.nick # m.new}
AccountLine == [cmd : {"ACCOUNT"}, nick : Nicks, acct : Accounts \cup {NoAccount}]
RankLine == [cmd : {"MODE"}, chan : Chans, on : BOOLEAN, mode : RankModes, nick : Nicks]
FlagLine == [cmd : {"MODE"}, chan : Chans, on : BOOLEAN, mode : {"m", "b"}]
FlagsLine == [cmd : {"MODEIS"}, chan : Chans, flags : SUBSET {"m"}]
NamesLine == [cmd : {"NAMES"}, chan : Chans, list : SUBSET Entries]
BansLine == [cmd : {"BANS"}, chan : Chans, bans : SUBSET {"mask"}]
TopicLine == [cmd : {"TOPIC", "NEWTOPIC"}, chan : Chans, topic : Topics]
Line == JoinLine \cup LeaveLine \cup QuitLine \cup NickLine \cup AccountLine \cup RankLine
          \cup FlagLine \cup FlagsLine \cup NamesLine \cup BansLine \cup TopicLine

LEMMA LineFacts ==
  ASSUME NEW m \in Line
  PROVE  /\ m.cmd = "JOIN" => m \in JoinLine
         /\ m.cmd \in {"PART", "KICK"} => m \in LeaveLine
         /\ m.cmd = "QUIT" => m \in QuitLine
         /\ m.cmd = "NICK" => m \in NickLine
         /\ m.cmd = "ACCOUNT" => m \in AccountLine
         /\ m.cmd = "MODE" /\ m.mode \in {"m", "b"} => m \in FlagLine
         /\ m.cmd = "MODE" /\ m.mode \notin {"m", "b"} => m \in RankLine
         /\ m.cmd = "MODEIS" => m \in FlagsLine
         /\ m.cmd = "NAMES" => m \in NamesLine
         /\ m.cmd = "BANS" => m \in BansLine
         /\ m.cmd \in {"TOPIC", "NEWTOPIC"} => m \in TopicLine
<1>1. /\ m \in JoinLine => m.cmd = "JOIN"
      /\ m \in LeaveLine => m.cmd \in {"PART", "KICK"}
      /\ m \in QuitLine => m.cmd = "QUIT"
  BY DEF JoinLine, LeaveLine, QuitLine
<1>2. /\ m \in NickLine => m.cmd = "NICK"
      /\ m \in AccountLine => m.cmd = "ACCOUNT"
      /\ m \in FlagsLine => m.cmd = "MODEIS"
  BY DEF NickLine, AccountLine, FlagsLine
<1>3. /\ m \in NamesLine => m.cmd = "NAMES"
      /\ m \in BansLine => m.cmd = "BANS"
      /\ m \in TopicLine => m.cmd \in {"TOPIC", "NEWTOPIC"}
  BY DEF NamesLine, BansLine, TopicLine
<1>4. m \in RankLine => m.cmd = "MODE" /\ m.mode \notin {"m", "b"}
  BY NickAssumption DEF RankLine, RankModes
<1>5. m \in FlagLine => m.cmd = "MODE" /\ m.mode \in {"m", "b"}
  BY DEF FlagLine
<1>6. \/ m \in JoinLine \/ m \in LeaveLine \/ m \in QuitLine \/ m \in NickLine \/ m \in AccountLine
      \/ m \in RankLine \/ m \in FlagLine \/ m \in FlagsLine \/ m \in NamesLine \/ m \in BansLine
      \/ m \in TopicLine
  BY DEF Line
<1>. QED  BY <1>1, <1>2, <1>3, <1>4, <1>5, <1>6

\* what a handler makes of the picture, me being the bot's nick
Pictured(me, p, m) ==
  CASE m.cmd = "JOIN" -> IF m.nick = me THEN JoinChannel(p, m.chan) ELSE UserJoin(p, m.chan, m.nick)
    [] m.cmd \in {"PART", "KICK"} -> IF m.nick = me THEN NukeChannel(p, m.chan)
                                     ELSE UserPart(p, m.chan, m.nick)
    [] m.cmd = "QUIT" -> UserQuit(p, m.nick)
    [] m.cmd = "NICK" -> IF p.users[m.nick] = NoUser THEN p
                         ELSE UserRenamed(p, m.nick, m.new, p.user[p.users[m.nick]].channels)
    [] m.cmd = "MODE" /\ m.mode = "m" -> FlagsChange(p, m.chan, IF m.on THEN {"m"} ELSE {},
                                                     IF m.on THEN {} ELSE {"m"}, FALSE)
    [] m.cmd = "MODE" /\ m.mode = "b" -> BanChange(p, m.chan, m.on, "mask")
    [] m.cmd = "MODE" /\ m.mode \notin {"m", "b"} -> RankChange(p, m.chan, m.on, m.mode, m.nick)
    [] m.cmd = "MODEIS" -> FlagsChange(p, m.chan, m.flags, {}, TRUE)
    [] m.cmd = "NAMES" -> AddUsers(p, m.chan, m.list)
    [] m.cmd = "BANS" -> AddBans(p, m.chan, m.bans)
    [] m.cmd = "TOPIC" -> SetTopic(p, m.chan, m.topic)
    [] OTHER -> p
Heard(me) == [e \in Line \X Sound |-> Pictured(me, e[2], e[1])]

LEMMA HeardIs ==
  ASSUME NEW me, NEW p \in Sound, NEW m \in Line
  PROVE  Heard(me)[<<m, p>>] = Pictured(me, p, m)
BY DEF Heard

\* what it makes of the accounts
Recalled(a, m) ==
  CASE m.cmd = "JOIN" -> IF m.acct = NoAccount THEN a ELSE [a EXCEPT ![m.nick] = m.acct]
    [] m.cmd = "QUIT" -> [a EXCEPT ![m.nick] = NoAccount]
    [] m.cmd = "NICK" -> IF a[m.nick] = NoAccount THEN a
                         ELSE [a EXCEPT ![m.nick] = NoAccount, ![m.new] = a[m.nick]]
    [] m.cmd = "ACCOUNT" -> [a EXCEPT ![m.nick] = m.acct]
    [] OTHER -> a
Memories == [Nicks -> Accounts \cup {NoAccount}]
Recall == [e \in Line \X Memories |-> Recalled(e[2], e[1])]

LEMMA RecallIs ==
  ASSUME NEW a \in Memories, NEW m \in Line
  PROVE  Recall[<<m, a>>] = Recalled(a, m) /\ Recalled(a, m) \in Memories
<1>1. Recall[<<m, a>>] = Recalled(a, m)
  BY DEF Recall
<1>2. CASE m.cmd = "JOIN"
  <2>1. m.nick \in Nicks /\ m.acct \in Accounts \cup {NoAccount}
    BY <1>2, LineFacts DEF JoinLine
  <2>2. Recalled(a, m) = IF m.acct = NoAccount THEN a ELSE [a EXCEPT ![m.nick] = m.acct]
    BY <1>2 DEF Recalled
  <2>. QED  BY <1>1, <2>1, <2>2 DEF Memories
<1>3. CASE m.cmd = "QUIT"
  <2>1. Recalled(a, m) = [a EXCEPT ![m.nick] = NoAccount]
    BY <1>3 DEF Recalled
  <2>. QED  BY <1>1, <2>1 DEF Memories
<1>4. CASE m.cmd = "NICK"
  <2>1. m.nick \in Nicks /\ m.new \in Nicks
    BY <1>4, LineFacts DEF NickLine
  <2>2. Recalled(a, m) = IF a[m.nick] = NoAccount THEN a
                         ELSE [a EXCEPT ![m.nick] = NoAccount, ![m.new] = a[m.nick]]
    BY <1>4 DEF Recalled
  <2>. QED  BY <1>1, <2>1, <2>2 DEF Memories
<1>5. CASE m.cmd = "ACCOUNT"
  <2>1. m.nick \in Nicks /\ m.acct \in Accounts \cup {NoAccount}
    BY <1>5, LineFacts DEF AccountLine
  <2>2. Recalled(a, m) = [a EXCEPT ![m.nick] = m.acct]
    BY <1>5 DEF Recalled
  <2>. QED  BY <1>1, <2>1, <2>2 DEF Memories
<1>6. CASE m.cmd \notin {"JOIN", "QUIT", "NICK", "ACCOUNT"}
  <2>1. Recalled(a, m) = a
    BY <1>6 DEF Recalled
  <2>. QED  BY <1>1, <2>1
<1>. QED  BY <1>1, <1>2, <1>3, <1>4, <1>5, <1>6

\* _userrename of a sound picture goes through, and leaves it sound if nobody has the nick.
LEMMA Renaming ==
  ASSUME NEW p \in Pictures, NEW old \in Nicks, NEW new \in Nicks, old # new
  PROVE  /\ UserRename(p, old, new) \subseteq Pictures
         /\ RenameRaises(p, old) \in BOOLEAN
         /\ p \in Sound =>
              /\ UserRename(p, old, new) = {IF p.users[old] = NoUser THEN p
                                            ELSE UserRenamed(p, old, new, p.user[p.users[old]].channels)}
              /\ ~RenameRaises(p, old)
<1>1. CASE p.users[old] = NoUser
  BY <1>1 DEF UserRename, RenameRaises
<1>2. CASE p.users[old] # NoUser
  <2>. DEFINE its == p.user[p.users[old]].channels
              known == {c \in its : Tracked(p, c)}
  <2>1. its \subseteq Chans
    BY <1>2, PictureParts, UserParts
  <2>2. \A through \in SUBSET known : UserRenamed(p, old, new, through) \in Pictures
    <3>. SUFFICES ASSUME NEW through \in SUBSET known PROVE UserRenamed(p, old, new, through) \in Pictures
      OBVIOUS
    <3>1. through \in SUBSET Chans /\ \A c \in through : Tracked(p, c)
      BY <2>1
    <3>. QED  BY <1>2, <3>1, Renamed
  <2>3. UserRename(p, old, new) = IF known = its THEN {UserRenamed(p, old, new, its)}
                                  ELSE {UserRenamed(p, old, new, through) : through \in SUBSET known}
    BY <1>2 DEF UserRename
  <2>4. p \in Sound => known = its
    BY <1>2, SoundPicture
  <2>5. p \in Sound => ~RenameRaises(p, old)
    BY <1>2, SoundPicture DEF RenameRaises
  <2>6. RenameRaises(p, old) \in BOOLEAN
    BY DEF RenameRaises
  <2>. HIDE DEF its, known
  <2>7. UserRename(p, old, new) \subseteq Pictures
    BY <2>2, <2>3
  <2>. QED  BY <1>2, <2>3, <2>4, <2>5, <2>6, <2>7 DEF its
<1>. QED  BY <1>1, <1>2

LEMMA PicturedIs ==
  ASSUME NEW me, NEW p, NEW m
  PROVE  /\ m.cmd = "JOIN" => Pictured(me, p, m) = IF m.nick = me THEN JoinChannel(p, m.chan)
                                                   ELSE UserJoin(p, m.chan, m.nick)
         /\ m.cmd \in {"PART", "KICK"} => Pictured(me, p, m) = IF m.nick = me THEN NukeChannel(p, m.chan)
                                                               ELSE UserPart(p, m.chan, m.nick)
         /\ m.cmd = "QUIT" => Pictured(me, p, m) = UserQuit(p, m.nick)
         /\ m.cmd = "NICK" => Pictured(me, p, m) = IF p.users[m.nick] = NoUser THEN p
              ELSE UserRenamed(p, m.nick, m.new, p.user[p.users[m.nick]].channels)
         /\ m.cmd = "MODE" /\ m.mode = "m" =>
              Pictured(me, p, m) = FlagsChange(p, m.chan, IF m.on THEN {"m"} ELSE {},
                                               IF m.on THEN {} ELSE {"m"}, FALSE)
         /\ m.cmd = "MODE" /\ m.mode = "b" => Pictured(me, p, m) = BanChange(p, m.chan, m.on, "mask")
         /\ m.cmd = "MODE" /\ m.mode \notin {"m", "b"} =>
              Pictured(me, p, m) = RankChange(p, m.chan, m.on, m.mode, m.nick)
         /\ m.cmd = "MODEIS" => Pictured(me, p, m) = FlagsChange(p, m.chan, m.flags, {}, TRUE)
         /\ m.cmd = "NAMES" => Pictured(me, p, m) = AddUsers(p, m.chan, m.list)
         /\ m.cmd = "BANS" => Pictured(me, p, m) = AddBans(p, m.chan, m.bans)
         /\ m.cmd = "TOPIC" => Pictured(me, p, m) = SetTopic(p, m.chan, m.topic)
         /\ m.cmd \in {"NEWTOPIC", "ACCOUNT"} => Pictured(me, p, m) = p
<1>1. m.cmd = "JOIN" => Pictured(me, p, m) = IF m.nick = me THEN JoinChannel(p, m.chan)
                                             ELSE UserJoin(p, m.chan, m.nick)
  BY DEF Pictured
<1>2. m.cmd \in {"PART", "KICK"} => Pictured(me, p, m) = IF m.nick = me THEN NukeChannel(p, m.chan)
                                                         ELSE UserPart(p, m.chan, m.nick)
  BY DEF Pictured
<1>3. m.cmd = "QUIT" => Pictured(me, p, m) = UserQuit(p, m.nick)
  BY DEF Pictured
<1>4. m.cmd = "NICK" => Pictured(me, p, m) = IF p.users[m.nick] = NoUser THEN p
        ELSE UserRenamed(p, m.nick, m.new, p.user[p.users[m.nick]].channels)
  BY DEF Pictured
<1>5. m.cmd = "MODE" /\ m.mode = "m" =>
        Pictured(me, p, m) = FlagsChange(p, m.chan, IF m.on THEN {"m"} ELSE {},
                                         IF m.on THEN {} ELSE {"m"}, FALSE)
  BY DEF Pictured
<1>6. m.cmd = "MODE" /\ m.mode = "b" => Pictured(me, p, m) = BanChange(p, m.chan, m.on, "mask")
  BY DEF Pictured
<1>7. m.cmd = "MODE" /\ m.mode \notin {"m", "b"} =>
        Pictured(me, p, m) = RankChange(p, m.chan, m.on, m.mode, m.nick)
  BY DEF Pictured
<1>8. m.cmd = "MODEIS" => Pictured(me, p, m) = FlagsChange(p, m.chan, m.flags, {}, TRUE)
  BY DEF Pictured
<1>9. m.cmd = "NAMES" => Pictured(me, p, m) = AddUsers(p, m.chan, m.list)
  BY DEF Pictured
<1>10. m.cmd = "BANS" => Pictured(me, p, m) = AddBans(p, m.chan, m.bans)
  BY DEF Pictured
<1>11. m.cmd = "TOPIC" => Pictured(me, p, m) = SetTopic(p, m.chan, m.topic)
  BY DEF Pictured
<1>12. m.cmd \in {"NEWTOPIC", "ACCOUNT"} => Pictured(me, p, m) = p
  BY DEF Pictured
<1>. QED
  BY <1>1, <1>2, <1>3, <1>4, <1>5, <1>6, <1>7, <1>8, <1>9, <1>10, <1>11, <1>12

LEMMA RecalledIs ==
  ASSUME NEW a, NEW m
  PROVE  /\ m.cmd = "JOIN" => Recalled(a, m) = IF m.acct = NoAccount THEN a ELSE [a EXCEPT ![m.nick] = m.acct]
         /\ m.cmd = "QUIT" => Recalled(a, m) = [a EXCEPT ![m.nick] = NoAccount]
         /\ m.cmd = "NICK" => Recalled(a, m) = IF a[m.nick] = NoAccount THEN a
                                ELSE [a EXCEPT ![m.nick] = NoAccount, ![m.new] = a[m.nick]]
         /\ m.cmd = "ACCOUNT" => Recalled(a, m) = [a EXCEPT ![m.nick] = m.acct]
         /\ m.cmd \notin {"JOIN", "QUIT", "NICK", "ACCOUNT"} => Recalled(a, m) = a
<1>1. m.cmd = "JOIN" => Recalled(a, m) = IF m.acct = NoAccount THEN a ELSE [a EXCEPT ![m.nick] = m.acct]
  BY DEF Recalled
<1>2. m.cmd = "QUIT" => Recalled(a, m) = [a EXCEPT ![m.nick] = NoAccount]
  BY DEF Recalled
<1>3. m.cmd = "NICK" => Recalled(a, m) = IF a[m.nick] = NoAccount THEN a
                                ELSE [a EXCEPT ![m.nick] = NoAccount, ![m.new] = a[m.nick]]
  BY DEF Recalled
<1>4. m.cmd = "ACCOUNT" => Recalled(a, m) = [a EXCEPT ![m.nick] = m.acct]
  BY DEF Recalled
<1>5. m.cmd \notin {"JOIN", "QUIT", "NICK", "ACCOUNT"} => Recalled(a, m) = a
  BY DEF Recalled
<1>. QED  BY <1>1, <1>2, <1>3, <1>4, <1>5

\* _userjoin of one user
LEMMA UserJoining ==
  ASSUME NEW p \in Pictures, NEW c \in Chans, NEW n \in Nicks
  PROVE  /\ UserJoin(p, c, n) \in Pictures
         /\ \A d \in Chans : d # c => UserJoin(p, c, n).chan[d] = p.chan[d]
         /\ Tracked(p, c) => UserJoin(p, c, n).chan[c] = [p.chan[c] EXCEPT !.users = UserJoin(p, c, n).chan[c].users]
         /\ ~Tracked(p, c) => UserJoin(p, c, n) = p
         /\ p \in Sound => /\ UserJoin(p, c, n) \in Sound
                           /\ Tracked(p, c) => Members(UserJoin(p, c, n), c) = Members(p, c) \cup {n}
<1>1. CASE ~Tracked(p, c)
  <2>1. UserJoin(p, c, n) = p
    BY <1>1, Zenon DEF UserJoin, UsersJoin
  <2>. QED  BY <1>1, <2>1
<1>2. CASE Tracked(p, c)
  <2>. DEFINE who == {n}
  <2>1. who \in SUBSET Nicks /\ UserJoin(p, c, n) = UsersJoin(p, c, who)
    BY DEF UserJoin
  <2>. HIDE DEF who
  <2>2. /\ UsersJoin(p, c, who) \in Pictures
        /\ \A d \in Chans : d # c => UsersJoin(p, c, who).chan[d] = p.chan[d]
        /\ UsersJoin(p, c, who).chan[c] = [p.chan[c] EXCEPT !.users = UsersJoin(p, c, who).chan[c].users]
        /\ p \in Sound => /\ UsersJoin(p, c, who) \in Sound
                          /\ Members(UsersJoin(p, c, who), c) = Members(p, c) \cup who
    BY <1>2, <2>1, UsersJoining
  <2>. QED  BY <1>2, <2>1, <2>2 DEF who
<1>. QED  BY <1>1, <1>2

LEMMA AddingUsers ==
  ASSUME NEW p \in Pictures, NEW c \in Chans, NEW list \in SUBSET Entries
  PROVE  /\ AddUsers(p, c, list) \in Pictures
         /\ ~Tracked(p, c) => AddUsers(p, c, list) = p
<1>1. CASE ~Tracked(p, c)
  BY <1>1 DEF AddUsers
<1>2. CASE Tracked(p, c)
  BY <1>2, ListingUsers
<1>. QED  BY <1>1, <1>2

\* What every handler does: it takes the first message, applies it to the picture and the
\* accounts, and leaves the network alone.
LEMMA Handling ==
  ASSUME wire \in Seq(Line), pic \in Pictures, accounts \in Memories, raised \in BOOLEAN, Handler
  PROVE  /\ wire # <<>> /\ Head(wire) \in Line /\ wire' = Tail(wire)
         /\ pic' \in Pictures /\ accounts' = Recalled(accounts, Head(wire)) /\ raised' \in BOOLEAN
         /\ asks \subseteq asks' /\ asks' \subseteq asks \cup ({"MODEIS"} \X Chans)
         /\ Head(wire).cmd = "JOIN" /\ Head(wire).nick = nickname => <<"MODEIS", Head(wire).chan>> \in asks'
         /\ nickname' \in {nickname} \cup Nicks
         /\ pic \in Sound /\ ~(Head(wire).cmd = "NICK" /\ Head(wire).nick = nickname) =>
              pic' = Pictured(nickname, pic, Head(wire)) /\ raised' = raised /\ nickname' = nickname
         /\ UNCHANGED <<peopleVars, chanVars, concern, events, renamed, lost>>
<1>. DEFINE m == Head(wire)
<1>1. wire # <<>> /\ wire' = Tail(wire) /\ UNCHANGED <<peopleVars, chanVars, concern, events, renamed, lost>>
  BY DEF Handler, Receives, irc_JOIN, irc_PART, irc_KICK, irc_QUIT, irc_NICK, irc_ACCOUNT, irc_MODE,
         irc_RPL_CHANNELMODEIS, irc_RPL_NAMREPLY, irc_RPL_ENDOFBANLIST, irc_RPL_TOPIC, irc_TOPIC
<1>2. m \in Line
  BY <1>1
<1>3. Msg = m
  BY DEF Msg
<1>. DEFINE Told == /\ pic' \in Pictures /\ accounts' = Recalled(accounts, m) /\ raised' \in BOOLEAN
                    /\ asks \subseteq asks' /\ asks' \subseteq asks \cup ({"MODEIS"} \X Chans)
                    /\ m.cmd = "JOIN" /\ m.nick = nickname => <<"MODEIS", m.chan>> \in asks'
                    /\ nickname' \in {nickname} \cup Nicks
                    /\ pic \in Sound /\ ~(m.cmd = "NICK" /\ m.nick = nickname) =>
                         pic' = Pictured(nickname, pic, m) /\ raised' = raised /\ nickname' = nickname
<1>. HIDE DEF m
<1>4. ASSUME irc_JOIN PROVE Told
  <2>1. m.cmd = "JOIN" /\ nickname' = nickname /\ raised' = raised
    BY <1>3, <1>4 DEF irc_JOIN, Receives
  <2>2. m.nick \in Nicks /\ m.chan \in Chans /\ m.acct \in Accounts \cup {NoAccount}
    BY <1>2, <2>1, LineFacts DEF JoinLine
  <2>3. accounts' = Recalled(accounts, m)
    BY <1>3, <1>4, <2>1, RecalledIs DEF irc_JOIN
  <2>4. CASE m.nick = nickname
    <3>1. pic' = JoinChannel(pic, m.chan) /\ asks' = asks \cup {<<"MODEIS", m.chan>>}
      BY <1>3, <1>4, <2>4 DEF irc_JOIN
    <3>2. pic' \in Pictures /\ pic' = Pictured(nickname, pic, m)
      BY <2>1, <2>2, <2>4, <3>1, Joining, PicturedIs, Zenon
    <3>. QED  BY <2>1, <2>2, <2>3, <3>1, <3>2
  <2>5. CASE m.nick # nickname
    <3>1. pic' = UserJoin(pic, m.chan, m.nick) /\ asks' = asks
      BY <1>3, <1>4, <2>5 DEF irc_JOIN
    <3>2. pic' \in Pictures /\ pic' = Pictured(nickname, pic, m)
      BY <2>1, <2>2, <2>5, <3>1, UserJoining DEF Pictured
    <3>. QED  BY <2>1, <2>3, <2>5, <3>1, <3>2
  <2>. QED  BY <2>4, <2>5
<1>5. ASSUME irc_PART \/ irc_KICK PROVE Told
  <2>1. /\ m.cmd \in {"PART", "KICK"} /\ nickname' = nickname /\ raised' = raised /\ asks' = asks
        /\ accounts' = accounts /\ pic' = Left(m.chan, m.nick)
    BY <1>3, <1>5 DEF irc_PART, irc_KICK, Receives
  <2>2. m.nick \in Nicks /\ m.chan \in Chans
    BY <1>2, <2>1, LineFacts DEF LeaveLine
  <2>3. accounts' = Recalled(accounts, m)
    BY <2>1, RecalledIs
  <2>4. pic' = Pictured(nickname, pic, m)
    BY <2>1 DEF Left, Pictured
  <2>5. pic' \in Pictures
    BY <2>1, <2>2, Nuking, Parting DEF Left
  <2>. QED  BY <2>1, <2>3, <2>4, <2>5, Zenon
<1>6. ASSUME irc_QUIT PROVE Told
  <2>1. /\ m.cmd = "QUIT" /\ nickname' = nickname /\ raised' = raised /\ asks' = asks
        /\ accounts' = [accounts EXCEPT ![m.nick] = NoAccount] /\ pic' = UserQuit(pic, m.nick)
    BY <1>3, <1>6 DEF irc_QUIT, Receives
  <2>2. m.nick \in Nicks
    BY <1>2, <2>1, LineFacts DEF QuitLine
  <2>3. accounts' = Recalled(accounts, m) /\ pic' = Pictured(nickname, pic, m)
    BY <2>1 DEF Recalled, Pictured
  <2>4. pic' \in Pictures
    BY <2>1, <2>2, Quitting
  <2>. QED  BY <2>1, <2>3, <2>4
<1>7. ASSUME irc_NICK PROVE Told
  <2>1. m.cmd = "NICK" /\ asks' = asks /\ accounts' = AccountsRenamed(m.nick, m.new)
    BY <1>3, <1>7 DEF irc_NICK
  <2>2. m.nick \in Nicks /\ m.new \in Nicks /\ m.nick # m.new
    BY <1>2, <2>1, LineFacts DEF NickLine
  <2>3. accounts' = Recalled(accounts, m)
    BY <2>1, RecalledIs DEF AccountsRenamed
  <2>4. CASE m.nick = nickname
    <3>1. nickname' = m.new /\ pic' = pic /\ raised' = raised
      BY <1>3, <1>7, <2>4 DEF irc_NICK
    <3>. QED  BY <2>1, <2>2, <2>3, <2>4, <3>1
  <2>5. CASE m.nick # nickname
    <3>1. /\ nickname' = nickname /\ pic' \in UserRename(pic, m.nick, m.new)
          /\ raised' = (raised \/ RenameRaises(pic, m.nick))
      BY <1>3, <1>7, <2>5 DEF irc_NICK
    <3>2. pic' \in Pictures /\ raised' \in BOOLEAN
      BY <2>2, <3>1, Renaming
    <3>3. pic \in Sound => pic' = Pictured(nickname, pic, m) /\ raised' = raised
      BY <2>1, <2>2, <3>1, Renaming DEF Pictured
    <3>. QED  BY <2>1, <2>3, <3>1, <3>2, <3>3
  <2>. QED  BY <2>4, <2>5
<1>8. ASSUME irc_ACCOUNT PROVE Told
  <2>1. /\ m.cmd = "ACCOUNT" /\ nickname' = nickname /\ raised' = raised /\ asks' = asks
        /\ accounts' = [accounts EXCEPT ![m.nick] = m.acct] /\ pic' = pic
    BY <1>3, <1>8 DEF irc_ACCOUNT, Receives
  <2>2. accounts' = Recalled(accounts, m) /\ pic' = Pictured(nickname, pic, m)
    BY <2>1 DEF Recalled, Pictured
  <2>. QED  BY <2>1, <2>2, Zenon
<1>9. ASSUME irc_MODE PROVE Told
  <2>1. /\ m.cmd = "MODE" /\ nickname' = nickname /\ raised' = raised /\ asks' = asks /\ accounts' = accounts
        /\ pic' = CASE m.mode = "m" -> FlagsChange(pic, m.chan, IF m.on THEN {"m"} ELSE {},
                                                   IF m.on THEN {} ELSE {"m"}, FALSE)
                    [] m.mode = "b" -> BanChange(pic, m.chan, m.on, "mask")
                    [] OTHER -> RankChange(pic, m.chan, m.on, m.mode, m.nick)
    BY <1>3, <1>9 DEF irc_MODE, Receives
  <2>2. accounts' = Recalled(accounts, m)
    BY <2>1, RecalledIs
  <2>3. CASE m.mode = "m"
    <3>1. m.chan \in Chans
      BY <1>2, <2>1, <2>3, LineFacts DEF FlagLine
    <3>2. pic' = FlagsChange(pic, m.chan, IF m.on THEN {"m"} ELSE {}, IF m.on THEN {} ELSE {"m"}, FALSE)
      BY <2>1, <2>3
    <3>3. pic' = Pictured(nickname, pic, m)
      BY <2>1, <2>3, <3>2 DEF Pictured
    <3>4. (IF m.on THEN {"m"} ELSE {}) \in SUBSET {"m"}
      OBVIOUS
    <3>5. pic' \in Pictures
      BY <3>1, <3>2, <3>4, Flagging
    <3>. QED  BY <2>1, <2>2, <3>3, <3>5, Zenon
  <2>4. CASE m.mode = "b"
    <3>1. m.chan \in Chans /\ m.on \in BOOLEAN
      BY <1>2, <2>1, <2>4, LineFacts DEF FlagLine
    <3>2. pic' = BanChange(pic, m.chan, m.on, "mask")
      BY <2>1, <2>4
    <3>3. pic' = Pictured(nickname, pic, m)
      BY <2>1, <2>4, <3>2 DEF Pictured
    <3>4. pic' \in Pictures
      BY <3>1, <3>2, Banning
    <3>. QED  BY <2>1, <2>2, <3>3, <3>4
  <2>5. CASE m.mode \notin {"m", "b"}
    <3>1. m.chan \in Chans /\ m.on \in BOOLEAN /\ m.nick \in Nicks
      BY <1>2, <2>1, <2>5, LineFacts DEF RankLine
    <3>2. pic' = RankChange(pic, m.chan, m.on, m.mode, m.nick)
      BY <2>1, <2>5
    <3>3. pic' = Pictured(nickname, pic, m)
      BY <2>1, <2>5, <3>2 DEF Pictured
    <3>4. pic' \in Pictures
      BY <3>1, <3>2, Ranking
    <3>. QED  BY <2>1, <2>2, <3>3, <3>4
  <2>. QED  BY <2>3, <2>4, <2>5
<1>10. ASSUME irc_RPL_CHANNELMODEIS PROVE Told
  <2>1. /\ m.cmd = "MODEIS" /\ nickname' = nickname /\ raised' = raised /\ asks' = asks
        /\ accounts' = accounts /\ pic' = FlagsChange(pic, m.chan, m.flags, {}, TRUE)
    BY <1>3, <1>10 DEF irc_RPL_CHANNELMODEIS, Receives
  <2>2. m.chan \in Chans /\ m.flags \in SUBSET {"m"}
    BY <1>2, <2>1, LineFacts DEF FlagsLine
  <2>3. accounts' = Recalled(accounts, m) /\ pic' = Pictured(nickname, pic, m)
    BY <2>1 DEF Recalled, Pictured
  <2>4. pic' \in Pictures
    BY <2>1, <2>2, Flagging
  <2>. QED  BY <2>1, <2>3, <2>4, Zenon
<1>11. ASSUME irc_RPL_NAMREPLY PROVE Told
  <2>1. /\ m.cmd = "NAMES" /\ nickname' = nickname /\ raised' = raised /\ asks' = asks
        /\ accounts' = accounts /\ pic' = AddUsers(pic, m.chan, m.list)
    BY <1>3, <1>11 DEF irc_RPL_NAMREPLY, Receives
  <2>2. m.chan \in Chans /\ m.list \in SUBSET Entries
    BY <1>2, <2>1, LineFacts DEF NamesLine
  <2>3. accounts' = Recalled(accounts, m) /\ pic' = Pictured(nickname, pic, m)
    BY <2>1 DEF Recalled, Pictured
  <2>4. pic' \in Pictures
    BY <2>1, <2>2, AddingUsers
  <2>. QED  BY <2>1, <2>3, <2>4, Zenon
<1>12. ASSUME irc_RPL_ENDOFBANLIST PROVE Told
  <2>1. /\ m.cmd = "BANS" /\ nickname' = nickname /\ raised' = raised /\ asks' = asks
        /\ accounts' = accounts /\ pic' = AddBans(pic, m.chan, m.bans)
    BY <1>3, <1>12 DEF irc_RPL_ENDOFBANLIST, Receives
  <2>2. m.chan \in Chans /\ m.bans \in SUBSET {"mask"}
    BY <1>2, <2>1, LineFacts DEF BansLine
  <2>3. accounts' = Recalled(accounts, m) /\ pic' = Pictured(nickname, pic, m)
    BY <2>1 DEF Recalled, Pictured
  <2>4. pic' \in Pictures
    BY <2>1, <2>2, ListingBans
  <2>. QED  BY <2>1, <2>3, <2>4, Zenon
<1>13. ASSUME irc_RPL_TOPIC PROVE Told
  <2>1. /\ m.cmd = "TOPIC" /\ nickname' = nickname /\ raised' = raised /\ asks' = asks
        /\ accounts' = accounts /\ pic' = SetTopic(pic, m.chan, m.topic)
    BY <1>3, <1>13 DEF irc_RPL_TOPIC, Receives
  <2>2. m.chan \in Chans /\ m.topic \in Topics
    BY <1>2, <2>1, LineFacts DEF TopicLine
  <2>3. accounts' = Recalled(accounts, m) /\ pic' = Pictured(nickname, pic, m)
    BY <2>1 DEF Recalled, Pictured
  <2>4. pic' \in Pictures
    BY <2>1, <2>2, SettingTopic
  <2>. QED  BY <2>1, <2>3, <2>4, Zenon
<1>14. ASSUME irc_TOPIC PROVE Told
  <2>1. /\ m.cmd = "NEWTOPIC" /\ nickname' = nickname /\ raised' = raised /\ asks' = asks
        /\ accounts' = accounts /\ pic' = pic
    BY <1>3, <1>14 DEF irc_TOPIC, Receives
  <2>2. accounts' = Recalled(accounts, m) /\ pic' = Pictured(nickname, pic, m)
    BY <2>1 DEF Recalled, Pictured
  <2>. QED  BY <2>1, <2>2, Zenon
<1>15. Told
  <2>. HIDE DEF Told
  <2>. QED
    BY <1>4, <1>5, <1>6, <1>7, <1>8, <1>9, <1>10, <1>11, <1>12, <1>13, <1>14 DEF Handler
<1>. QED  BY <1>1, <1>2, <1>15 DEF m

----------------------------------------------------------------------------
(* The invariant.                                                          *)

Users(ch) == {n \in Nicks : ch.users[n] # NoUser}

\* a network whose only rank of operator is one mode (@): a channel's ops are those who hold it
OneOp == \A m, k \in OpModes : m = k

HeldBy(c, modes) == {nickOf[u] : u \in {v \in member[c] : \E m \in modes : <<v, m>> \in ranks[c]}}

\* the bot is told of its own JOIN, and asks for the channel's modes when it hears of it
Rejoins(q, me, c) == \E k \in 1..Len(q) : q[k].cmd = "JOIN" /\ q[k].nick = me /\ q[k].chan = c
Settled(c) == <<"MODEIS", c>> \notin asks /\ ~Rejoins(wire, nickOf[Bot], c)

\* the records of c, and the pictures, that are true of the network
Right(c) ==
  IF ~Here(c) THEN {Untracked}
  ELSE {ch \in Channel :
          /\ Users(ch) = NicksIn(member[c])
          /\ OneOp => ch.ops = HeldBy(c, OpModes)
          /\ ch.voices \subseteq HeldBy(c, VoiceModes) /\ ch.bans \subseteq bans[c]
          /\ Settled(c) => ch.flags = flags[c]}
Mirrors == {p \in Sound : \A c \in Chans : p.chan[c] \in Right(c)}

\* the accounts that are true of who is in sight
Holders(n) == {u \in Others : Seen(u) /\ nickOf[u] = n}
Remembered == {a \in Memories : \A n \in Nicks \ lost : a[n] \in {NoAccount} \cup {account[u] : u \in Holders(n)}}

\* messages that are not of the bot's own change of nick
LineTo(me) == {m \in Line : m.cmd = "NICK" => m.nick # me}

PeopleInv ==
  /\ \A u, v \in People : On(u) /\ nickOf[u] = nickOf[v] => u = v
  /\ \A c \in Chans : \A u \in member[c] : On(u)
  /\ \A c \in Chans : \A r \in ranks[c] : r[1] \in member[c]
  /\ account[Bot] = NoAccount
  /\ ~On(Bot) => wire = <<>> /\ nickname = Off /\ pic = Empty

\* Once the bot has heard what is on its way its picture is true of the network.
PictureInv ==
  ~renamed => /\ ~raised /\ nickname = nickOf[Bot] /\ wire \in Seq(LineTo(nickOf[Bot]))
              /\ Leads(Sound, Heard(nickOf[Bot]), pic, wire, Mirrors)

\* Then the accounts it remembers are true of who is in sight.
AccountInv == On(Bot) => Leads(Memories, Recall, accounts, wire, Remembered)

NetworkInv == NetworkTyped /\ wire \in Seq(Line) /\ PeopleInv /\ PictureInv /\ AccountInv

----------------------------------------------------------------------------
LEMMA EmptyIsSound == Empty \in Sound /\ \A c \in Chans : Empty.chan[c] = Untracked
<1>1. [n \in Nicks |-> NoUser] \in [Nicks -> Objects \cup {NoUser}]
  OBVIOUS
<1>2. [i \in Objects |-> NoObject] \in [Objects -> User]
  BY DEF NoObject, User
<1>3. Empty \in Pictures
  <2>1. [c \in Chans |-> Untracked] \in [Chans -> {Untracked} \cup Channel]
    OBVIOUS
  <2>. QED  BY <1>1, <1>2, <2>1, MadePicture DEF Empty
<1>4. /\ \A n \in Nicks : Empty.users[n] = NoUser
      /\ \A c \in Chans : Empty.chan[c] = Untracked
  BY DEF Empty
<1>5. \A c \in Chans : ~Tracked(Empty, c)
  BY <1>4 DEF Tracked, Untracked
<1>. QED  BY <1>3, <1>4, <1>5, IsSound

LEMMA RejoinsStill ==
  ASSUME NEW q \in Seq(Line), NEW m \in Line, NEW me, NEW c
  PROVE  /\ Rejoins(q, me, c) => Rejoins(Append(q, m), me, c)
         /\ m.cmd = "JOIN" /\ m.nick = me /\ m.chan = c => Rejoins(Append(q, m), me, c)
         /\ q # <<>> /\ Rejoins(q, me, c) =>
              \/ Rejoins(Tail(q), me, c)
              \/ Head(q).cmd = "JOIN" /\ Head(q).nick = me /\ Head(q).chan = c
<1>1. Len(q) \in Nat /\ Len(Append(q, m)) = Len(q) + 1
      /\ Append(q, m)[Len(q) + 1] = m /\ \A k \in 1..Len(q) : Append(q, m)[k] = q[k]
  OBVIOUS
<1>2. ASSUME Rejoins(q, me, c) PROVE Rejoins(Append(q, m), me, c)
  <2>1. PICK k \in 1..Len(q) : q[k].cmd = "JOIN" /\ q[k].nick = me /\ q[k].chan = c
    BY <1>2 DEF Rejoins
  <2>2. k \in 1..(Len(q) + 1) /\ Append(q, m)[k] = q[k]
    BY <1>1
  <2>. DEFINE r == Append(q, m)
  <2>3. Len(r) = Len(q) + 1
    BY <1>1
  <2>4. k \in 1..Len(r) /\ r[k].cmd = "JOIN" /\ r[k].nick = me /\ r[k].chan = c
    BY <2>1, <2>2, <2>3
  <2>. HIDE DEF r
  <2>5. Rejoins(r, me, c)
    BY <2>4 DEF Rejoins
  <2>. QED  BY <2>5 DEF r
<1>3. ASSUME m.cmd = "JOIN", m.nick = me, m.chan = c PROVE Rejoins(Append(q, m), me, c)
  <2>. DEFINE r == Append(q, m)
  <2>1. Len(r) \in Nat /\ Len(r) >= 1 /\ r[Len(r)] = m
    BY <1>1
  <2>. HIDE DEF r
  <2>2. Len(r) \in 1..Len(r)
    BY <2>1
  <2>3. Rejoins(r, me, c)
    BY <1>3, <2>1, <2>2 DEF Rejoins
  <2>. QED  BY <2>3 DEF r
<1>4. ASSUME q # <<>>, Rejoins(q, me, c)
      PROVE  \/ Rejoins(Tail(q), me, c)
             \/ Head(q).cmd = "JOIN" /\ Head(q).nick = me /\ Head(q).chan = c
  <2>1. PICK k \in 1..Len(q) : q[k].cmd = "JOIN" /\ q[k].nick = me /\ q[k].chan = c
    BY <1>4 DEF Rejoins
  <2>2. CASE k = 1
    BY <1>4, <2>1, <2>2
  <2>3. CASE k # 1
    <3>. DEFINE r == Tail(q)
    <3>1. Len(r) = Len(q) - 1 /\ k - 1 \in 1..Len(r) /\ r[k - 1] = q[k]
      BY <1>1, <1>4, <2>3
    <3>. HIDE DEF r
    <3>2. Rejoins(r, me, c)
      BY <2>1, <3>1 DEF Rejoins
    <3>. QED  BY <3>2 DEF r
  <2>. QED  BY <2>2, <2>3
<1>. QED  BY <1>2, <1>3, <1>4

\* What a picture that is true of the network says of a channel.
LEMMA MirrorParts ==
  ASSUME NEW p \in Mirrors, NEW c \in Chans
  PROVE  /\ p \in Sound /\ p \in Pictures
         /\ ~Here(c) => ~Tracked(p, c) /\ p.chan[c] = Untracked
         /\ Here(c) => /\ Tracked(p, c) /\ p.chan[c] \in Channel
                       /\ Users(p.chan[c]) = NicksIn(member[c]) /\ Members(p, c) = NicksIn(member[c])
                       /\ OneOp => p.chan[c].ops = HeldBy(c, OpModes)
                       /\ p.chan[c].voices \subseteq HeldBy(c, VoiceModes)
                       /\ p.chan[c].bans \subseteq bans[c]
                       /\ Settled(c) => p.chan[c].flags = flags[c]
<1>1. p \in Sound /\ p \in Pictures /\ p.chan[c] \in Right(c)
  BY DEF Mirrors, Sound
<1>2. ASSUME ~Here(c) PROVE ~Tracked(p, c) /\ p.chan[c] = Untracked
  <2>1. p.chan[c] = Untracked
    BY <1>1, <1>2 DEF Right
  <2>. QED  BY <2>1, NewOne DEF Tracked
<1>3. ASSUME Here(c) PROVE Tracked(p, c) /\ p.chan[c] \in Channel /\ Members(p, c) = Users(p.chan[c])
  <2>1. p.chan[c] \in Channel
    BY <1>1, <1>3 DEF Right
  <2>. QED  BY <2>1, ChannelParts DEF Tracked, Members, Users
<1>. QED  BY <1>1, <1>2, <1>3 DEF Right

\* Nothing the bot should know of channel d happens.
LEMMA SameChannel ==
  ASSUME NEW d \in Chans, Here(d)' = Here(d),
         Here(d) => /\ NicksIn(member[d])' = NicksIn(member[d])
                    /\ HeldBy(d, OpModes)' = HeldBy(d, OpModes)
                    /\ HeldBy(d, VoiceModes)' = HeldBy(d, VoiceModes)
                    /\ bans'[d] = bans[d] /\ flags'[d] = flags[d]
                    /\ Settled(d)' => Settled(d)
  PROVE  Right(d) \subseteq Right(d)'
<1>1. CASE ~Here(d)
  BY <1>1 DEF Right
<1>2. CASE Here(d)
  <2>1. ASSUME NEW ch \in Right(d) PROVE ch \in Right(d)'
    BY <1>2, <2>1 DEF Right
  <2>. QED  BY <2>1
<1>. QED  BY <1>1, <1>2

LEMMA SameRoom ==
  ASSUME NEW d \in Chans, member'[d] = member[d], ranks'[d] = ranks[d],
         \A u \in member[d] : nickOf'[u] = nickOf[u]
  PROVE  /\ Here(d)' = Here(d) /\ NicksIn(member[d])' = NicksIn(member[d])
         /\ \A modes : HeldBy(d, modes)' = HeldBy(d, modes)
<1>1. Here(d)' = Here(d)
  BY DEF Here
<1>2. NicksIn(member[d])' = NicksIn(member[d])
  BY DEF NicksIn
<1>3. ASSUME NEW modes PROVE HeldBy(d, modes)' = HeldBy(d, modes)
  BY DEF HeldBy
<1>. QED  BY <1>1, <1>2, <1>3

LEMMA SettledStill ==
  ASSUME wire \in Seq(Line), NEW m \in Line, wire' \in {wire, Append(wire, m)}, asks' = asks,
         nickOf'[Bot] = nickOf[Bot]
  PROVE  \A c \in Chans : Settled(c)' => Settled(c)
<1>. SUFFICES ASSUME NEW c \in Chans, Settled(c)' PROVE Settled(c)
  OBVIOUS
<1>1. <<"MODEIS", c>> \notin asks /\ ~Rejoins(wire', nickOf[Bot], c)
  BY DEF Settled
<1>2. ~Rejoins(wire, nickOf[Bot], c)
  BY <1>1, RejoinsStill, Zenon
<1>. QED  BY <1>1, <1>2 DEF Settled

LEMMA SaidNothing ==
  ASSUME NetworkInv, ~renamed, wire' = wire, nickOf'[Bot] = nickOf[Bot],
         UNCHANGED <<pic, nickname, raised>>, \A p \in Mirrors : p \in Mirrors'
  PROVE  PictureInv'
<1>1. /\ ~raised' /\ nickname' = nickOf'[Bot] /\ wire' \in Seq(LineTo(nickOf'[Bot]))
      /\ Leads(Sound, Heard(nickOf'[Bot]), pic', wire', Mirrors)
  BY DEF NetworkInv, PictureInv
<1>2. Mirrors \subseteq Mirrors'
  OBVIOUS
<1>3. Leads(Sound, Heard(nickOf'[Bot]), pic', wire', Mirrors')
  BY <1>1, <1>2, LeadsWider
<1>. QED  BY <1>1, <1>3 DEF PictureInv

LEMMA SaidOne ==
  ASSUME NetworkInv, ~renamed, NEW m \in LineTo(nickOf[Bot]), wire' = Append(wire, m),
         nickOf'[Bot] = nickOf[Bot], UNCHANGED <<pic, nickname, raised>>,
         \A p \in Mirrors : Pictured(nickOf[Bot], p, m) \in Mirrors'
  PROVE  PictureInv'
<1>. DEFINE me == nickOf[Bot]
<1>1. /\ ~raised /\ nickname = me /\ wire \in Seq(LineTo(me))
      /\ Leads(Sound, Heard(me), pic, wire, Mirrors)
  BY DEF NetworkInv, PictureInv
<1>2. m \in Line /\ Mirrors \subseteq Sound /\ Mirrors' \subseteq Sound
  BY DEF LineTo, Mirrors
<1>3. \A p \in Sound : p \in Mirrors => Heard(me)[<<m, p>>] \in Sound /\ Heard(me)[<<m, p>>] \in Mirrors'
  BY <1>2, HeardIs
<1>. HIDE DEF me
<1>4. Leads(Sound, Heard(me), pic, Append(wire, m), Mirrors')
  BY <1>1, <1>3, LeadsFurther DEF me
<1>5. wire' \in Seq(LineTo(me))
  BY <1>1 DEF me
<1>. QED  BY <1>1, <1>4, <1>5 DEF PictureInv, me

LEMMA PeopleFacts ==
  ASSUME NetworkInv
  PROVE  /\ Bot \in People /\ Others \subseteq People /\ Bot \notin Others /\ People \subseteq Others \cup {Bot}
         /\ \A u \in People : nickOf[u] \in Nicks \cup {Off} /\ (On(u) => nickOf[u] \in Nicks)
         /\ \A u, v \in People : On(u) /\ nickOf[u] = nickOf[v] => u = v
         /\ \A c \in Chans : member[c] \subseteq People /\ \A u \in member[c] : On(u)
         /\ \A c \in Chans : \A r \in ranks[c] : r[1] \in member[c]
         /\ \A c \in Chans : Here(c) => On(Bot)
         /\ wire \in Seq(Line)
         /\ \A m \in Line : m.cmd # "NICK" => m \in LineTo(nickOf[Bot])
<1>1. Bot \in People /\ Others \subseteq People /\ Bot \notin Others /\ People \subseteq Others \cup {Bot}
  BY NetworkAssumption DEF People
<1>2. \A u \in People : nickOf[u] \in Nicks \cup {Off} /\ (On(u) => nickOf[u] \in Nicks)
  BY DEF NetworkInv, NetworkTyped, On
<1>3. \A c \in Chans : member[c] \subseteq People
  BY DEF NetworkInv, NetworkTyped
<1>. QED  BY <1>1, <1>2, <1>3 DEF NetworkInv, PeopleInv, Here, LineTo

\* Who joins is told to those in the channel, and joins the channel of the picture.
LEMMA JoinSeen ==
  ASSUME NetworkInv, ~renamed, NEW u \in Others, NEW c \in Chans, ServerJoin(u, c)
  PROVE  PictureInv'
<1>. DEFINE me == nickOf[Bot]
            n == nickOf[u]
            m == [cmd |-> "JOIN", nick |-> n, chan |-> c, acct |-> account[u]]
<1>1. /\ u # Bot /\ u \in People /\ u \notin member[c] /\ n \in Nicks /\ n # me
      /\ member' = [member EXCEPT ![c] = @ \cup {u}] /\ member \in [Chans -> SUBSET People]
      /\ UNCHANGED <<nickOf, ranks, flags, bans, asks, pic, nickname, raised>>
  BY PeopleFacts DEF ServerJoin, peopleVars, botVars, On, NetworkInv, NetworkTyped
<1>2. m \in Line /\ m \in LineTo(me)
  <2>1. m \in JoinLine
    BY <1>1 DEF JoinLine, NetworkInv, NetworkTyped
  <2>. QED  BY <2>1 DEF Line, LineTo, JoinLine
<1>3. wire' = IF Here(c) THEN Append(wire, m) ELSE wire
  <2>1. wire' = IF On(Bot) /\ Here(c) THEN wire \o (<<m>> \o <<>>) ELSE wire
    BY <1>1 DEF ServerJoin, Tell
  <2>. HIDE DEF m
  <2>2. wire \in Seq(Line) /\ (Here(c) => On(Bot))
    BY PeopleFacts
  <2>3. wire \o (<<m>> \o <<>>) = Append(wire, m)
    BY <1>2, <2>2, Bursts
  <2>. QED  BY <2>1, <2>2, <2>3
<1>. HIDE DEF m
<1>4. \A d \in Chans : Settled(d)' => Settled(d)
  BY <1>1, <1>2, <1>3, PeopleFacts, SettledStill
<1>5. \A d \in Chans : Here(d)' = Here(d)
  BY <1>1 DEF Here
<1>6. ASSUME NEW d \in Chans, d # c \/ ~Here(c) PROVE Right(d) \subseteq Right(d)'
  <2>1. CASE d # c
    <3>1. member'[d] = member[d] /\ ranks'[d] = ranks[d]
      BY <1>1, <2>1
    <3>. QED  BY <1>1, <1>4, <3>1, SameRoom, SameChannel
  <2>2. CASE d = c /\ ~Here(c)
    BY <1>5, <2>2, SameChannel
  <2>. QED  BY <1>6, <2>1, <2>2
<1>7. CASE ~Here(c)
  <2>1. \A p \in Mirrors : p \in Mirrors'
    BY <1>6, <1>7 DEF Mirrors
  <2>. QED  BY <1>1, <1>3, <1>7, <2>1, SaidNothing
<1>8. CASE Here(c)
  <2>1. ASSUME NEW p \in Mirrors PROVE Pictured(me, p, m) \in Mirrors'
    <3>. DEFINE q == UserJoin(p, c, n)
    <3>1. Pictured(me, p, m) = q
      BY <1>1 DEF Pictured, m
    <3>2. /\ Tracked(p, c) /\ p \in Sound /\ p \in Pictures /\ p.chan[c] \in Channel
          /\ Members(p, c) = NicksIn(member[c])
          /\ OneOp => p.chan[c].ops = HeldBy(c, OpModes)
          /\ p.chan[c].voices \subseteq HeldBy(c, VoiceModes) /\ p.chan[c].bans \subseteq bans[c]
          /\ Settled(c) => p.chan[c].flags = flags[c]
      BY <1>8, MirrorParts
    <3>3. /\ q \in Pictures /\ q \in Sound /\ \A d \in Chans : d # c => q.chan[d] = p.chan[d]
          /\ q.chan[c] = [p.chan[c] EXCEPT !.users = q.chan[c].users]
          /\ Members(q, c) = Members(p, c) \cup {n}
      BY <1>1, <3>2, UserJoining
    <3>. HIDE DEF q
    <3>4. /\ q.chan[c].ops = p.chan[c].ops /\ q.chan[c].voices = p.chan[c].voices
          /\ q.chan[c].bans = p.chan[c].bans /\ q.chan[c].flags = p.chan[c].flags
          /\ q.chan[c].tracked = TRUE
      BY <3>2, <3>3, Zenon DEF Channel
    <3>5. q.chan[c] \in Channel
      BY <3>3, <3>4, TrackedOnes DEF Tracked
    <3>6. NicksIn(member[c])' = NicksIn(member[c]) \cup {n}
      BY <1>1 DEF NicksIn
    <3>7. \A modes : HeldBy(c, modes)' = HeldBy(c, modes)
      <4>. SUFFICES ASSUME NEW modes PROVE HeldBy(c, modes)' = HeldBy(c, modes)
        OBVIOUS
      <4>1. \A k \in modes : <<u, k>> \notin ranks[c]
        BY <1>1, PeopleFacts
      <4>2. {v \in member'[c] : \E k \in modes : <<v, k>> \in ranks[c]}
              = {v \in member[c] : \E k \in modes : <<v, k>> \in ranks[c]}
        BY <1>1, <4>1
      <4>. QED  BY <1>1, <4>2 DEF HeldBy
    <3>8. q.chan[c] \in Right(c)'
      BY <1>1, <1>4, <1>5, <1>8, <3>2, <3>3, <3>4, <3>5, <3>6, <3>7, Zenon DEF Right, Members, Users
    <3>9. \A d \in Chans : q.chan[d] \in Right(d)'
      BY <1>6, <3>3, <3>8 DEF Mirrors
    <3>. QED  BY <3>1, <3>3, <3>9 DEF Mirrors
  <2>. HIDE DEF me
  <2>. QED  BY <1>1, <1>2, <1>3, <1>8, <2>1, SaidOne DEF me
<1>. QED  BY <1>7, <1>8

\* A NAMES reply lists who is on the channel, each with the highest rank.
LEMMA ListedNames ==
  ASSUME NetworkInv, NEW c \in Chans, NEW who \in SUBSET People, \A u \in who : On(u)
  PROVE  /\ NameList(c, who) \in SUBSET Entries
         /\ {e.nick : e \in NameList(c, who)} = {nickOf[u] : u \in who}
         /\ Showing(NameList(c, who), OpModes)
              = {nickOf[u] : u \in {v \in who : \E k \in OpModes : <<v, k>> \in ranks[c]}}
         /\ Showing(NameList(c, who), VoiceModes)
              \subseteq {nickOf[u] : u \in {v \in who : \E k \in VoiceModes : <<v, k>> \in ranks[c]}}
<1>1. ASSUME NEW u \in who
      PROVE  /\ Shown(c, u) \in RankModes \cup {"none"}
             /\ Shown(c, u) \in OpModes <=> \E k \in OpModes : <<u, k>> \in ranks[c]
             /\ Shown(c, u) \in VoiceModes => \E k \in VoiceModes : <<u, k>> \in ranks[c]
  <2>. DEFINE Top(k) == k \in RankModes /\ <<u, k>> \in ranks[c] /\ \A j \in Above(k) : <<u, j>> \notin ranks[c]
  <2>1. "none" \notin OpModes /\ "none" \notin VoiceModes /\ OpModes \cap VoiceModes = {}
    BY NickAssumption, NetworkAssumption
  <2>2. CASE ~\E k \in RankModes : <<u, k>> \in ranks[c]
    <3>1. Shown(c, u) = "none"
      BY <2>2 DEF Shown
    <3>. QED  BY <2>1, <2>2, <3>1 DEF RankModes
  <2>3. CASE \E k \in RankModes : <<u, k>> \in ranks[c]
    <3>1. Shown(c, u) = CHOOSE k \in RankModes : <<u, k>> \in ranks[c]
                                                /\ \A j \in Above(k) : <<u, j>> \notin ranks[c]
      BY <2>3 DEF Shown
    <3>2. \E k \in RankModes : <<u, k>> \in ranks[c] /\ \A j \in Above(k) : <<u, j>> \notin ranks[c]
      <4>1. CASE \E k \in OpModes : <<u, k>> \in ranks[c]
        BY <2>1, <4>1 DEF Above, RankModes
      <4>2. CASE ~\E k \in OpModes : <<u, k>> \in ranks[c]
        BY <2>3, <4>2 DEF Above
      <4>. QED  BY <4>1, <4>2
    <3>3. Top(Shown(c, u))
      BY <3>1, <3>2
    <3>. QED  BY <2>1, <3>3 DEF Above, RankModes
  <2>. QED  BY <2>2, <2>3
<1>2. NameList(c, who) = {[nick |-> nickOf[u], shown |-> Shown(c, u)] : u \in who}
  BY DEF NameList
<1>3. \A u \in who : nickOf[u] \in Nicks
  BY PeopleFacts
<1>4. NameList(c, who) \in SUBSET Entries
  BY <1>1, <1>2, <1>3 DEF Entries
<1>. DEFINE list == NameList(c, who)
<1>5. /\ \A u \in who : \E e \in list : e.nick = nickOf[u] /\ e.shown = Shown(c, u)
      /\ \A e \in list : \E u \in who : e.nick = nickOf[u] /\ e.shown = Shown(c, u)
  <2>1. \A u \in who : [nick |-> nickOf[u], shown |-> Shown(c, u)] \in list
    BY <1>2
  <2>2. ASSUME NEW e \in list PROVE \E u \in who : e = [nick |-> nickOf[u], shown |-> Shown(c, u)]
    BY <1>2
  <2>. HIDE DEF list
  <2>3. ASSUME NEW u \in who PROVE \E e \in list : e.nick = nickOf[u] /\ e.shown = Shown(c, u)
    <3>. DEFINE e == [nick |-> nickOf[u], shown |-> Shown(c, u)]
    <3>1. e \in list /\ e.nick = nickOf[u] /\ e.shown = Shown(c, u)
      BY <2>1
    <3>. QED  BY <3>1
  <2>4. ASSUME NEW e \in list PROVE \E u \in who : e.nick = nickOf[u] /\ e.shown = Shown(c, u)
    <3>1. PICK u \in who : e = [nick |-> nickOf[u], shown |-> Shown(c, u)]
      BY <2>2
    <3>. QED  BY <3>1
  <2>. QED  BY <2>3, <2>4
<1>. HIDE DEF list
<1>6. {e.nick : e \in list} = {nickOf[u] : u \in who}
  BY <1>5
<1>7. \A modes : Showing(list, modes) = {nickOf[u] : u \in {v \in who : Shown(c, v) \in modes}}
  <2>. SUFFICES ASSUME NEW modes
                PROVE  Showing(list, modes) = {nickOf[u] : u \in {v \in who : Shown(c, v) \in modes}}
    OBVIOUS
  <2>1. ASSUME NEW x \in Showing(list, modes) PROVE \E u \in who : Shown(c, u) \in modes /\ x = nickOf[u]
    <3>1. PICK e \in list : e.shown \in modes /\ x = e.nick
      BY <2>1 DEF Showing
    <3>. QED  BY <1>5, <3>1
  <2>2. ASSUME NEW u \in who, Shown(c, u) \in modes PROVE nickOf[u] \in Showing(list, modes)
    <3>1. PICK e \in list : e.nick = nickOf[u] /\ e.shown = Shown(c, u)
      BY <1>5
    <3>. QED  BY <2>2, <3>1 DEF Showing
  <2>. QED  BY <2>1, <2>2
<1>8. Showing(list, OpModes) = {nickOf[u] : u \in {v \in who : \E k \in OpModes : <<v, k>> \in ranks[c]}}
  <2>1. {v \in who : Shown(c, v) \in OpModes} = {v \in who : \E k \in OpModes : <<v, k>> \in ranks[c]}
    BY <1>1
  <2>. QED  BY <1>7, <2>1
<1>9. Showing(list, VoiceModes)
        \subseteq {nickOf[u] : u \in {v \in who : \E k \in VoiceModes : <<v, k>> \in ranks[c]}}
  <2>1. \A v \in who : Shown(c, v) \in VoiceModes => \E k \in VoiceModes : <<v, k>> \in ranks[c]
    BY <1>1
  <2>2. Showing(list, VoiceModes) = {nickOf[u] : u \in {v \in who : Shown(c, v) \in VoiceModes}}
    BY <1>7
  <2>. QED  BY <2>1, <2>2
<1>. QED  BY <1>4, <1>6, <1>8, <1>9 DEF list

\* The bot's own JOIN, with the topic and the names: the channel is tracked anew.
LEMMA BotJoinSeen ==
  ASSUME NetworkInv, ~renamed, NEW c \in Chans, ServerJoin(Bot, c)
  PROVE  PictureInv'
<1>. DEFINE me == nickOf[Bot]
            list == NameList(c, member'[c])
            m1 == [cmd |-> "JOIN", nick |-> me, chan |-> c, acct |-> account[Bot]]
            m2 == [cmd |-> "TOPIC", chan |-> c, topic |-> topic[c]]
            m3 == [cmd |-> "NAMES", chan |-> c, list |-> list]
<1>1. /\ On(Bot) /\ Bot \notin member[c] /\ me \in Nicks
      /\ member' = [member EXCEPT ![c] = @ \cup {Bot}] /\ member \in [Chans -> SUBSET People]
      /\ UNCHANGED <<nickOf, ranks, flags, bans, asks, pic, nickname, raised>>
  BY PeopleFacts DEF ServerJoin, peopleVars, botVars, On, NetworkInv, NetworkTyped
<1>2. member'[c] = member[c] \cup {Bot} /\ member'[c] \in SUBSET People /\ \A u \in member'[c] : On(u)
  BY <1>1, PeopleFacts
<1>3. list \in SUBSET Entries
  BY <1>2, ListedNames
<1>4. m1 \in Line /\ m2 \in Line /\ m3 \in Line /\ m1 \in LineTo(me) /\ m2 \in LineTo(me) /\ m3 \in LineTo(me)
  <2>1. m1 \in JoinLine
    BY <1>1, PeopleFacts DEF JoinLine, NetworkInv, NetworkTyped
  <2>2. m2 \in TopicLine
    BY DEF TopicLine, NetworkInv, NetworkTyped
  <2>3. m3 \in NamesLine
    <3>. HIDE DEF list
    <3>. QED  BY <1>3 DEF NamesLine
  <2>4. m1 \in Line /\ m2 \in Line /\ m3 \in Line
    BY <2>1, <2>2, <2>3 DEF Line
  <2>5. m1.cmd # "NICK" /\ m2.cmd # "NICK" /\ m3.cmd # "NICK"
    OBVIOUS
  <2>. HIDE DEF m1, m2, m3
  <2>. QED  BY <2>4, <2>5 DEF LineTo
<1>5. wire' = Append(Append(Append(wire, m1), m2), m3)
  <2>1. wire' = wire \o (<<m1>> \o <<m2, m3>>)
    BY <1>1 DEF ServerJoin, Tell
  <2>2. wire \in Seq(Line)
    BY PeopleFacts
  <2>. HIDE DEF m1, m2, m3
  <2>. QED  BY <1>4, <2>1, <2>2, Bursts
<1>6. m1.cmd = "JOIN" /\ m1.nick = me /\ m1.chan = c
  OBVIOUS
<1>7. \A d \in Chans : Settled(d)' => Settled(d) /\ d # c
  <2>. SUFFICES ASSUME NEW d \in Chans, Settled(d)' PROVE Settled(d) /\ d # c
    OBVIOUS
  <2>. DEFINE w1 == Append(wire, m1)
              w2 == Append(w1, m2)
  <2>1. wire \in Seq(Line) /\ w1 \in Seq(Line) /\ w2 \in Seq(Line)
    <3>1. wire \in Seq(Line)
      BY PeopleFacts
    <3>. HIDE DEF m1, m2
    <3>. QED  BY <1>4, <3>1
  <2>2. <<"MODEIS", d>> \notin asks /\ ~Rejoins(wire', me, d)
    BY <1>1 DEF Settled
  <2>. HIDE DEF m1, m2, m3, w1, w2
  <2>3. ~Rejoins(w2, me, d)
    BY <1>4, <1>5, <2>1, <2>2, RejoinsStill DEF w1, w2
  <2>4. ~Rejoins(w1, me, d)
    BY <1>4, <2>1, <2>3, RejoinsStill DEF w2
  <2>5. ~Rejoins(wire, me, d) /\ ~(m1.cmd = "JOIN" /\ m1.nick = me /\ m1.chan = d)
    BY <1>4, <2>1, <2>4, RejoinsStill DEF w1
  <2>. QED  BY <1>6, <2>2, <2>5 DEF Settled
<1>8. ASSUME NEW d \in Chans, d # c PROVE Right(d) \subseteq Right(d)'
  <2>1. member'[d] = member[d] /\ ranks'[d] = ranks[d]
    BY <1>1, <1>8
  <2>. QED  BY <1>1, <1>7, <2>1, SameRoom, SameChannel
<1>9. Here(c)' /\ ~Here(c)
  BY <1>1, <1>2 DEF Here
<1>. DEFINE New == {p \in Sound : p.chan[c] = NewChannel /\ \A d \in Chans : d # c => p.chan[d] \in Right(d)'}
            Topical == {p \in Sound : /\ p.chan[c] \in {[NewChannel EXCEPT !.topic = t] : t \in Topics}
                                      /\ \A d \in Chans : d # c => p.chan[d] \in Right(d)'}
<1>10. ASSUME NEW p \in Mirrors PROVE Pictured(me, p, m1) \in New
  <2>1. Pictured(me, p, m1) = JoinChannel(p, c)
    BY DEF Pictured
  <2>2. p \in Sound /\ p \in Pictures
    BY DEF Mirrors, Sound
  <2>3. JoinChannel(p, c) \in Sound /\ JoinChannel(p, c).chan = [p.chan EXCEPT ![c] = NewChannel]
    BY <2>2, Joining
  <2>4. JoinChannel(p, c).chan[c] = NewChannel /\ \A d \in Chans : d # c => JoinChannel(p, c).chan[d] = p.chan[d]
    BY <2>2, <2>3, PictureParts
  <2>. QED  BY <1>8, <2>1, <2>3, <2>4 DEF Mirrors
<1>11. ASSUME NEW p \in New PROVE Pictured(me, p, m2) \in Topical
  <2>1. Pictured(me, p, m2) = SetTopic(p, c, topic[c])
    BY DEF Pictured
  <2>2. p \in Sound /\ p \in Pictures /\ topic[c] \in Topics /\ p.chan[c] = NewChannel
    BY DEF Sound, NetworkInv, NetworkTyped
  <2>3. Tracked(p, c)
    BY <2>2, NewOne DEF Tracked
  <2>. DEFINE q == SetTopic(p, c, topic[c])
  <2>4. q \in Sound /\ q.chan = [p.chan EXCEPT ![c] = [NewChannel EXCEPT !.topic = topic[c]]]
    BY <2>2, <2>3, SettingTopic
  <2>. HIDE DEF q
  <2>5. q.chan[c] = [NewChannel EXCEPT !.topic = topic[c]] /\ \A d \in Chans : d # c => q.chan[d] = p.chan[d]
    BY <2>2, <2>4, PictureParts
  <2>. QED  BY <2>1, <2>2, <2>4, <2>5 DEF q
<1>12. ASSUME NEW p \in Topical PROVE Pictured(me, p, m3) \in Mirrors'
  <2>1. Pictured(me, p, m3) = AddUsers(p, c, list)
    BY DEF Pictured
  <2>. DEFINE q == AddUsers(p, c, list)
  <2>. HIDE DEF list
  <2>2. PICK t \in Topics : p.chan[c] = [NewChannel EXCEPT !.topic = t]
    OBVIOUS
  <2>3. p \in Sound /\ p \in Pictures
    BY DEF Sound
  <2>4. p.chan[c].tracked = TRUE /\ p.chan[c].users = [k \in Nicks |-> NoUser] /\ p.chan[c].ops = {}
        /\ p.chan[c].voices = {} /\ p.chan[c].bans = {}
    BY <2>2 DEF NewChannel
  <2>5. Tracked(p, c) /\ Members(p, c) = {}
    BY <2>4 DEF Tracked, Members
  <2>6. /\ q \in Sound /\ \A d \in Chans : d # c => q.chan[d] = p.chan[d]
        /\ q.chan[c] \in Channel /\ q.chan[c].ops = Showing(list, OpModes)
        /\ q.chan[c].voices = Showing(list, VoiceModes) /\ q.chan[c].bans = {}
        /\ Members(q, c) = {e.nick : e \in list}
    <3>1. /\ q \in Pictures /\ \A d \in Chans : d # c => q.chan[d] = p.chan[d]
          /\ q.chan[c] \in Channel /\ q.chan[c].ops = p.chan[c].ops \cup Showing(list, OpModes)
          /\ q.chan[c].voices = p.chan[c].voices \cup Showing(list, VoiceModes)
          /\ q.chan[c].bans = p.chan[c].bans
          /\ p \in Sound => q \in Sound /\ Members(q, c) = Members(p, c) \cup {e.nick : e \in list}
      BY <1>3, <2>3, <2>5, ListingUsers
    <3>. HIDE DEF q
    <3>. QED  BY <2>3, <2>4, <2>5, <3>1
  <2>. HIDE DEF q
  <2>7. /\ {e.nick : e \in list} = NicksIn(member[c])'
        /\ Showing(list, OpModes) = HeldBy(c, OpModes)'
        /\ Showing(list, VoiceModes) \subseteq HeldBy(c, VoiceModes)'
    <3>1. /\ {e.nick : e \in list} = {nickOf[u] : u \in member'[c]}
          /\ Showing(list, OpModes) = {nickOf[u] : u \in {v \in member'[c] : \E k \in OpModes : <<v, k>> \in ranks[c]}}
          /\ Showing(list, VoiceModes) \subseteq
               {nickOf[u] : u \in {v \in member'[c] : \E k \in VoiceModes : <<v, k>> \in ranks[c]}}
      BY <1>2, ListedNames DEF list
    <3>. QED  BY <1>1, <3>1 DEF NicksIn, HeldBy
  <2>8. q.chan[c] \in Right(c)'
    <3>1. Users(q.chan[c]) = Members(q, c)
      BY DEF Users, Members
    <3>. QED  BY <1>7, <1>9, <2>6, <2>7, <3>1 DEF Right
  <2>9. \A d \in Chans : q.chan[d] \in Right(d)'
    BY <2>6, <2>8
  <2>. QED  BY <2>1, <2>6, <2>9 DEF q, Mirrors
<1>13. Leads(Sound, Heard(me), pic, wire', Mirrors')
  <2>. DEFINE w1 == Append(wire, m1)
              w2 == Append(w1, m2)
  <2>1. wire \in Seq(Line) /\ w1 \in Seq(Line) /\ w2 \in Seq(Line)
    <3>1. wire \in Seq(Line)
      BY PeopleFacts
    <3>. HIDE DEF m1, m2
    <3>. QED  BY <1>4, <3>1
  <2>. HIDE DEF m1, m2, m3, w1, w2
  <2>2. Leads(Sound, Heard(me), pic, wire, Mirrors)
    BY DEF NetworkInv, PictureInv
  <2>3. /\ \A p \in Sound : p \in Mirrors => Heard(me)[<<m1, p>>] \in Sound /\ Heard(me)[<<m1, p>>] \in New
        /\ \A p \in Sound : p \in New => Heard(me)[<<m2, p>>] \in Sound /\ Heard(me)[<<m2, p>>] \in Topical
        /\ \A p \in Sound : p \in Topical => Heard(me)[<<m3, p>>] \in Sound /\ Heard(me)[<<m3, p>>] \in Mirrors'
    <3>1. New \subseteq Sound /\ Topical \subseteq Sound /\ Mirrors' \subseteq Sound
      BY DEF Mirrors
    <3>. HIDE DEF New, Topical, me
    <3>. QED  BY <1>4, <1>10, <1>11, <1>12, <3>1, HeardIs
  <2>. HIDE DEF New, Topical, me
  <2>4. Leads(Sound, Heard(me), pic, w1, New)
    BY <1>4, <2>1, <2>2, <2>3, LeadsFurther DEF w1
  <2>5. Leads(Sound, Heard(me), pic, w2, Topical)
    BY <1>4, <2>1, <2>3, <2>4, LeadsFurther DEF w2
  <2>6. Leads(Sound, Heard(me), pic, Append(w2, m3), Mirrors')
    BY <1>4, <2>1, <2>3, <2>5, LeadsFurther
  <2>. QED  BY <1>5, <2>6 DEF w1, w2
<1>14. wire' \in Seq(LineTo(me))
  <2>1. wire \in Seq(LineTo(me))
    BY DEF NetworkInv, PictureInv
  <2>. HIDE DEF m1, m2, m3, me
  <2>. QED  BY <1>4, <1>5, <2>1
<1>15. ~raised' /\ nickname' = nickOf'[Bot] /\ nickOf'[Bot] = me
  BY <1>1 DEF NetworkInv, PictureInv
<1>. HIDE DEF me
<1>16. /\ wire' \in Seq(LineTo(nickOf'[Bot]))
       /\ Leads(Sound, Heard(nickOf'[Bot]), pic', wire', Mirrors')
  BY <1>1, <1>13, <1>14, <1>15
<1>. QED  BY <1>15, <1>16 DEF PictureInv

\* u, who is not the bot, is no longer in c.
LEMMA LeftRoom ==
  ASSUME NetworkInv, NEW c \in Chans, NEW u \in member[c], u # Bot, member'[c] = member[c] \ {u},
         ranks'[c] = {r \in ranks[c] : r[1] # u}, \A v \in member[c] : v # u => nickOf'[v] = nickOf[v]
  PROVE  /\ NicksIn(member[c])' = NicksIn(member[c]) \ {nickOf[u]} /\ Here(c)' = Here(c)
         /\ \A modes : HeldBy(c, modes)' = HeldBy(c, modes) \ {nickOf[u]}
<1>1. \A v \in member[c] : v # u => nickOf[v] # nickOf[u] /\ nickOf'[v] = nickOf[v]
  BY PeopleFacts
<1>2. NicksIn(member[c])' = NicksIn(member[c]) \ {nickOf[u]}
  <2>1. NicksIn(member[c])' = {nickOf'[v] : v \in member[c] \ {u}}
    BY DEF NicksIn
  <2>. QED  BY <1>1, <2>1 DEF NicksIn
<1>3. ASSUME NEW modes PROVE HeldBy(c, modes)' = HeldBy(c, modes) \ {nickOf[u]}
  <2>. DEFINE S == {v \in member[c] : \E m \in modes : <<v, m>> \in ranks[c]}
              T == {v \in member'[c] : \E m \in modes : <<v, m>> \in ranks'[c]}
  <2>1. T = S \ {u}
    <3>1. ASSUME NEW v, NEW m PROVE <<v, m>> \in ranks'[c] <=> <<v, m>> \in ranks[c] /\ v # u
      <4>. DEFINE e == <<v, m>>
      <4>1. e[1] = v
        OBVIOUS
      <4>. HIDE DEF e
      <4>2. e \in ranks'[c] <=> e \in ranks[c] /\ v # u
        BY <4>1
      <4>. QED  BY <4>2 DEF e
    <3>. QED  BY <3>1
  <2>2. S \subseteq member[c] /\ HeldBy(c, modes) = {nickOf[v] : v \in S}
    BY DEF HeldBy
  <2>3. HeldBy(c, modes)' = {nickOf'[v] : v \in T}
    BY DEF HeldBy
  <2>. HIDE DEF S, T
  <2>. QED  BY <1>1, <2>1, <2>2, <2>3
<1>4. Here(c)' = Here(c)
  BY DEF Here
<1>. QED  BY <1>2, <1>3, <1>4

LEMMA RightWithout ==
  ASSUME NetworkInv, NEW p \in Mirrors, NEW c \in Chans, Here(c), Here(c)', NEW n \in Nicks,
         NicksIn(member[c])' = NicksIn(member[c]) \ {n},
         \A modes : HeldBy(c, modes)' = HeldBy(c, modes) \ {n},
         bans'[c] = bans[c], flags'[c] = flags[c], Settled(c)' => Settled(c)
  PROVE  RemoveUser(p.chan[c], n) \in Right(c)'
<1>. DEFINE ch == p.chan[c]
            r == RemoveUser(ch, n)
<1>1. /\ ch \in Channel /\ Users(ch) = NicksIn(member[c]) /\ (OneOp => ch.ops = HeldBy(c, OpModes))
      /\ ch.voices \subseteq HeldBy(c, VoiceModes) /\ ch.bans \subseteq bans[c] /\ (Settled(c) => ch.flags = flags[c])
  BY MirrorParts
<1>. HIDE DEF ch
<1>2. /\ r \in Channel /\ \A k \in Nicks : r.users[k] = IF k = n THEN NoUser ELSE ch.users[k]
      /\ r.ops = ch.ops \ {n} /\ r.voices = ch.voices \ {n} /\ r.flags = ch.flags /\ r.bans = ch.bans
  BY <1>1, Removing, ZenonT(40)
<1>. HIDE DEF r
<1>3. Users(r) = Users(ch) \ {n}
  BY <1>2 DEF Users
<1>4. r \in Right(c)'
  BY <1>1, <1>2, <1>3 DEF Right
<1>. QED  BY <1>4 DEF r, ch

\* Who leaves, or is kicked, leaves the channel of the picture.
LEMMA LeaveSeen ==
  ASSUME NetworkInv, ~renamed, NEW u \in Others, NEW c \in Chans, NEW cmd \in {"PART", "KICK"},
         ServerLeave(u, c, cmd)
  PROVE  PictureInv'
<1>. DEFINE me == nickOf[Bot]
            n == nickOf[u]
            m == [cmd |-> cmd, nick |-> n, chan |-> c]
<1>1. /\ u # Bot /\ u \in People /\ u \in member[c] /\ n \in Nicks /\ n # me
      /\ member' = [member EXCEPT ![c] = @ \ {u}] /\ member \in [Chans -> SUBSET People]
      /\ ranks' = [ranks EXCEPT ![c] = {r \in @ : r[1] # u}] /\ ranks \in [Chans -> SUBSET (People \X RankModes)]
      /\ UNCHANGED <<nickOf, flags, bans, asks, pic, nickname, raised>>
  BY PeopleFacts DEF ServerLeave, peopleVars, botVars, NetworkInv, NetworkTyped
<1>2. m \in Line /\ m \in LineTo(me)
  <2>1. m \in LeaveLine
    BY <1>1 DEF LeaveLine
  <2>2. m.cmd # "NICK"
    OBVIOUS
  <2>. HIDE DEF m
  <2>. QED  BY <2>1, <2>2 DEF Line, LineTo
<1>3. wire' = IF Here(c) THEN Append(wire, m) ELSE wire
  <2>1. wire' = IF On(Bot) /\ Here(c) THEN wire \o <<m>> ELSE wire
    BY DEF ServerLeave, Tell
  <2>. HIDE DEF m
  <2>2. wire \in Seq(Line) /\ (Here(c) => On(Bot))
    BY PeopleFacts
  <2>3. wire \o <<m>> = Append(wire, m)
    BY <1>2, <2>2, Bursts
  <2>. QED  BY <2>1, <2>2, <2>3
<1>4. m.cmd \in {"PART", "KICK"} /\ m.nick = n /\ m.chan = c
  OBVIOUS
<1>. HIDE DEF m
<1>5. \A d \in Chans : Settled(d)' => Settled(d)
  BY <1>1, <1>2, <1>3, PeopleFacts, SettledStill
<1>6. /\ Here(c)' = Here(c) /\ NicksIn(member[c])' = NicksIn(member[c]) \ {n}
      /\ \A modes : HeldBy(c, modes)' = HeldBy(c, modes) \ {n}
  <2>1. member'[c] = member[c] \ {u} /\ ranks'[c] = {r \in ranks[c] : r[1] # u}
    BY <1>1
  <2>. QED  BY <1>1, <2>1, LeftRoom
<1>7. ASSUME NEW d \in Chans, d # c \/ ~Here(c) PROVE Right(d) \subseteq Right(d)'
  <2>1. CASE d # c
    <3>1. member'[d] = member[d] /\ ranks'[d] = ranks[d]
      BY <1>1, <2>1
    <3>. QED  BY <1>1, <1>5, <3>1, SameRoom, SameChannel
  <2>2. CASE d = c /\ ~Here(c)
    BY <1>6, <2>2, SameChannel
  <2>. QED  BY <1>7, <2>1, <2>2
<1>8. CASE ~Here(c)
  <2>1. \A p \in Mirrors : p \in Mirrors'
    BY <1>7, <1>8 DEF Mirrors
  <2>. QED  BY <1>1, <1>3, <1>8, <2>1, SaidNothing
<1>9. CASE Here(c)
  <2>1. ASSUME NEW p \in Mirrors PROVE Pictured(me, p, m) \in Mirrors'
    <3>. DEFINE q == UserPart(p, c, n)
    <3>1. Pictured(me, p, m) = q
      BY <1>1, <1>4 DEF Pictured
    <3>2. Tracked(p, c) /\ p \in Sound /\ p \in Pictures /\ n \in Members(p, c)
      BY <1>1, <1>9, MirrorParts DEF NicksIn
    <3>3. p.users[n] # NoUser
      BY <1>1, <3>2, SoundPicture DEF Members
    <3>4. q \in Sound /\ q.chan = [p.chan EXCEPT ![c] = RemoveUser(p.chan[c], n)]
      BY <1>1, <3>2, <3>3, Parting
    <3>. HIDE DEF q
    <3>5. q.chan[c] = RemoveUser(p.chan[c], n) /\ \A d \in Chans : d # c => q.chan[d] = p.chan[d]
      BY <3>2, <3>4, PictureParts
    <3>6. RemoveUser(p.chan[c], n) \in Right(c)'
      BY <1>1, <1>5, <1>6, <1>9, RightWithout
    <3>7. \A d \in Chans : q.chan[d] \in Right(d)'
      BY <1>7, <3>5, <3>6 DEF Mirrors
    <3>. QED  BY <3>1, <3>4, <3>7 DEF Mirrors
  <2>. HIDE DEF me
  <2>. QED  BY <1>1, <1>2, <1>3, <1>9, <2>1, SaidOne DEF me
<1>. QED  BY <1>8, <1>9

\* The bot's own PART, or KICK: the channel is no longer tracked.
LEMMA BotLeaveSeen ==
  ASSUME NetworkInv, ~renamed, NEW c \in Chans, NEW cmd \in {"PART", "KICK"}, ServerLeave(Bot, c, cmd)
  PROVE  PictureInv'
<1>. DEFINE me == nickOf[Bot]
            m == [cmd |-> cmd, nick |-> me, chan |-> c]
<1>1. /\ Bot \in member[c] /\ On(Bot) /\ me \in Nicks /\ Here(c)
      /\ member' = [member EXCEPT ![c] = @ \ {Bot}] /\ member \in [Chans -> SUBSET People]
      /\ ranks' = [ranks EXCEPT ![c] = {r \in @ : r[1] # Bot}] /\ ranks \in [Chans -> SUBSET (People \X RankModes)]
      /\ UNCHANGED <<nickOf, flags, bans, asks, pic, nickname, raised>>
  BY PeopleFacts DEF ServerLeave, peopleVars, botVars, NetworkInv, NetworkTyped, Here
<1>2. m \in Line /\ m \in LineTo(me)
  <2>1. m \in LeaveLine
    BY <1>1 DEF LeaveLine
  <2>2. m.cmd # "NICK"
    OBVIOUS
  <2>. HIDE DEF m
  <2>. QED  BY <2>1, <2>2 DEF Line, LineTo
<1>3. wire' = Append(wire, m)
  <2>1. wire' = wire \o <<m>>
    BY <1>1 DEF ServerLeave, Tell
  <2>2. wire \in Seq(Line)
    BY PeopleFacts
  <2>. HIDE DEF m
  <2>. QED  BY <1>2, <2>1, <2>2, Bursts
<1>4. m.cmd \in {"PART", "KICK"} /\ m.nick = me /\ m.chan = c
  OBVIOUS
<1>. HIDE DEF m
<1>5. \A d \in Chans : Settled(d)' => Settled(d)
  BY <1>1, <1>2, <1>3, PeopleFacts, SettledStill
<1>6. Here(c)' = FALSE
  BY <1>1 DEF Here
<1>7. ASSUME NEW d \in Chans, d # c PROVE Right(d) \subseteq Right(d)'
  <2>1. member'[d] = member[d] /\ ranks'[d] = ranks[d]
    BY <1>1, <1>7
  <2>. QED  BY <1>1, <1>5, <2>1, SameRoom, SameChannel
<1>8. ASSUME NEW p \in Mirrors PROVE Pictured(me, p, m) \in Mirrors'
  <2>. DEFINE q == NukeChannel(p, c)
  <2>1. Pictured(me, p, m) = q
    BY <1>4 DEF Pictured
  <2>2. p \in Sound /\ p \in Pictures
    BY MirrorParts
  <2>3. q \in Sound /\ q.chan = [p.chan EXCEPT ![c] = Untracked]
    BY <2>2, Nuking
  <2>. HIDE DEF q
  <2>4. q.chan[c] = Untracked /\ \A d \in Chans : d # c => q.chan[d] = p.chan[d]
    BY <2>2, <2>3, PictureParts
  <2>5. q.chan[c] \in Right(c)'
    BY <1>6, <2>4 DEF Right
  <2>6. \A d \in Chans : q.chan[d] \in Right(d)'
    BY <1>7, <2>4, <2>5 DEF Mirrors
  <2>. QED  BY <2>1, <2>3, <2>6 DEF Mirrors
<1>. HIDE DEF me
<1>. QED  BY <1>1, <1>2, <1>3, <1>8, SaidOne DEF me

\* Who quits leaves every channel of the picture.
LEMMA QuitSeen ==
  ASSUME NetworkInv, ~renamed, NEW u \in People, ServerQuit(u)
  PROVE  PictureInv'
<1>. DEFINE me == nickOf[Bot]
            n == nickOf[u]
            m == [cmd |-> "QUIT", nick |-> n]
<1>1. /\ u # Bot /\ u \in Others /\ n \in Nicks /\ n # me /\ nickOf' = [nickOf EXCEPT ![u] = Off]
      /\ nickOf'[Bot] = me
      /\ \A v \in People : v # u => nickOf'[v] = nickOf[v]
      /\ \A d \in Chans : member'[d] = member[d] \ {u} /\ ranks'[d] = {r \in ranks[d] : r[1] # u}
      /\ UNCHANGED <<flags, bans, asks, pic, nickname, raised>>
  BY PeopleFacts DEF ServerQuit, botVars, NetworkInv, NetworkTyped
<1>2. m \in Line /\ m \in LineTo(me)
  <2>1. m \in QuitLine
    BY <1>1 DEF QuitLine
  <2>2. m.cmd # "NICK"
    OBVIOUS
  <2>. HIDE DEF m
  <2>. QED  BY <2>1, <2>2 DEF Line, LineTo
<1>3. wire' = IF Seen(u) THEN Append(wire, m) ELSE wire
  <2>1. wire' = IF On(Bot) /\ Seen(u) THEN wire \o <<m>> ELSE wire
    BY DEF ServerQuit, Tell
  <2>. HIDE DEF m
  <2>2. wire \in Seq(Line) /\ (Seen(u) => On(Bot))
    BY <1>1, PeopleFacts DEF Seen
  <2>3. wire \o <<m>> = Append(wire, m)
    BY <1>2, <2>2, Bursts
  <2>. QED  BY <2>1, <2>2, <2>3
<1>4. m.cmd = "QUIT" /\ m.nick = n
  OBVIOUS
<1>. HIDE DEF m
<1>5. \A d \in Chans : Settled(d)' => Settled(d)
  BY <1>1, <1>2, <1>3, PeopleFacts, SettledStill
<1>6. ASSUME NEW d \in Chans, u \in member[d]
      PROVE  /\ Here(d)' = Here(d) /\ NicksIn(member[d])' = NicksIn(member[d]) \ {n}
             /\ \A modes : HeldBy(d, modes)' = HeldBy(d, modes) \ {n}
  <2>1. \A v \in member[d] : v # u => nickOf'[v] = nickOf[v]
    BY <1>1, PeopleFacts
  <2>. QED  BY <1>1, <1>6, <2>1, LeftRoom
<1>7. ASSUME NEW d \in Chans, u \notin member[d] \/ ~Here(d) PROVE Right(d) \subseteq Right(d)'
  <2>1. CASE u \notin member[d]
    <3>1. member'[d] = member[d]
      <4>1. member'[d] = member[d] \ {u}
        BY <1>1
      <4>. QED  BY <2>1, <4>1
    <3>2. ranks'[d] = ranks[d]
      <4>1. ranks'[d] = {r \in ranks[d] : r[1] # u}
        BY <1>1
      <4>2. \A r \in ranks[d] : r[1] # u
        BY <2>1, PeopleFacts
      <4>. QED  BY <4>1, <4>2
    <3>3. \A v \in member[d] : nickOf'[v] = nickOf[v]
      BY <1>1, <2>1, PeopleFacts
    <3>. QED  BY <1>1, <1>5, <3>1, <3>2, <3>3, SameRoom, SameChannel
  <2>2. CASE u \in member[d] /\ ~Here(d)
    BY <1>6, <2>2, SameChannel
  <2>. QED  BY <1>7, <2>1, <2>2
<1>8. CASE ~Seen(u)
  <2>1. \A d \in Chans : u \notin member[d] \/ ~Here(d)
    BY <1>8 DEF Seen, Here
  <2>2. \A p \in Mirrors : p \in Mirrors'
    BY <1>7, <2>1 DEF Mirrors
  <2>. HIDE DEF me
  <2>. QED  BY <1>1, <1>3, <1>8, <2>2, SaidNothing DEF me
<1>9. CASE Seen(u)
  <2>1. ASSUME NEW p \in Mirrors PROVE Pictured(me, p, m) \in Mirrors'
    <3>. DEFINE q == UserQuit(p, n)
    <3>1. Pictured(me, p, m) = q
      BY <1>4 DEF Pictured
    <3>2. p \in Sound /\ p \in Pictures
      BY DEF Mirrors, Sound
    <3>3. /\ q \in Sound
          /\ q.chan = [d \in Chans |-> IF Tracked(p, d) /\ n \in Members(p, d)
                                       THEN RemoveUser(p.chan[d], n) ELSE p.chan[d]]
      BY <1>1, <3>2, Quitting
    <3>. HIDE DEF q
    <3>4. ASSUME NEW d \in Chans PROVE q.chan[d] \in Right(d)'
      <4>1. CASE Here(d) /\ u \in member[d]
        <5>1. Tracked(p, d) /\ n \in Members(p, d)
          BY <4>1, MirrorParts DEF NicksIn
        <5>2. q.chan[d] = RemoveUser(p.chan[d], n)
          BY <3>3, <5>1
        <5>3. RemoveUser(p.chan[d], n) \in Right(d)'
          BY <1>1, <1>5, <1>6, <4>1, RightWithout
        <5>. QED  BY <5>2, <5>3
      <4>2. CASE ~(Here(d) /\ u \in member[d])
        <5>1. ~(Tracked(p, d) /\ n \in Members(p, d))
          <6>1. CASE ~Here(d)
            BY <6>1, MirrorParts
          <6>2. CASE Here(d) /\ u \notin member[d]
            <7>1. Members(p, d) = NicksIn(member[d])
              BY <6>2, MirrorParts
            <7>2. n \notin NicksIn(member[d])
              BY <1>1, <6>2, PeopleFacts DEF NicksIn
            <7>. QED  BY <7>1, <7>2
          <6>. QED  BY <4>2, <6>1, <6>2
        <5>2. q.chan[d] = p.chan[d] /\ p.chan[d] \in Right(d)
          BY <3>3, <5>1 DEF Mirrors
        <5>. QED  BY <1>7, <4>2, <5>2
      <4>. QED  BY <4>1, <4>2
    <3>. QED  BY <3>1, <3>3, <3>4 DEF Mirrors
  <2>. HIDE DEF me
  <2>. QED  BY <1>1, <1>2, <1>3, <1>9, <2>1, SaidOne DEF me
<1>. QED  BY <1>8, <1>9

\* Who comes back is on no channel yet.
LEMMA ReturnSeen ==
  ASSUME NetworkInv, ~renamed, NEW u \in People, NEW n \in Nicks, ServerReturn(u, n)
  PROVE  PictureInv'
<1>1. /\ u # Bot /\ ~On(u) /\ nickOf' = [nickOf EXCEPT ![u] = n] /\ nickOf'[Bot] = nickOf[Bot]
      /\ \A v \in People : v # u => nickOf'[v] = nickOf[v]
      /\ UNCHANGED <<member, ranks, flags, bans, asks, wire, pic, nickname, raised>>
  BY PeopleFacts DEF ServerReturn, botVars, chanVars, NetworkInv, NetworkTyped
<1>2. \A d \in Chans : Settled(d)' => Settled(d)
  BY <1>1 DEF Settled
<1>3. ASSUME NEW d \in Chans PROVE Right(d) \subseteq Right(d)'
  <2>1. \A v \in member[d] : nickOf'[v] = nickOf[v]
    BY <1>1, PeopleFacts
  <2>. QED  BY <1>1, <1>2, <2>1, SameRoom, SameChannel
<1>4. \A p \in Mirrors : p \in Mirrors'
  BY <1>3 DEF Mirrors
<1>. QED  BY <1>1, <1>4, SaidNothing

LEMMA ChangedImage ==
  ASSUME NEW S, NEW T, NEW U, NEW x \in S, NEW f, NEW g,
         \A y : y \in T <=> \E v \in S : y = f[v],
         \A y : y \in U <=> \E v \in S : y = g[v],
         \A v \in S : (f[v] = f[x] => v = x) /\ (v # x => g[v] = f[v])
  PROVE  U = (T \ {f[x]}) \cup {g[x]}
<1>1. ASSUME NEW y \in U PROVE y \in (T \ {f[x]}) \cup {g[x]}
  <2>1. PICK v \in S : y = g[v]
    BY <1>1
  <2>2. CASE v = x
    BY <2>1, <2>2
  <2>3. CASE v # x
    <3>1. y = f[v] /\ f[v] # f[x]
      BY <2>1, <2>3
    <3>. QED  BY <3>1
  <2>. QED  BY <2>2, <2>3
<1>2. ASSUME NEW y \in (T \ {f[x]}) \cup {g[x]} PROVE y \in U
  <2>1. CASE y = g[x]
    BY <2>1
  <2>2. CASE y # g[x]
    <3>1. PICK v \in S : y = f[v]
      BY <1>2, <2>2
    <3>2. v # x
      BY <1>2, <2>2, <3>1
    <3>. QED  BY <3>1, <3>2
  <2>. QED  BY <2>1, <2>2
<1>. QED  BY <1>1, <1>2

\* Who changes nick does so in every channel of the picture.
LEMMA NickSeen ==
  ASSUME NetworkInv, ~renamed, NEW u \in Others, NEW n \in Nicks, ServerNick(u, n)
  PROVE  PictureInv'
<1>. DEFINE me == nickOf[Bot]
            old == nickOf[u]
            m == [cmd |-> "NICK", nick |-> old, new |-> n]
<1>1. /\ u # Bot /\ u \in People /\ On(u) /\ old \in Nicks /\ old # me /\ old # n /\ Free(n)
      /\ nickOf' = [nickOf EXCEPT ![u] = n] /\ nickOf \in [People -> Nicks \cup {Off}]
      /\ nickOf'[Bot] = me /\ nickOf'[u] = n
      /\ \A v \in People : v # u => nickOf'[v] = nickOf[v]
      /\ UNCHANGED <<member, ranks, flags, bans, asks, pic, nickname, raised>>
  BY PeopleFacts DEF ServerNick, botVars, chanVars, NetworkInv, NetworkTyped, Free
<1>2. m \in Line /\ m \in LineTo(me)
  <2>1. m \in NickLine
    BY <1>1 DEF NickLine
  <2>2. m.nick # me
    BY <1>1
  <2>. HIDE DEF m
  <2>. QED  BY <2>1, <2>2 DEF Line, LineTo
<1>3. wire' = IF Seen(u) THEN Append(wire, m) ELSE wire
  <2>1. wire' = IF On(Bot) /\ Seen(u) THEN wire \o <<m>> ELSE wire
    BY DEF ServerNick, Tell
  <2>. HIDE DEF m
  <2>2. wire \in Seq(Line) /\ (Seen(u) => On(Bot))
    BY <1>1, PeopleFacts DEF Seen
  <2>3. wire \o <<m>> = Append(wire, m)
    BY <1>2, <2>2, Bursts
  <2>. QED  BY <2>1, <2>2, <2>3
<1>4. m.cmd = "NICK" /\ m.nick = old /\ m.new = n
  OBVIOUS
<1>. HIDE DEF m
<1>5. \A d \in Chans : Settled(d)' => Settled(d)
  BY <1>1, <1>2, <1>3, PeopleFacts, SettledStill
<1>6. \A d \in Chans : Here(d)' = Here(d)
  BY <1>1 DEF Here
<1>7. ASSUME NEW d \in Chans, u \notin member[d] \/ ~Here(d) PROVE Right(d) \subseteq Right(d)'
  <2>1. CASE u \notin member[d]
    <3>1. \A v \in member[d] : nickOf'[v] = nickOf[v]
      BY <1>1, <2>1, PeopleFacts
    <3>. QED  BY <1>1, <1>5, <3>1, SameRoom, SameChannel
  <2>2. CASE ~Here(d)
    BY <1>6, <2>2, SameChannel
  <2>. QED  BY <1>7, <2>1, <2>2
<1>8. CASE ~Seen(u)
  <2>1. \A d \in Chans : u \notin member[d] \/ ~Here(d)
    BY <1>8 DEF Seen, Here
  <2>2. \A p \in Mirrors : p \in Mirrors'
    BY <1>7, <2>1 DEF Mirrors
  <2>. HIDE DEF me
  <2>. QED  BY <1>1, <1>3, <1>8, <2>2, SaidNothing DEF me
<1>9. CASE Seen(u)
  <2>1. PICK e \in Chans : u \in member[e] /\ Here(e)
    BY <1>1, <1>9 DEF Seen, Here
  <2>2. ASSUME NEW d \in Chans, u \in member[d]
        PROVE  /\ NicksIn(member[d])' = (NicksIn(member[d]) \ {old}) \cup {n}
               /\ \A modes : HeldBy(d, modes)' = Changed(HeldBy(d, modes), old, n)
    <3>1. \A v \in member[d] : (nickOf[v] = old => v = u) /\ (v # u => nickOf'[v] = nickOf[v])
      BY <1>1, PeopleFacts
    <3>2. NicksIn(member[d])' = (NicksIn(member[d]) \ {old}) \cup {n}
      <4>. DEFINE S == member[d]
                  T == NicksIn(member[d])
                  U == NicksIn(member[d])'
      <4>1. /\ \A y : y \in T <=> \E v \in S : y = nickOf[v]
            /\ \A y : y \in U <=> \E v \in S : y = nickOf'[v]
        BY <1>1 DEF NicksIn
      <4>2. u \in S /\ \A v \in S : (nickOf[v] = nickOf[u] => v = u) /\ (v # u => nickOf'[v] = nickOf[v])
        BY <2>2, <3>1
      <4>. HIDE DEF S, T, U
      <4>3. U = (T \ {nickOf[u]}) \cup {nickOf'[u]}
        <5>1. \A v \in S : v = u \/ (nickOf'[v] = nickOf[v] /\ nickOf[v] # nickOf[u])
          BY <4>2
        <5>2. \A y : y \in U => y \in (T \ {nickOf[u]}) \cup {nickOf'[u]}
          BY <4>1, <5>1
        <5>3. \A y : y \in T /\ y # nickOf[u] => y \in U
          BY <4>1, <5>1
        <5>4. nickOf'[u] \in U
          BY <4>1, <4>2
        <5>. QED  BY <5>2, <5>3, <5>4
      <4>. QED  BY <1>1, <4>3 DEF T, U
    <3>3. ASSUME NEW modes PROVE HeldBy(d, modes)' = Changed(HeldBy(d, modes), old, n)
      <4>. DEFINE S == {v \in member[d] : \E k \in modes : <<v, k>> \in ranks[d]}
      <4>1. HeldBy(d, modes) = {nickOf[v] : v \in S} /\ HeldBy(d, modes)' = {nickOf'[v] : v \in S} /\ S \subseteq member[d]
        BY <1>1 DEF HeldBy
      <4>. HIDE DEF S
      <4>2. CASE u \in S
        <5>1. /\ \A y : y \in HeldBy(d, modes) <=> \E v \in S : y = nickOf[v]
              /\ \A y : y \in HeldBy(d, modes)' <=> \E v \in S : y = nickOf'[v]
          BY <4>1
        <5>2. HeldBy(d, modes)' = (HeldBy(d, modes) \ {old}) \cup {n}
          BY <1>1, <3>1, <4>1, <4>2, <5>1, ChangedImage
        <5>3. old \in HeldBy(d, modes)
          BY <4>2, <5>1
        <5>. QED  BY <5>2, <5>3 DEF Changed
      <4>3. CASE u \notin S
        <5>1. old \notin {nickOf[v] : v \in S}
          BY <3>1, <4>1, <4>3
        <5>2. {nickOf'[v] : v \in S} = {nickOf[v] : v \in S}
          BY <3>1, <4>1, <4>3
        <5>. QED  BY <4>1, <5>1, <5>2 DEF Changed
      <4>. QED  BY <4>2, <4>3
    <3>. QED  BY <3>2, <3>3
  <2>3. ASSUME NEW p \in Mirrors PROVE Pictured(me, p, m) \in Mirrors'
    <3>. DEFINE its == p.user[p.users[old]].channels
                q == UserRenamed(p, old, n, its)
    <3>1. p \in Sound /\ p \in Pictures /\ old \in Members(p, e) /\ Tracked(p, e)
      BY <1>1, <2>1, MirrorParts DEF NicksIn
    <3>2. p.users[old] # NoUser /\ its \subseteq Chans /\ \A d \in its : Tracked(p, d)
      BY <1>1, <3>1, SoundPicture DEF Members
    <3>3. Pictured(me, p, m) = q
      BY <1>4, <3>2 DEF Pictured
    <3>4. \A d \in Chans : Tracked(p, d) => n \notin Members(p, d)
      <4>. SUFFICES ASSUME NEW d \in Chans, Tracked(p, d) PROVE n \notin Members(p, d)
        OBVIOUS
      <4>1. Members(p, d) = NicksIn(member[d])
        BY MirrorParts
      <4>. QED  BY <1>1, <4>1, PeopleFacts DEF NicksIn, Free
    <3>5. p.users[n] = NoUser
      BY <3>1, <3>4, SoundPicture DEF Members
    <3>6. \A d \in Chans : d \in its <=> Tracked(p, d) /\ old \in Members(p, d)
      BY <1>1, <3>1, <3>2, SoundPicture DEF Members
    <3>7. /\ q \in Sound
          /\ q.chan = [d \in Chans |-> IF d \in its THEN ChangeUser(p.chan[d], old, n) ELSE p.chan[d]]
      <4>. HIDE DEF q
      <4>1. its \in SUBSET Chans
        BY <3>2
      <4>2. UserRenamed(p, old, n, its) \in Sound
        BY <1>1, <3>1, <3>2, <3>5, <4>1, Renamed
      <4>3. UserRenamed(p, old, n, its).chan = [d \in Chans |-> IF d \in its THEN ChangeUser(p.chan[d], old, n) ELSE p.chan[d]]
        BY <1>1, <3>1, <3>2, <4>1, Renamed
      <4>. QED  BY <4>2, <4>3 DEF q
    <3>. HIDE DEF q, its
    <3>8. ASSUME NEW d \in Chans PROVE q.chan[d] \in Right(d)'
      <4>1. CASE Here(d) /\ u \in member[d]
        <5>. DEFINE ch == p.chan[d]
                    r == ChangeUser(ch, old, n)
        <5>1. /\ ch \in Channel /\ Users(ch) = NicksIn(member[d]) /\ Tracked(p, d) /\ Members(p, d) = NicksIn(member[d])
              /\ (OneOp => ch.ops = HeldBy(d, OpModes)) /\ ch.voices \subseteq HeldBy(d, VoiceModes)
              /\ ch.bans \subseteq bans[d] /\ (Settled(d) => ch.flags = flags[d])
          BY <4>1, MirrorParts
        <5>2. old \in NicksIn(member[d])
          BY <4>1 DEF NicksIn
        <5>3. q.chan[d] = r
          BY <3>6, <3>7, <5>1, <5>2
        <5>. HIDE DEF ch
        <5>4. ch.users[old] # NoUser
          BY <5>1, <5>2 DEF Users
        <5>5. /\ r \in Channel /\ r.ops = Changed(ch.ops, old, n) /\ r.voices = Changed(ch.voices, old, n)
              /\ r.flags = ch.flags /\ r.bans = ch.bans
              /\ \A k \in Nicks : r.users[k] = IF k = old THEN NoUser ELSE IF k = n THEN ch.users[old] ELSE ch.users[k]
          BY <1>1, <5>1, <5>4, Changing
        <5>. HIDE DEF r
        <5>6. Users(r) = (Users(ch) \ {old}) \cup {n}
          BY <1>1, <5>4, <5>5 DEF Users
        <5>7. /\ NicksIn(member[d])' = (NicksIn(member[d]) \ {old}) \cup {n}
              /\ HeldBy(d, OpModes)' = Changed(HeldBy(d, OpModes), old, n)
              /\ HeldBy(d, VoiceModes)' = Changed(HeldBy(d, VoiceModes), old, n)
          BY <2>2, <4>1
        <5>8. r.voices \subseteq HeldBy(d, VoiceModes)'
          BY <5>1, <5>5, <5>7 DEF Changed
        <5>9. OneOp => r.ops = HeldBy(d, OpModes)'
          BY <5>1, <5>5, <5>7
        <5>10. Users(r) = NicksIn(member[d])'
          BY <5>1, <5>6, <5>7
        <5>11. r.bans \subseteq bans'[d] /\ (Settled(d)' => r.flags = flags'[d]) /\ Here(d)'
          BY <1>1, <1>5, <1>6, <4>1, <5>1, <5>5
        <5>12. r \in Right(d)'
          BY <5>5, <5>8, <5>9, <5>10, <5>11 DEF Right
        <5>. QED  BY <5>3, <5>12
      <4>2. CASE ~(Here(d) /\ u \in member[d])
        <5>1. ~(Tracked(p, d) /\ old \in Members(p, d))
          <6>1. CASE ~Here(d)
            BY <6>1, MirrorParts
          <6>2. CASE Here(d) /\ u \notin member[d]
            <7>1. Members(p, d) = NicksIn(member[d])
              BY <6>2, MirrorParts
            <7>2. old \notin NicksIn(member[d])
              BY <1>1, <6>2, PeopleFacts DEF NicksIn
            <7>. QED  BY <7>1, <7>2
          <6>. QED  BY <4>2, <6>1, <6>2
        <5>2. q.chan[d] = p.chan[d] /\ p.chan[d] \in Right(d)
          BY <3>6, <3>7, <5>1 DEF Mirrors
        <5>. QED  BY <1>7, <4>2, <5>2
      <4>. QED  BY <4>1, <4>2
    <3>. QED  BY <3>3, <3>7, <3>8 DEF Mirrors
  <2>. HIDE DEF me
  <2>. QED  BY <1>1, <1>2, <1>3, <1>9, <2>3, SaidOne DEF me
<1>. QED  BY <1>8, <1>9

\* What is no part of the picture leaves it as it is.
LEMMA NotPictured ==
  ASSUME NetworkInv, ~renamed, nickOf' = nickOf, NEW m \in Line, m.cmd \in {"ACCOUNT", "NEWTOPIC"},
         wire' \in {wire, Append(wire, m)}, UNCHANGED <<member, ranks, flags, bans, asks, pic, nickname, raised>>
  PROVE  PictureInv'
<1>1. \A d \in Chans : Settled(d)' => Settled(d)
  BY PeopleFacts, SettledStill
<1>2. ASSUME NEW d \in Chans PROVE Right(d) \subseteq Right(d)'
  BY <1>1, SameRoom, SameChannel
<1>3. \A p \in Mirrors : p \in Mirrors'
  BY <1>2 DEF Mirrors
<1>4. \A p \in Mirrors : Pictured(nickOf[Bot], p, m) \in Mirrors'
  BY <1>3 DEF Pictured
<1>5. m \in LineTo(nickOf[Bot])
  BY DEF LineTo
<1>. QED  BY <1>3, <1>4, <1>5, SaidNothing, SaidOne

LEMMA AccountSeen ==
  ASSUME NetworkInv, ~renamed, NEW u \in People, NEW a \in Accounts \cup {NoAccount}, ServerAccount(u, a)
  PROVE  PictureInv'
<1>. DEFINE m == [cmd |-> "ACCOUNT", nick |-> nickOf[u], acct |-> a]
<1>1. On(u) /\ UNCHANGED <<nickOf, member, ranks, flags, bans, asks, pic, nickname, raised>>
  BY DEF ServerAccount, chanVars, botVars
<1>2. m \in Line /\ m.cmd \in {"ACCOUNT", "NEWTOPIC"}
  <2>1. m \in AccountLine
    BY <1>1, PeopleFacts DEF AccountLine
  <2>2. m.cmd = "ACCOUNT"
    OBVIOUS
  <2>. HIDE DEF m
  <2>. QED  BY <2>1, <2>2 DEF Line
<1>3. wire' = wire \/ wire' = wire \o <<m>>
  BY DEF ServerAccount, Tell
<1>. HIDE DEF m
<1>4. wire \o <<m>> = Append(wire, m)
  BY <1>2, PeopleFacts, Bursts
<1>. QED  BY <1>1, <1>2, <1>3, <1>4, NotPictured

LEMMA TopicSeen ==
  ASSUME NetworkInv, ~renamed, NEW c \in Chans, NEW t \in Topics, ServerTopic(c, t)
  PROVE  PictureInv'
<1>. DEFINE m == [cmd |-> "NEWTOPIC", chan |-> c, topic |-> t]
<1>1. UNCHANGED <<nickOf, member, ranks, flags, bans, asks, pic, nickname, raised>>
  BY DEF ServerTopic, peopleVars, botVars
<1>2. m \in Line /\ m.cmd \in {"ACCOUNT", "NEWTOPIC"}
  <2>1. m \in TopicLine
    BY DEF TopicLine
  <2>2. m.cmd = "NEWTOPIC"
    OBVIOUS
  <2>. HIDE DEF m
  <2>. QED  BY <2>1, <2>2 DEF Line
<1>3. wire' = wire \/ wire' = wire \o <<m>>
  BY DEF ServerTopic, Tell
<1>. HIDE DEF m
<1>4. wire \o <<m>> = Append(wire, m)
  BY <1>2, PeopleFacts, Bursts
<1>. QED  BY <1>1, <1>2, <1>3, <1>4, NotPictured

\* A message about channel c alone, told to those in it.
LEMMA ChannelSeen ==
  ASSUME NetworkInv, ~renamed, NEW c \in Chans, NEW m \in Line, m.cmd # "NICK", nickOf' = nickOf, member' = member,
         wire' = IF Here(c) THEN Append(wire, m) ELSE wire, UNCHANGED <<pic, nickname, raised>>,
         \A d \in Chans : d # c => ranks'[d] = ranks[d] /\ bans'[d] = bans[d] /\ flags'[d] = flags[d],
         \A d \in Chans : d # c /\ Settled(d)' => Settled(d),
         Here(c) => \A p \in Mirrors :
           /\ Pictured(nickOf[Bot], p, m) \in Sound
           /\ \A d \in Chans : d # c => Pictured(nickOf[Bot], p, m).chan[d] = p.chan[d]
           /\ Pictured(nickOf[Bot], p, m).chan[c] \in Right(c)'
  PROVE  PictureInv'
<1>. DEFINE me == nickOf[Bot]
<1>1. \A d \in Chans : Here(d)' = Here(d)
  BY DEF Here
<1>2. ASSUME NEW d \in Chans, d # c \/ ~Here(c) PROVE Right(d) \subseteq Right(d)'
  <2>1. CASE d # c
    BY <2>1, SameRoom, SameChannel
  <2>2. CASE d = c /\ ~Here(c)
    BY <1>1, <2>2, SameChannel
  <2>. QED  BY <1>2, <2>1, <2>2
<1>3. CASE ~Here(c)
  <2>1. \A p \in Mirrors : p \in Mirrors'
    BY <1>2, <1>3 DEF Mirrors
  <2>. QED  BY <1>3, <2>1, SaidNothing
<1>4. CASE Here(c)
  <2>1. ASSUME NEW p \in Mirrors PROVE Pictured(me, p, m) \in Mirrors'
    <3>. DEFINE q == Pictured(me, p, m)
    <3>1. q \in Sound /\ (\A d \in Chans : d # c => q.chan[d] = p.chan[d]) /\ q.chan[c] \in Right(c)'
      BY <1>4
    <3>. HIDE DEF q
    <3>2. \A d \in Chans : q.chan[d] \in Right(d)'
      BY <1>2, <3>1 DEF Mirrors
    <3>. QED  BY <3>1, <3>2 DEF Mirrors, q
  <2>2. m \in LineTo(nickOf[Bot])
    BY DEF LineTo
  <2>. QED  BY <1>4, <2>1, <2>2, SaidOne
<1>. QED  BY <1>3, <1>4

\* What is told to those in c, m, is what the bot is told.
LEMMA ToldThere ==
  ASSUME NetworkInv, NEW c \in Chans, NEW m \in Line, Tell(Here(c), <<m>>)
  PROVE  wire' = IF Here(c) THEN Append(wire, m) ELSE wire
<1>1. wire \in Seq(Line) /\ (Here(c) => On(Bot))
  BY PeopleFacts
<1>2. wire \o <<m>> = Append(wire, m)
  BY <1>1, Bursts
<1>. QED  BY <1>1, <1>2 DEF Tell

\* Who holds a rank after a change of it.
LEMMA RankedHolders ==
  ASSUME NetworkInv, NEW c \in Chans, NEW u \in member[c], NEW on \in BOOLEAN, NEW k \in RankModes,
         ranks'[c] = IF on THEN ranks[c] \cup {<<u, k>>} ELSE ranks[c] \ {<<u, k>>},
         nickOf' = nickOf, member' = member
  PROVE  \A modes :
           /\ k \notin modes => HeldBy(c, modes)' = HeldBy(c, modes)
           /\ on /\ k \in modes => HeldBy(c, modes)' = HeldBy(c, modes) \cup {nickOf[u]}
           /\ ~on => HeldBy(c, modes) \ {nickOf[u]} \subseteq HeldBy(c, modes)'
           /\ ~on /\ (\A j \in modes : j = k) => HeldBy(c, modes)' = HeldBy(c, modes) \ {nickOf[u]}
<1>. SUFFICES ASSUME NEW modes
              PROVE  /\ k \notin modes => HeldBy(c, modes)' = HeldBy(c, modes)
                     /\ on /\ k \in modes => HeldBy(c, modes)' = HeldBy(c, modes) \cup {nickOf[u]}
                     /\ ~on => HeldBy(c, modes) \ {nickOf[u]} \subseteq HeldBy(c, modes)'
                     /\ ~on /\ (\A j \in modes : j = k) => HeldBy(c, modes)' = HeldBy(c, modes) \ {nickOf[u]}
  OBVIOUS
<1>. DEFINE S == {v \in member[c] : \E j \in modes : <<v, j>> \in ranks[c]}
            T == {v \in member[c] : \E j \in modes : <<v, j>> \in ranks'[c]}
<1>1. HeldBy(c, modes) = {nickOf[v] : v \in S} /\ HeldBy(c, modes)' = {nickOf[v] : v \in T}
  BY DEF HeldBy
<1>2. \A v, j : <<v, j>> \in ranks'[c] <=> IF on THEN <<v, j>> \in ranks[c] \/ (v = u /\ j = k)
                                           ELSE <<v, j>> \in ranks[c] /\ ~(v = u /\ j = k)
  OBVIOUS
<1>3. /\ k \notin modes => T = S
      /\ on /\ k \in modes => T = S \cup {u}
      /\ ~on => T \subseteq S /\ S \ {u} \subseteq T
      /\ ~on /\ (\A j \in modes : j = k) => T = S \ {u}
  BY <1>2
<1>4. \A v \in member[c] : nickOf[v] = nickOf[u] => v = u
  BY PeopleFacts
<1>5. S \subseteq member[c] /\ T \subseteq member[c]
  OBVIOUS
<1>. HIDE DEF S, T
<1>6. k \notin modes => HeldBy(c, modes)' = HeldBy(c, modes)
  BY <1>1, <1>3
<1>7. on /\ k \in modes => HeldBy(c, modes)' = HeldBy(c, modes) \cup {nickOf[u]}
  BY <1>1, <1>3
<1>8. ~on => HeldBy(c, modes) \ {nickOf[u]} \subseteq HeldBy(c, modes)'
  BY <1>1, <1>3
<1>9. ~on /\ (\A j \in modes : j = k) => HeldBy(c, modes)' = HeldBy(c, modes) \ {nickOf[u]}
  BY <1>1, <1>3, <1>4, <1>5
<1>. QED  BY <1>6, <1>7, <1>8, <1>9

\* A rank given or taken.
LEMMA RankSeen ==
  ASSUME NetworkInv, ~renamed, NEW u \in People, NEW c \in Chans, NEW on \in BOOLEAN, NEW k \in RankModes,
         ServerRank(u, c, on, k)
  PROVE  PictureInv'
<1>. DEFINE n == nickOf[u]
            m == [cmd |-> "MODE", chan |-> c, on |-> on, mode |-> k, nick |-> n]
<1>1. /\ u \in member[c] /\ n \in Nicks /\ ranks \in [Chans -> SUBSET (People \X RankModes)]
      /\ ranks' = [ranks EXCEPT ![c] = IF on THEN @ \cup {<<u, k>>} ELSE @ \ {<<u, k>>}]
      /\ UNCHANGED <<nickOf, member, flags, bans, asks, pic, nickname, raised>>
      /\ k \notin {"m", "b"} /\ OpModes \cap VoiceModes = {}
  BY PeopleFacts, NickAssumption, NetworkAssumption
  DEF ServerRank, peopleVars, botVars, NetworkInv, NetworkTyped, RankModes
<1>2. m \in Line /\ m.cmd = "MODE" /\ m.mode = k /\ m.chan = c /\ m.on = on /\ m.nick = n
  <2>1. m \in RankLine
    BY <1>1 DEF RankLine
  <2>2. m \in Line
    <3>. HIDE DEF m
    <3>. QED  BY <2>1 DEF Line
  <2>. QED  BY <2>2
<1>3. wire' = IF Here(c) THEN Append(wire, m) ELSE wire
  <2>1. Tell(Here(c), <<m>>)
    BY DEF ServerRank
  <2>. HIDE DEF m
  <2>. QED  BY <1>2, <2>1, ToldThere
<1>. HIDE DEF m
<1>4. \A d \in Chans : Settled(d)' => Settled(d)
  BY <1>1, <1>2, <1>3, PeopleFacts, SettledStill
<1>5. \A d \in Chans : d # c => ranks'[d] = ranks[d] /\ bans'[d] = bans[d] /\ flags'[d] = flags[d]
  BY <1>1
<1>6. /\ ranks'[c] = IF on THEN ranks[c] \cup {<<u, k>>} ELSE ranks[c] \ {<<u, k>>}
      /\ Here(c)' = Here(c) /\ NicksIn(member[c])' = NicksIn(member[c])
  BY <1>1 DEF Here, NicksIn
<1>7. \A modes :
        /\ k \notin modes => HeldBy(c, modes)' = HeldBy(c, modes)
        /\ on /\ k \in modes => HeldBy(c, modes)' = HeldBy(c, modes) \cup {nickOf[u]}
        /\ ~on => HeldBy(c, modes) \ {nickOf[u]} \subseteq HeldBy(c, modes)'
        /\ ~on /\ (\A j \in modes : j = k) => HeldBy(c, modes)' = HeldBy(c, modes) \ {nickOf[u]}
  <2>1. /\ u \in member[c] /\ nickOf' = nickOf /\ member' = member
        /\ ranks'[c] = IF on THEN ranks[c] \cup {<<u, k>>} ELSE ranks[c] \ {<<u, k>>}
    BY <1>1, <1>6
  <2>. QED  BY <2>1, RankedHolders
<1>8. ASSUME Here(c), NEW p \in Mirrors
      PROVE  /\ Pictured(nickOf[Bot], p, m) \in Sound
             /\ \A d \in Chans : d # c => Pictured(nickOf[Bot], p, m).chan[d] = p.chan[d]
             /\ Pictured(nickOf[Bot], p, m).chan[c] \in Right(c)'
  <2>. DEFINE q == RankChange(p, c, on, k, n)
              ch == p.chan[c]
              r == Ranked(ch, on, k, n)
  <2>1. Pictured(nickOf[Bot], p, m) = q
    BY <1>1, <1>2 DEF Pictured
  <2>2. /\ p \in Sound /\ p \in Pictures /\ Tracked(p, c) /\ ch \in Channel
        /\ Users(ch) = NicksIn(member[c]) /\ (OneOp => ch.ops = HeldBy(c, OpModes))
        /\ ch.voices \subseteq HeldBy(c, VoiceModes) /\ ch.bans \subseteq bans[c] /\ (Settled(c) => ch.flags = flags[c])
    BY <1>8, MirrorParts
  <2>3. q \in Sound /\ q.chan = [p.chan EXCEPT ![c] = r]
    BY <1>1, <2>2, Ranking
  <2>. HIDE DEF q
  <2>4. q.chan[c] = r /\ \A d \in Chans : d # c => q.chan[d] = p.chan[d]
    BY <2>2, <2>3, PictureParts
  <2>. HIDE DEF ch
  <2>5. /\ r \in Channel /\ r.users = ch.users /\ r.bans = ch.bans /\ r.flags = ch.flags
        /\ r.ops = IF k \in OpModes THEN IF on THEN ch.ops \cup {n} ELSE ch.ops \ {n} ELSE ch.ops
        /\ r.voices = IF k \in VoiceModes THEN IF on THEN ch.voices \cup {n} ELSE ch.voices \ {n} ELSE ch.voices
    <3>1. CASE k \in OpModes
      <4>1. r = [ch EXCEPT !.ops = IF on THEN ch.ops \cup {n} ELSE ch.ops \ {n}] /\ k \notin VoiceModes
        BY <1>1, <3>1 DEF Ranked
      <4>. HIDE DEF r
      <4>. QED  BY <1>1, <2>2, <3>1, <4>1 DEF Channel
    <3>2. CASE k \in VoiceModes /\ k \notin OpModes
      <4>1. r = [ch EXCEPT !.voices = IF on THEN ch.voices \cup {n} ELSE ch.voices \ {n}]
        BY <3>2 DEF Ranked
      <4>. HIDE DEF r
      <4>. QED  BY <1>1, <2>2, <3>2, <4>1 DEF Channel
    <3>. QED  BY <3>1, <3>2 DEF RankModes
  <2>. HIDE DEF r
  <2>6. \A modes :
          /\ k \notin modes => HeldBy(c, modes)' = HeldBy(c, modes)
          /\ on /\ k \in modes => HeldBy(c, modes)' = HeldBy(c, modes) \cup {n}
          /\ ~on => HeldBy(c, modes) \ {n} \subseteq HeldBy(c, modes)'
          /\ ~on /\ (\A j \in modes : j = k) => HeldBy(c, modes)' = HeldBy(c, modes) \ {n}
    BY <1>7
  <2>7. OneOp => r.ops = HeldBy(c, OpModes)'
    <3>1. CASE k \notin OpModes
      BY <2>2, <2>5, <2>6, <3>1
    <3>2. CASE k \in OpModes /\ on
      BY <2>2, <2>5, <2>6, <3>2
    <3>3. CASE k \in OpModes /\ ~on
      <4>1. OneOp => \A j \in OpModes : j = k
        BY <3>3 DEF OneOp
      <4>. QED  BY <2>2, <2>5, <2>6, <3>3, <4>1
    <3>. QED  BY <3>1, <3>2, <3>3
  <2>8. r.voices \subseteq HeldBy(c, VoiceModes)'
    <3>1. CASE k \notin VoiceModes
      BY <2>2, <2>5, <2>6, <3>1
    <3>2. CASE k \in VoiceModes /\ on
      BY <2>2, <2>5, <2>6, <3>2
    <3>3. CASE k \in VoiceModes /\ ~on
      BY <2>2, <2>5, <2>6, <3>3
    <3>. QED  BY <3>1, <3>2, <3>3
  <2>9. Users(r) = Users(ch)
    BY <2>5 DEF Users
  <2>10. r \in Right(c)'
    BY <1>1, <1>4, <1>6, <1>8, <2>2, <2>5, <2>7, <2>8, <2>9 DEF Right
  <2>. QED  BY <2>1, <2>3, <2>4, <2>10
<1>. QED  BY <1>1, <1>2, <1>3, <1>4, <1>5, <1>8, ChannelSeen

\* A message that sets the channel's own modes.
LEMMA FlagsTold ==
  ASSUME NetworkInv, ~renamed, NEW c \in Chans, NEW m \in Line, m.cmd # "NICK",
         nickOf' = nickOf, member' = member, ranks' = ranks, bans' = bans,
         wire' = IF Here(c) THEN Append(wire, m) ELSE wire, UNCHANGED <<pic, nickname, raised>>,
         \A d \in Chans : d # c => flags'[d] = flags[d],
         \A d \in Chans : d # c /\ Settled(d)' => Settled(d),
         \A p \in Sound : Tracked(p, c) =>
           \E fs \in SUBSET {"m"} :
             /\ Settled(c)' /\ (Settled(c) => p.chan[c].flags = flags[c]) => fs = flags'[c]
             /\ Pictured(nickOf[Bot], p, m) \in Sound
             /\ Pictured(nickOf[Bot], p, m).chan = [p.chan EXCEPT ![c] = [p.chan[c] EXCEPT !.flags = fs]]
  PROVE  PictureInv'
<1>1. Here(c)' = Here(c) /\ NicksIn(member[c])' = NicksIn(member[c]) /\ \A modes : HeldBy(c, modes)' = HeldBy(c, modes)
  BY SameRoom
<1>2. ASSUME Here(c), NEW p \in Mirrors
      PROVE  /\ Pictured(nickOf[Bot], p, m) \in Sound
             /\ \A d \in Chans : d # c => Pictured(nickOf[Bot], p, m).chan[d] = p.chan[d]
             /\ Pictured(nickOf[Bot], p, m).chan[c] \in Right(c)'
  <2>. DEFINE q == Pictured(nickOf[Bot], p, m)
              ch == p.chan[c]
  <2>1. /\ p \in Sound /\ p \in Pictures /\ Tracked(p, c) /\ ch \in Channel
        /\ Users(ch) = NicksIn(member[c]) /\ (OneOp => ch.ops = HeldBy(c, OpModes))
        /\ ch.voices \subseteq HeldBy(c, VoiceModes) /\ ch.bans \subseteq bans[c] /\ (Settled(c) => ch.flags = flags[c])
    BY <1>2, MirrorParts
  <2>2. PICK fs \in SUBSET {"m"} : /\ Settled(c)' => fs = flags'[c]
                                   /\ q \in Sound
                                   /\ q.chan = [p.chan EXCEPT ![c] = [ch EXCEPT !.flags = fs]]
    BY <2>1, Zenon
  <2>. DEFINE r == [ch EXCEPT !.flags = fs]
  <2>. HIDE DEF q
  <2>3. q.chan[c] = r /\ \A d \in Chans : d # c => q.chan[d] = p.chan[d]
    BY <2>1, <2>2, PictureParts
  <2>. HIDE DEF ch
  <2>4. /\ r \in Channel /\ r.users = ch.users /\ r.ops = ch.ops /\ r.voices = ch.voices /\ r.bans = ch.bans
        /\ r.flags = fs
    BY <2>1 DEF Channel
  <2>. HIDE DEF r
  <2>5. Users(r) = Users(ch)
    BY <2>4 DEF Users
  <2>6. r \in Right(c)'
    BY <1>1, <1>2, <2>1, <2>2, <2>4, <2>5 DEF Right
  <2>. QED  BY <2>2, <2>3, <2>6 DEF q
<1>. QED  BY <1>2, ChannelSeen

\* A message that sets the channel's bans.
LEMMA BansTold ==
  ASSUME NetworkInv, ~renamed, NEW c \in Chans, NEW m \in Line, m.cmd # "NICK",
         nickOf' = nickOf, member' = member, ranks' = ranks, flags' = flags,
         wire' = IF Here(c) THEN Append(wire, m) ELSE wire, UNCHANGED <<pic, nickname, raised>>,
         \A d \in Chans : d # c => bans'[d] = bans[d],
         \A d \in Chans : Settled(d)' => Settled(d),
         \A p \in Sound : Tracked(p, c) =>
           \E masks \in SUBSET {"mask"} :
             /\ p.chan[c].bans \subseteq bans[c] => masks \subseteq bans'[c]
             /\ Pictured(nickOf[Bot], p, m) \in Sound
             /\ Pictured(nickOf[Bot], p, m).chan = [p.chan EXCEPT ![c] = [p.chan[c] EXCEPT !.bans = masks]]
  PROVE  PictureInv'
<1>1. Here(c)' = Here(c) /\ NicksIn(member[c])' = NicksIn(member[c]) /\ \A modes : HeldBy(c, modes)' = HeldBy(c, modes)
  BY SameRoom
<1>2. ASSUME Here(c), NEW p \in Mirrors
      PROVE  /\ Pictured(nickOf[Bot], p, m) \in Sound
             /\ \A d \in Chans : d # c => Pictured(nickOf[Bot], p, m).chan[d] = p.chan[d]
             /\ Pictured(nickOf[Bot], p, m).chan[c] \in Right(c)'
  <2>. DEFINE q == Pictured(nickOf[Bot], p, m)
              ch == p.chan[c]
  <2>1. /\ p \in Sound /\ p \in Pictures /\ Tracked(p, c) /\ ch \in Channel
        /\ Users(ch) = NicksIn(member[c]) /\ (OneOp => ch.ops = HeldBy(c, OpModes))
        /\ ch.voices \subseteq HeldBy(c, VoiceModes) /\ ch.bans \subseteq bans[c] /\ (Settled(c) => ch.flags = flags[c])
    BY <1>2, MirrorParts
  <2>2. PICK masks \in SUBSET {"mask"} : /\ masks \subseteq bans'[c] /\ q \in Sound
                                         /\ q.chan = [p.chan EXCEPT ![c] = [ch EXCEPT !.bans = masks]]
    BY <2>1
  <2>. DEFINE r == [ch EXCEPT !.bans = masks]
  <2>. HIDE DEF q
  <2>3. q.chan[c] = r /\ \A d \in Chans : d # c => q.chan[d] = p.chan[d]
    BY <2>1, <2>2, PictureParts
  <2>. HIDE DEF ch
  <2>4. /\ r \in Channel /\ r.users = ch.users /\ r.ops = ch.ops /\ r.voices = ch.voices /\ r.bans = masks
        /\ r.flags = ch.flags
    BY <2>1 DEF Channel
  <2>. HIDE DEF r
  <2>5. Users(r) = Users(ch)
    BY <2>4 DEF Users
  <2>6. r \in Right(c)'
    BY <1>1, <1>2, <2>1, <2>2, <2>4, <2>5 DEF Right
  <2>. QED  BY <2>2, <2>3, <2>6 DEF q
<1>. QED  BY <1>2, ChannelSeen

\* A channel mode or a ban set or unset.
LEMMA ModeSeen ==
  ASSUME NetworkInv, ~renamed, NEW c \in Chans, NEW mode \in {"m", "b"}, ServerMode(c, mode)
  PROVE  PictureInv'
<1>. DEFINE on == IF mode = "m" THEN flags[c] = {} ELSE bans[c] = {}
            m == [cmd |-> "MODE", chan |-> c, on |-> on, mode |-> mode]
<1>1. UNCHANGED <<nickOf, member, ranks, asks, pic, nickname, raised>>
  BY DEF ServerMode, peopleVars, botVars
<1>2. m \in Line /\ m.cmd = "MODE" /\ m.mode = mode /\ m.chan = c /\ m.on = on /\ on \in BOOLEAN
  <2>1. m \in FlagLine /\ on \in BOOLEAN
    BY DEF FlagLine
  <2>2. m \in Line
    <3>. HIDE DEF m
    <3>. QED  BY <2>1 DEF Line
  <2>. QED  BY <2>1, <2>2
<1>3. wire' = IF Here(c) THEN Append(wire, m) ELSE wire
  <2>1. Tell(Here(c), <<m>>)
    BY DEF ServerMode
  <2>. HIDE DEF m
  <2>. QED  BY <1>2, <2>1, ToldThere
<1>. HIDE DEF m
<1>4. \A d \in Chans : Settled(d)' => Settled(d)
  BY <1>1, <1>2, <1>3, PeopleFacts, SettledStill
<1>5. flags \in [Chans -> SUBSET {"m"}] /\ bans \in [Chans -> SUBSET {"mask"}]
  BY DEF NetworkInv, NetworkTyped
<1>6. CASE mode = "m"
  <2>. DEFINE added == IF on THEN {"m"} ELSE {}
              removed == IF on THEN {} ELSE {"m"}
  <2>1. bans' = bans /\ flags' = [flags EXCEPT ![c] = IF @ = {} THEN {"m"} ELSE {}]
    BY <1>6 DEF ServerMode
  <2>2. (\A d \in Chans : d # c => flags'[d] = flags[d]) /\ (flags[c] \cup added) \ removed = flags'[c]
    BY <1>5, <1>6, <2>1
  <2>3. ASSUME NEW p \in Sound, Tracked(p, c)
        PROVE  \E fs \in SUBSET {"m"} :
                 /\ Settled(c)' /\ (Settled(c) => p.chan[c].flags = flags[c]) => fs = flags'[c]
                 /\ Pictured(nickOf[Bot], p, m) \in Sound
                 /\ Pictured(nickOf[Bot], p, m).chan = [p.chan EXCEPT ![c] = [p.chan[c] EXCEPT !.flags = fs]]
    <3>1. Pictured(nickOf[Bot], p, m) = FlagsChange(p, c, added, removed, FALSE)
      BY <1>2, <1>6 DEF Pictured
    <3>2. p \in Pictures /\ p.chan[c] \in Channel
      BY <2>3, TrackedOnes DEF Sound
    <3>. DEFINE fs == (p.chan[c].flags \cup added) \ removed
    <3>3. fs \in SUBSET {"m"} /\ added \in SUBSET {"m"}
      BY <3>2, ChannelParts
    <3>4. Settled(c)' /\ (Settled(c) => p.chan[c].flags = flags[c]) => fs = flags'[c]
      BY <1>4, <2>2
    <3>. HIDE DEF on, added, removed
    <3>. DEFINE no == FALSE
                q == FlagsChange(p, c, added, removed, no)
                r == Flagged(p.chan[c], added, removed, no)
    <3>5. p \in Pictures /\ added \in SUBSET {"m"}
      BY <3>2, <3>3
    <3>6. r = [p.chan[c] EXCEPT !.flags = fs]
      BY DEF Flagged
    <3>. HIDE DEF no
    <3>7. q \in Sound /\ q.chan = [p.chan EXCEPT ![c] = r]
      BY <2>3, <3>5, Flagging
    <3>8. Pictured(nickOf[Bot], p, m) = q
      BY <3>1 DEF no
    <3>. HIDE DEF fs, q, r
    <3>. QED  BY <3>3, <3>4, <3>6, <3>7, <3>8
  <2>. HIDE DEF on
  <2>4. \A d \in Chans : d # c /\ Settled(d)' => Settled(d)
    BY <1>4
  <2>5. \A d \in Chans : d # c => flags'[d] = flags[d]
    BY <2>2
  <2>. QED  BY <1>1, <1>2, <1>3, <2>1, <2>3, <2>4, <2>5, FlagsTold
<1>7. CASE mode = "b"
  <2>1. flags' = flags /\ bans' = [bans EXCEPT ![c] = IF @ = {} THEN {"mask"} ELSE {}]
    BY <1>7 DEF ServerMode
  <2>2. \A d \in Chans : d # c => bans'[d] = bans[d]
    BY <1>5, <2>1
  <2>3. ASSUME NEW p \in Sound, Tracked(p, c)
        PROVE  \E masks \in SUBSET {"mask"} :
                 /\ p.chan[c].bans \subseteq bans[c] => masks \subseteq bans'[c]
                 /\ Pictured(nickOf[Bot], p, m) \in Sound
                 /\ Pictured(nickOf[Bot], p, m).chan = [p.chan EXCEPT ![c] = [p.chan[c] EXCEPT !.bans = masks]]
    <3>1. Pictured(nickOf[Bot], p, m) = BanChange(p, c, on, "mask")
      BY <1>2, <1>7 DEF Pictured
    <3>2. p \in Pictures /\ p.chan[c] \in Channel
      BY <2>3, TrackedOnes DEF Sound
    <3>. DEFINE masks == IF on THEN p.chan[c].bans \cup {"mask"} ELSE p.chan[c].bans \ {"mask"}
    <3>3. masks \in SUBSET {"mask"} /\ (p.chan[c].bans \subseteq bans[c] => masks \subseteq bans'[c])
      BY <1>5, <1>7, <2>1, <3>2, ChannelParts
    <3>. HIDE DEF on
    <3>4. BanChange(p, c, on, "mask") \in Sound
          /\ BanChange(p, c, on, "mask").chan = [p.chan EXCEPT ![c] = [p.chan[c] EXCEPT !.bans = masks]]
      BY <1>2, <2>3, <3>2, Banning DEF Banned
    <3>. HIDE DEF masks
    <3>. QED  BY <3>1, <3>3, <3>4
  <2>. HIDE DEF on
  <2>. QED  BY <1>1, <1>2, <1>3, <1>4, <2>1, <2>2, <2>3, BansTold
<1>. QED  BY <1>6, <1>7

\* The answer to MODE: of a channel the bot is not in it changes nothing.
LEMMA ModesAnswered ==
  ASSUME NetworkInv, ~renamed, NEW c \in Chans, NEW m \in Line, m.cmd = "MODEIS", m.chan = c, m.flags = flags[c],
         UNCHANGED <<nickOf, member, ranks, flags, bans, pic, nickname, raised>>,
         \A d \in Chans : d # c /\ Settled(d)' => Settled(d),
         wire' = IF On(Bot) THEN Append(wire, m) ELSE wire
  PROVE  PictureInv'
<1>1. flags[c] \in SUBSET {"m"}
  BY DEF NetworkInv, NetworkTyped
<1>2. \A p : Pictured(nickOf[Bot], p, m) = FlagsChange(p, c, flags[c], {}, TRUE)
  BY DEF Pictured
<1>3. CASE Here(c)
  <2>1. wire' = IF Here(c) THEN Append(wire, m) ELSE wire
    BY <1>3, PeopleFacts
  <2>2. ASSUME NEW p \in Sound, Tracked(p, c)
        PROVE  \E fs \in SUBSET {"m"} :
                 /\ Settled(c)' /\ (Settled(c) => p.chan[c].flags = flags[c]) => fs = flags'[c]
                 /\ Pictured(nickOf[Bot], p, m) \in Sound
                 /\ Pictured(nickOf[Bot], p, m).chan = [p.chan EXCEPT ![c] = [p.chan[c] EXCEPT !.flags = fs]]
    <3>1. p \in Pictures
      BY DEF Sound
    <3>. DEFINE fs == flags[c]
                none == {}
                yes == TRUE
                r == Flagged(p.chan[c], fs, none, yes)
                q == FlagsChange(p, c, fs, none, yes)
    <3>2. fs \in SUBSET {"m"} /\ (fs \cup {}) \ none = fs /\ yes = TRUE
      BY <1>1
    <3>3. Pictured(nickOf[Bot], p, m) = q
      BY <1>2
    <3>4. fs = flags'[c]
      OBVIOUS
    <3>. HIDE DEF fs, none, yes
    <3>5. fs \in SUBSET {"m"}
      BY <3>2
    <3>6. q \in Sound /\ q.chan = [p.chan EXCEPT ![c] = r]
      BY <2>2, <3>1, <3>5, Flagging
    <3>7. r = [p.chan[c] EXCEPT !.flags = fs]
      BY <3>2 DEF Flagged
    <3>. HIDE DEF q, r
    <3>. QED  BY <3>2, <3>3, <3>4, <3>7, <3>6
  <2>3. m.cmd # "NICK" /\ \A d \in Chans : d # c => flags'[d] = flags[d]
    OBVIOUS
  <2>. QED  BY <2>1, <2>2, <2>3, FlagsTold
<1>4. CASE ~Here(c)
  <2>1. ASSUME NEW d \in Chans PROVE Right(d) \subseteq Right(d)'
    <3>1. CASE d # c
      BY <3>1, SameRoom, SameChannel
    <3>2. CASE d = c
      BY <1>4, <3>2, SameRoom, SameChannel
    <3>. QED  BY <3>1, <3>2
  <2>2. \A p \in Mirrors : p \in Mirrors'
    BY <2>1 DEF Mirrors
  <2>3. \A p \in Mirrors : Pictured(nickOf[Bot], p, m) \in Mirrors'
    <3>. SUFFICES ASSUME NEW p \in Mirrors PROVE Pictured(nickOf[Bot], p, m) \in Mirrors'
      OBVIOUS
    <3>1. ~Tracked(p, c)
      BY <1>4, MirrorParts
    <3>2. Pictured(nickOf[Bot], p, m) = p
      BY <1>2, <3>1 DEF FlagsChange
    <3>. QED  BY <2>2, <3>2
  <2>4. m \in LineTo(nickOf[Bot])
    BY DEF LineTo
  <2>5. wire' = wire \/ wire' = Append(wire, m)
    OBVIOUS
  <2>. QED  BY <2>2, <2>3, <2>4, <2>5, SaidNothing, SaidOne
<1>. QED  BY <1>3, <1>4

\* The answer to NAMES: who is in the channel, as the picture has it already.
LEMMA NamesAnswered ==
  ASSUME NetworkInv, ~renamed, NEW c \in Chans, NEW m \in Line, m.cmd = "NAMES", m.chan = c,
         m.list = NameList(c, member[c]),
         UNCHANGED <<nickOf, member, ranks, flags, bans, pic, nickname, raised>>,
         \A d \in Chans : Settled(d)' => Settled(d),
         wire' = IF Here(c) THEN Append(wire, m) ELSE wire
  PROVE  PictureInv'
<1>. DEFINE list == NameList(c, member[c])
<1>1. list \in SUBSET Entries /\ {e.nick : e \in list} = NicksIn(member[c])
      /\ Showing(list, OpModes) = HeldBy(c, OpModes) /\ Showing(list, VoiceModes) \subseteq HeldBy(c, VoiceModes)
  <2>1. member[c] \in SUBSET People /\ \A u \in member[c] : On(u)
    BY PeopleFacts
  <2>2. /\ list \in SUBSET Entries /\ {e.nick : e \in list} = {nickOf[u] : u \in member[c]}
        /\ Showing(list, OpModes) = {nickOf[u] : u \in {v \in member[c] : \E k \in OpModes : <<v, k>> \in ranks[c]}}
        /\ Showing(list, VoiceModes) \subseteq
             {nickOf[u] : u \in {v \in member[c] : \E k \in VoiceModes : <<v, k>> \in ranks[c]}}
    BY <2>1, ListedNames
  <2>. QED  BY <2>2 DEF NicksIn, HeldBy
<1>. HIDE DEF list
<1>2. /\ Here(c)' = Here(c) /\ NicksIn(member[c])' = NicksIn(member[c])
      /\ \A modes : HeldBy(c, modes)' = HeldBy(c, modes)
  BY SameRoom
<1>3. ASSUME Here(c), NEW p \in Mirrors
      PROVE  /\ Pictured(nickOf[Bot], p, m) \in Sound
             /\ \A d \in Chans : d # c => Pictured(nickOf[Bot], p, m).chan[d] = p.chan[d]
             /\ Pictured(nickOf[Bot], p, m).chan[c] \in Right(c)'
  <2>. DEFINE q == AddUsers(p, c, list)
              ch == p.chan[c]
              r == q.chan[c]
  <2>1. Pictured(nickOf[Bot], p, m) = q
    BY DEF Pictured, list
  <2>2. /\ p \in Sound /\ p \in Pictures /\ Tracked(p, c) /\ Members(p, c) = NicksIn(member[c])
        /\ (OneOp => ch.ops = HeldBy(c, OpModes))
        /\ ch.voices \subseteq HeldBy(c, VoiceModes) /\ ch.bans \subseteq bans[c] /\ (Settled(c) => ch.flags = flags[c])
    BY <1>3, MirrorParts
  <2>3. /\ \A d \in Chans : d # c => q.chan[d] = p.chan[d]
        /\ r \in Channel /\ r.ops = ch.ops \cup Showing(list, OpModes)
        /\ r.voices = ch.voices \cup Showing(list, VoiceModes)
        /\ r.bans = ch.bans /\ r.flags = ch.flags
        /\ q \in Sound /\ Members(q, c) = Members(p, c) \cup {e.nick : e \in list}
    BY <1>1, <2>2, ListingUsers
  <2>4. Users(r) = Members(q, c)
    BY DEF Users, Members
  <2>. HIDE DEF q, ch, r
  <2>5. r \in Right(c)'
    BY <1>1, <1>2, <1>3, <2>2, <2>3, <2>4 DEF Right
  <2>. QED  BY <2>1, <2>3, <2>5 DEF r
<1>. QED  BY <1>3, ChannelSeen

\* The answer to the list of bans.
LEMMA BansAnswered ==
  ASSUME NetworkInv, ~renamed, NEW c \in Chans, NEW m \in Line, m.cmd = "BANS", m.chan = c, m.bans = bans[c],
         UNCHANGED <<nickOf, member, ranks, flags, bans, pic, nickname, raised>>,
         \A d \in Chans : Settled(d)' => Settled(d),
         wire' = IF Here(c) THEN Append(wire, m) ELSE wire
  PROVE  PictureInv'
<1>1. bans[c] \in SUBSET {"mask"}
  BY DEF NetworkInv, NetworkTyped
<1>2. ASSUME NEW p \in Sound, Tracked(p, c)
      PROVE  \E masks \in SUBSET {"mask"} :
               /\ p.chan[c].bans \subseteq bans[c] => masks \subseteq bans'[c]
               /\ Pictured(nickOf[Bot], p, m) \in Sound
               /\ Pictured(nickOf[Bot], p, m).chan = [p.chan EXCEPT ![c] = [p.chan[c] EXCEPT !.bans = masks]]
  <2>1. Pictured(nickOf[Bot], p, m) = AddBans(p, c, bans[c])
    BY DEF Pictured
  <2>2. p \in Pictures
    BY DEF Sound
  <2>3. AddBans(p, c, bans[c]) \in Sound
        /\ AddBans(p, c, bans[c]).chan = [p.chan EXCEPT ![c] = [p.chan[c] EXCEPT !.bans = bans[c]]]
    BY <1>1, <1>2, <2>2, ListingBans
  <2>. QED  BY <1>1, <2>1, <2>3, Zenon
<1>. QED  BY <1>2, BansTold

\* An answer to what the bot asked.
LEMMA AnswerSeen ==
  ASSUME NetworkInv, ~renamed, NEW q \in asks, ServerAnswer(q)
  PROVE  PictureInv'
<1>. DEFINE c == q[2]
            m1 == [cmd |-> "MODEIS", chan |-> c, flags |-> flags[c]]
            m2 == [cmd |-> "NAMES", chan |-> c, list |-> NameList(c, member[c])]
            m3 == [cmd |-> "BANS", chan |-> c, bans |-> bans[c]]
<1>1. /\ q[1] \in {"MODEIS", "NAMES", "BANS"} /\ c \in Chans /\ q = <<q[1], c>>
      /\ asks' = asks \ {q} /\ UNCHANGED <<nickOf, member, ranks, flags, bans, pic, nickname, raised>>
  BY DEF ServerAnswer, NetworkInv, NetworkTyped, peopleVars, chanVars, botVars
<1>2. wire \in Seq(Line) /\ (Here(c) => On(Bot)) /\ (wire' = wire \/ On(Bot))
  BY <1>1, PeopleFacts DEF ServerAnswer, Tell
<1>3. m1 \in Line /\ m2 \in Line /\ m3 \in Line
  <2>1. m1 \in FlagsLine /\ m3 \in BansLine
    BY <1>1 DEF FlagsLine, BansLine, NetworkInv, NetworkTyped
  <2>2. NameList(c, member[c]) \in SUBSET Entries
    BY <1>1, PeopleFacts, ListedNames
  <2>3. m2 \in NamesLine
    BY <1>1, <2>2 DEF NamesLine
  <2>. HIDE DEF m1, m2, m3
  <2>. QED  BY <2>1, <2>3 DEF Line
<1>4. /\ m1.cmd = "MODEIS" /\ m1.chan = c /\ m1.flags = flags[c]
      /\ m2.cmd = "NAMES" /\ m2.chan = c /\ m2.list = NameList(c, member[c])
      /\ m3.cmd = "BANS" /\ m3.chan = c /\ m3.bans = bans[c]
  OBVIOUS
<1>5. wire' = IF On(Bot) /\ (Here(c) \/ q[1] = "MODEIS")
              THEN wire \o (CASE q[1] = "MODEIS" -> <<m1>> [] q[1] = "NAMES" -> <<m2>> [] q[1] = "BANS" -> <<m3>>)
              ELSE wire
  BY DEF ServerAnswer, Tell
<1>. HIDE DEF c, m1, m2, m3
<1>6. wire \o <<m1>> = Append(wire, m1) /\ wire \o <<m2>> = Append(wire, m2) /\ wire \o <<m3>> = Append(wire, m3)
  BY <1>2, <1>3, Bursts
<1>7. /\ q[1] = "MODEIS" => wire' = IF On(Bot) THEN Append(wire, m1) ELSE wire
      /\ q[1] = "NAMES" => wire' = IF Here(c) THEN Append(wire, m2) ELSE wire
      /\ q[1] = "BANS" => wire' = IF Here(c) THEN Append(wire, m3) ELSE wire
  BY <1>2, <1>5, <1>6
<1>8. ASSUME NEW d \in Chans, Settled(d)', d # c \/ q[1] # "MODEIS" PROVE Settled(d)
  <2>1. <<"MODEIS", d>> \notin asks' /\ ~Rejoins(wire', nickOf[Bot], d)
    BY <1>1, <1>8 DEF Settled
  <2>2. <<"MODEIS", d>> \notin asks
    BY <1>1, <1>8, <2>1
  <2>3. wire' \in {wire, Append(wire, m1), Append(wire, m2), Append(wire, m3)}
    BY <1>1, <1>7
  <2>4. ~Rejoins(wire, nickOf[Bot], d)
    BY <1>2, <1>3, <2>1, <2>3, RejoinsStill
  <2>. QED  BY <2>2, <2>4 DEF Settled
<1>9. CASE q[1] = "MODEIS"
  BY <1>1, <1>3, <1>4, <1>7, <1>8, <1>9, ModesAnswered
<1>10. CASE q[1] = "NAMES"
  BY <1>1, <1>3, <1>4, <1>7, <1>8, <1>10, NamesAnswered
<1>11. CASE q[1] = "BANS"
  BY <1>1, <1>3, <1>4, <1>7, <1>8, <1>11, BansAnswered
<1>. QED  BY <1>1, <1>9, <1>10, <1>11

\* What the server does of the bot's own change of nick is no longer claimed of.
LEMMA ServerPicture ==
  ASSUME NetworkInv, Server
  PROVE  PictureInv'
<1>. SUFFICES ASSUME ~renamed' PROVE PictureInv'
  BY DEF PictureInv
<1>1. ~renamed
  <2>1. ASSUME NEW u \in People, NEW n \in Nicks, ServerReturn(u, n) \/ ServerNick(u, n) PROVE ~renamed
    BY <2>1 DEF ServerReturn, ServerNick
  <2>2. ASSUME NEW u \in People, NEW a \in Accounts \cup {NoAccount}, ServerAccount(u, a) PROVE ~renamed
    BY <2>2 DEF ServerAccount
  <2>3. ASSUME NEW u \in People, ServerQuit(u) PROVE ~renamed
    BY <2>3 DEF ServerQuit
  <2>4. ASSUME NEW u \in People, NEW c \in Chans,
               \/ ServerJoin(u, c) \/ ServerLeave(u, c, "PART") \/ ServerLeave(u, c, "KICK")
               \/ \E on \in BOOLEAN, m \in RankModes : ServerRank(u, c, on, m)
        PROVE  ~renamed
    BY <2>4 DEF ServerJoin, ServerLeave, ServerRank
  <2>5. ASSUME NEW c \in Chans, ServerMode(c, "m") \/ ServerMode(c, "b") \/ \E t \in Topics : ServerTopic(c, t)
        PROVE  ~renamed
    BY <2>5 DEF ServerMode, ServerTopic
  <2>6. ASSUME NEW q \in asks, ServerAnswer(q) PROVE ~renamed
    BY <2>6 DEF ServerAnswer
  <2>. QED  BY <2>1, <2>2, <2>3, <2>4, <2>5, <2>6 DEF Server
<1>2. ASSUME NEW u \in People, NEW c \in Chans, ServerJoin(u, c) PROVE PictureInv'
  BY <1>1, <1>2, PeopleFacts, JoinSeen, BotJoinSeen
<1>3. ASSUME NEW u \in People, NEW c \in Chans, ServerLeave(u, c, "PART") PROVE PictureInv'
  BY <1>1, <1>3, PeopleFacts, LeaveSeen, BotLeaveSeen
<1>4. ASSUME NEW u \in People, NEW c \in Chans, ServerLeave(u, c, "KICK") PROVE PictureInv'
  BY <1>1, <1>4, PeopleFacts, LeaveSeen, BotLeaveSeen
<1>5. ASSUME NEW u \in People, NEW c \in Chans, NEW on \in BOOLEAN, NEW k \in RankModes, ServerRank(u, c, on, k)
      PROVE  PictureInv'
  BY <1>1, <1>5, RankSeen
<1>6. ASSUME NEW u \in People, ServerQuit(u) PROVE PictureInv'
  BY <1>1, <1>6, QuitSeen
<1>7. ASSUME NEW u \in People, NEW n \in Nicks, ServerReturn(u, n) PROVE PictureInv'
  BY <1>1, <1>7, ReturnSeen
<1>8. ASSUME NEW u \in People, NEW n \in Nicks, ServerNick(u, n) PROVE PictureInv'
  <2>1. u # Bot
    BY <1>8 DEF ServerNick
  <2>2. u \in Others
    BY <2>1, PeopleFacts
  <2>. QED  BY <1>1, <1>8, <2>2, NickSeen
<1>9. ASSUME NEW u \in People, NEW a \in Accounts \cup {NoAccount}, ServerAccount(u, a) PROVE PictureInv'
  BY <1>1, <1>9, AccountSeen
<1>10. ASSUME NEW c \in Chans, ServerMode(c, "m") \/ ServerMode(c, "b") PROVE PictureInv'
  BY <1>1, <1>10, ModeSeen
<1>11. ASSUME NEW c \in Chans, NEW t \in Topics, ServerTopic(c, t) PROVE PictureInv'
  BY <1>1, <1>11, TopicSeen
<1>12. ASSUME NEW q \in asks, ServerAnswer(q) PROVE PictureInv'
  BY <1>1, <1>12, AnswerSeen
<1>. QED
  BY <1>2, <1>3, <1>4, <1>5, <1>6, <1>7, <1>8, <1>9, <1>10, <1>11, <1>12 DEF Server

\* A handler takes the first message to the picture: what the rest leads to stays, and
\* is as true as before.
LEMMA HandlerPicture ==
  ASSUME NetworkInv, Handler
  PROVE  PictureInv'
<1>. SUFFICES ASSUME ~renamed' PROVE PictureInv'
  BY DEF PictureInv
<1>. DEFINE me == nickOf[Bot]
            m == Head(wire)
<1>1. wire \in Seq(Line) /\ pic \in Pictures /\ accounts \in Memories /\ raised \in BOOLEAN
  BY DEF NetworkInv, NetworkTyped, Memories
<1>2. /\ wire # <<>> /\ m \in Line /\ wire' = Tail(wire)
      /\ asks \subseteq asks'
      /\ m.cmd = "JOIN" /\ m.nick = nickname => <<"MODEIS", m.chan>> \in asks'
      /\ pic \in Sound /\ ~(m.cmd = "NICK" /\ m.nick = nickname) =>
              pic' = Pictured(nickname, pic, m) /\ raised' = raised /\ nickname' = nickname
      /\ UNCHANGED <<nickOf, member, ranks, flags, bans, renamed>>
  BY <1>1, Handling DEF peopleVars, chanVars
<1>3. /\ ~raised /\ nickname = me /\ wire \in Seq(LineTo(me))
      /\ Leads(Sound, Heard(me), pic, wire, Mirrors)
  BY <1>2 DEF NetworkInv, PictureInv
<1>4. pic \in Sound
  BY <1>1, <1>3, LeadsEnd
<1>5. m \in LineTo(me) /\ Tail(wire) \in Seq(LineTo(me))
  BY <1>2, <1>3
<1>6. pic' = Pictured(me, pic, m) /\ raised' = raised /\ nickname' = nickname
  BY <1>2, <1>3, <1>4, <1>5 DEF LineTo
<1>. HIDE DEF m, me
<1>7. Leads(Sound, Heard(me), pic', wire', Mirrors)
  <2>1. Leads(Sound, Heard(me), Heard(me)[<<m, pic>>], Tail(wire), Mirrors)
    BY <1>1, <1>2, <1>3, LeadsOn DEF m
  <2>. QED  BY <1>2, <1>4, <1>6, <2>1, HeardIs
<1>8. ASSUME NEW d \in Chans, Settled(d)' PROVE Settled(d)
  <2>1. <<"MODEIS", d>> \notin asks' /\ ~Rejoins(Tail(wire), me, d)
    BY <1>2, <1>8 DEF Settled, me
  <2>2. <<"MODEIS", d>> \notin asks /\ ~(m.cmd = "JOIN" /\ m.nick = me /\ m.chan = d)
    BY <1>2, <1>3, <2>1
  <2>3. ~Rejoins(wire, me, d)
    BY <1>1, <1>2, <2>1, <2>2, RejoinsStill DEF m
  <2>. QED  BY <2>2, <2>3 DEF Settled, me
<1>9. ASSUME NEW d \in Chans PROVE Right(d) \subseteq Right(d)'
  BY <1>2, <1>8, SameRoom, SameChannel
<1>10. Mirrors \subseteq Mirrors'
  BY <1>9 DEF Mirrors
<1>11. Leads(Sound, Heard(me), pic', wire', Mirrors')
  BY <1>7, <1>10, LeadsWider
<1>12. nickname' = nickOf'[Bot] /\ nickOf'[Bot] = me /\ ~raised' /\ wire' \in Seq(LineTo(me))
  BY <1>2, <1>3, <1>5, <1>6 DEF me
<1>. QED  BY <1>11, <1>12 DEF PictureInv

\* A question changes nothing.
LEMMA AskPicture ==
  ASSUME NetworkInv, NEW c \in Chans, NEW what \in {"NAMES", "BANS"}, Ask(c, what)
  PROVE  PictureInv'
<1>. SUFFICES ASSUME ~renamed' PROVE PictureInv'
  BY DEF PictureInv
<1>1. /\ ~renamed /\ asks' = asks \cup {<<what, c>>}
      /\ UNCHANGED <<nickOf, member, ranks, flags, bans, wire, pic, nickname, raised>>
  BY DEF Ask, peopleVars, chanVars, botVars
<1>2. ASSUME NEW d \in Chans, Settled(d)' PROVE Settled(d)
  BY <1>1, <1>2 DEF Settled
<1>3. ASSUME NEW d \in Chans PROVE Right(d) \subseteq Right(d)'
  BY <1>1, <1>2, SameRoom, SameChannel
<1>4. \A p \in Mirrors : p \in Mirrors'
  BY <1>3 DEF Mirrors
<1>. QED  BY <1>1, <1>4, SaidNothing

\* The empty picture is true of the network while the bot is on no channel.
LEMMA NothingToHear ==
  ASSUME \A c \in Chans : ~Here(c)'
  PROVE  \A me : Leads(Sound, Heard(me), Empty, <<>>, Mirrors')
<1>1. Empty \in Sound /\ \A c \in Chans : Empty.chan[c] \in Right(c)'
  BY EmptyIsSound DEF Right
<1>2. Empty \in Mirrors'
  BY <1>1 DEF Mirrors
<1>. QED  BY <1>1, <1>2, LeadsStart

\* Signing on, and losing the connection, leave the picture empty.
LEMMA SignOnPicture ==
  ASSUME NetworkInv, NEW n \in Nicks, SignOn(n)
  PROVE  PictureInv'
<1>1. /\ nickOf' = [nickOf EXCEPT ![Bot] = n] /\ nickOf \in [People -> Nicks \cup {Off}] /\ Bot \in People
      /\ nickname' = n /\ pic' = Empty /\ raised' = FALSE /\ wire' = wire /\ member' = member
      /\ wire = <<>> /\ ~On(Bot)
  BY PeopleFacts DEF SignOn, chanVars, NetworkInv, NetworkTyped, PeopleInv
<1>2. \A c \in Chans : ~Here(c)'
  BY <1>1, PeopleFacts DEF Here
<1>3. Leads(Sound, Heard(nickOf'[Bot]), pic', wire', Mirrors')
  BY <1>1, <1>2, NothingToHear
<1>4. wire' \in Seq(LineTo(nickOf'[Bot])) /\ nickname' = nickOf'[Bot]
  BY <1>1
<1>. QED  BY <1>1, <1>3, <1>4 DEF PictureInv

LEMMA ConnectionLostPicture ==
  ASSUME NetworkInv, ConnectionLost
  PROVE  PictureInv'
<1>. SUFFICES ASSUME ~renamed' PROVE PictureInv'
  BY DEF PictureInv
<1>1. /\ nickOf' = [nickOf EXCEPT ![Bot] = Off] /\ nickOf \in [People -> Nicks \cup {Off}] /\ Bot \in People
      /\ nickname' = Off /\ pic' = Empty /\ raised' = raised /\ wire' = <<>> /\ ~renamed
      /\ member' = [c \in Chans |-> member[c] \ {Bot}]
  BY PeopleFacts DEF ConnectionLost, NetworkInv, NetworkTyped
<1>2. \A c \in Chans : ~Here(c)'
  BY <1>1 DEF Here
<1>3. Leads(Sound, Heard(nickOf'[Bot]), pic', wire', Mirrors')
  BY <1>1, <1>2, NothingToHear
<1>4. wire' \in Seq(LineTo(nickOf'[Bot])) /\ nickname' = nickOf'[Bot] /\ ~raised
  BY <1>1 DEF NetworkInv, PictureInv
<1>. QED  BY <1>1, <1>3, <1>4 DEF PictureInv

----------------------------------------------------------------------------
(* Accounts.                                                               *)

\* Every nick's account stays true if it stays what it was, with who holds the nick, or
\* becomes nothing, or that of a holder.
LEMMA StillRemembered ==
  ASSUME NEW a \in Remembered, NEW b \in Memories, lost \subseteq lost',
         \A n \in Nicks \ lost' :
           \/ b[n] = NoAccount
           \/ \E u \in Holders(n)' : b[n] = account'[u]
           \/ b[n] = a[n] /\ \A u \in Holders(n) : u \in Holders(n)' /\ account'[u] = account[u]
  PROVE  b \in Remembered'
<1>1. ASSUME NEW n \in Nicks \ lost' PROVE b[n] \in {NoAccount} \cup {account'[u] : u \in Holders(n)'}
  <2>1. a[n] \in {NoAccount} \cup {account[u] : u \in Holders(n)}
    BY DEF Remembered
  <2>2. CASE b[n] = NoAccount
    BY <2>2
  <2>3. CASE \E u \in Holders(n)' : b[n] = account'[u]
    BY <2>3
  <2>4. CASE b[n] = a[n] /\ \A u \in Holders(n) : u \in Holders(n)' /\ account'[u] = account[u]
    BY <2>1, <2>4
  <2>. QED  BY <2>2, <2>3, <2>4
<1>. QED  BY <1>1 DEF Remembered

LEMMA Recollecting ==
  ASSUME NetworkInv, NEW m \in Line, accounts' = accounts, On(Bot)' => On(Bot),
         \/ wire' = wire /\ \A a \in Remembered : a \in Remembered'
         \/ wire' = Append(wire, m) /\ \A a \in Remembered : Recalled(a, m) \in Remembered'
  PROVE  AccountInv' /\ wire' \in Seq(Line)
<1>1. wire \in Seq(Line)
  BY PeopleFacts
<1>2. wire' \in Seq(Line)
  BY <1>1
<1>3. ASSUME On(Bot)' PROVE Leads(Memories, Recall, accounts', wire', Remembered')
  <2>1. Leads(Memories, Recall, accounts, wire, Remembered)
    BY <1>3 DEF NetworkInv, AccountInv
  <2>2. CASE wire' = wire /\ \A a \in Remembered : a \in Remembered'
    BY <2>1, <2>2, LeadsWider
  <2>3. CASE wire' = Append(wire, m) /\ \A a \in Remembered : Recalled(a, m) \in Remembered'
    <3>1. \A a \in Memories : a \in Remembered => Recall[<<m, a>>] \in Memories /\ Recall[<<m, a>>] \in Remembered'
      BY <2>3, RecallIs
    <3>2. Leads(Memories, Recall, accounts, Append(wire, m), Remembered')
      BY <1>1, <2>1, <3>1, LeadsFurther
    <3>. QED  BY <2>3, <3>2
  <2>. QED  BY <2>2, <2>3
<1>. QED  BY <1>2, <1>3 DEF AccountInv

\* Messages that are about no account.
LEMMA Quiet ==
  ASSUME NetworkInv, NEW m \in Line, m.cmd \notin {"JOIN", "QUIT", "NICK", "ACCOUNT"},
         wire' = wire \/ wire' = Append(wire, m), accounts' = accounts, On(Bot)' => On(Bot),
         \A a \in Remembered : a \in Remembered'
  PROVE  AccountInv' /\ wire' \in Seq(Line)
<1>1. \A a : Recalled(a, m) = a
  BY DEF Recalled
<1>. QED  BY <1>1, Recollecting

\* Nobody comes, goes or changes.
LEMMA SamePeople ==
  ASSUME NetworkInv, UNCHANGED <<nickOf, account, member, lost>>
  PROVE  \A a \in Remembered : a \in Remembered'
BY DEF Remembered, Holders, Seen

\* Who is in sight, and holds which nick.
LEMMA HoldersAre ==
  ASSUME NetworkInv
  PROVE  /\ \A n : \A u : u \in Holders(n) <=> u \in Others /\ nickOf[u] = n /\ \E c \in Chans : u \in member[c] /\ Bot \in member[c]
         /\ \A u \in Others : Seen(u) <=> \E c \in Chans : u \in member[c] /\ Bot \in member[c]
         /\ \A n : \A u \in Holders(n) : n \in Nicks /\ On(u) /\ n # nickOf[Bot] /\ \A v \in People : nickOf[v] = n => v = u
<1>1. \A u \in Others : Seen(u) <=> \E c \in Chans : u \in member[c] /\ Bot \in member[c]
  BY PeopleFacts DEF Seen
<1>2. \A n : \A u : u \in Holders(n) <=> u \in Others /\ nickOf[u] = n /\ \E c \in Chans : u \in member[c] /\ Bot \in member[c]
  BY <1>1 DEF Holders
<1>3. ASSUME NEW n, NEW u \in Holders(n)
      PROVE  n \in Nicks /\ On(u) /\ n # nickOf[Bot] /\ \A v \in People : nickOf[v] = n => v = u
  <2>1. u \in People /\ u # Bot /\ On(u) /\ nickOf[u] = n
    BY <1>2, <1>3, PeopleFacts
  <2>. QED  BY <2>1, PeopleFacts
<1>. QED  BY <1>1, <1>2, <1>3

LEMMA NextHolders ==
  \A n : \A u : u \in Holders(n)' <=> u \in Others /\ nickOf'[u] = n /\ (u = Bot \/ \E c \in Chans : u \in member'[c] /\ Bot \in member'[c])
BY DEF Holders, Seen

LEMMA JoinKnown ==
  ASSUME NetworkInv, NEW u \in Others, NEW c \in Chans, ServerJoin(u, c)
  PROVE  AccountInv' /\ wire' \in Seq(Line)
<1>. DEFINE n == nickOf[u]
            m == [cmd |-> "JOIN", nick |-> n, chan |-> c, acct |-> account[u]]
<1>1. /\ u # Bot /\ u \in People /\ n \in Nicks /\ account[u] \in Accounts \cup {NoAccount}
      /\ member' = [member EXCEPT ![c] = @ \cup {u}] /\ member \in [Chans -> SUBSET People]
      /\ UNCHANGED <<nickOf, account, accounts, lost>> /\ (On(Bot)' => On(Bot))
  BY PeopleFacts DEF ServerJoin, peopleVars, botVars, On, NetworkInv, NetworkTyped
<1>2. m \in Line /\ m.cmd = "JOIN" /\ m.nick = n /\ m.acct = account[u]
  <2>1. m \in JoinLine
    BY <1>1 DEF JoinLine
  <2>2. m \in Line
    <3>. HIDE DEF m
    <3>. QED  BY <2>1 DEF Line
  <2>. QED  BY <2>2
<1>3. wire' = IF Here(c) THEN Append(wire, m) ELSE wire
  <2>1. wire' = IF On(Bot) /\ Here(c) THEN wire \o (<<m>> \o <<>>) ELSE wire
    BY <1>1 DEF ServerJoin, Tell
  <2>. HIDE DEF m
  <2>2. wire \in Seq(Line) /\ (Here(c) => On(Bot))
    BY PeopleFacts
  <2>3. wire \o (<<m>> \o <<>>) = Append(wire, m)
    BY <1>2, <2>2, Bursts
  <2>. QED  BY <2>1, <2>2, <2>3
<1>. HIDE DEF m
<1>4. \A k : \A v \in Holders(k) : v \in Holders(k)' /\ account'[v] = account[v]
  BY <1>1, HoldersAre, NextHolders
<1>5. \A a \in Remembered : a \in Remembered'
  <2>1. Remembered \subseteq Memories
    BY DEF Remembered
  <2>. QED  BY <1>1, <1>4, <2>1, StillRemembered
<1>6. ASSUME Here(c), NEW a \in Remembered PROVE Recalled(a, m) \in Remembered'
  <2>. DEFINE b == Recalled(a, m)
  <2>1. b = IF account[u] = NoAccount THEN a ELSE [a EXCEPT ![n] = account[u]]
    BY <1>2 DEF Recalled
  <2>2. a \in Memories /\ b \in Memories
    BY <1>2, RecallIs DEF Remembered
  <2>3. account'[u] = account[u] /\ \A k : k = n => u \in Holders(k)'
    BY <1>1, <1>6, NextHolders DEF Here
  <2>4. ASSUME NEW k \in Nicks \ lost'
        PROVE  \/ \E v \in Holders(k)' : b[k] = account'[v]
               \/ b[k] = a[k] /\ \A v \in Holders(k) : v \in Holders(k)' /\ account'[v] = account[v]
    <3>1. CASE k = n /\ account[u] # NoAccount
      <4>1. b[k] = account[u]
        BY <1>1, <2>1, <2>2, <3>1 DEF Memories
      <4>. QED  BY <2>3, <3>1, <4>1
    <3>2. CASE k # n \/ account[u] = NoAccount
      <4>1. b[k] = a[k]
        BY <1>1, <2>1, <2>2, <3>2 DEF Memories
      <4>. QED  BY <1>4, <4>1
    <3>. QED  BY <3>1, <3>2
  <2>. HIDE DEF b
  <2>. QED  BY <1>1, <2>2, <2>4, StillRemembered DEF b
<1>. QED  BY <1>1, <1>2, <1>3, <1>5, <1>6, Recollecting

\* The bot has no account, and what follows its JOIN is of no account.
LEMMA BotJoinKnown ==
  ASSUME NetworkInv, NEW c \in Chans, ServerJoin(Bot, c)
  PROVE  AccountInv' /\ wire' \in Seq(Line)
<1>. DEFINE me == nickOf[Bot]
            list == NameList(c, member'[c])
            m1 == [cmd |-> "JOIN", nick |-> me, chan |-> c, acct |-> account[Bot]]
            m2 == [cmd |-> "TOPIC", chan |-> c, topic |-> topic[c]]
            m3 == [cmd |-> "NAMES", chan |-> c, list |-> list]
<1>1. /\ On(Bot) /\ me \in Nicks /\ account[Bot] = NoAccount
      /\ member' = [member EXCEPT ![c] = @ \cup {Bot}] /\ member \in [Chans -> SUBSET People]
      /\ UNCHANGED <<nickOf, account, accounts, lost>>
  BY PeopleFacts DEF ServerJoin, peopleVars, botVars, On, NetworkInv, NetworkTyped, PeopleInv
<1>2. member'[c] = member[c] \cup {Bot} /\ member'[c] \in SUBSET People /\ \A u \in member'[c] : On(u)
  BY <1>1, PeopleFacts
<1>3. list \in SUBSET Entries
  BY <1>2, ListedNames
<1>4. m1 \in Line /\ m2 \in Line /\ m3 \in Line
  <2>1. m1 \in JoinLine
    BY <1>1 DEF JoinLine
  <2>2. m2 \in TopicLine
    BY DEF TopicLine, NetworkInv, NetworkTyped
  <2>3. m3 \in NamesLine
    <3>. HIDE DEF list
    <3>. QED  BY <1>3 DEF NamesLine
  <2>. HIDE DEF m1, m2, m3
  <2>. QED  BY <2>1, <2>2, <2>3 DEF Line
<1>5. wire' = Append(Append(Append(wire, m1), m2), m3)
  <2>1. wire' = wire \o (<<m1>> \o <<m2, m3>>)
    BY <1>1 DEF ServerJoin, Tell
  <2>2. wire \in Seq(Line)
    BY PeopleFacts
  <2>. HIDE DEF m1, m2, m3
  <2>. QED  BY <1>4, <2>1, <2>2, Bursts
<1>6. \A a : Recalled(a, m1) = a /\ Recalled(a, m2) = a /\ Recalled(a, m3) = a
  BY <1>1 DEF Recalled
<1>7. \A k : \A v \in Holders(k) : v \in Holders(k)' /\ account'[v] = account[v]
  BY <1>1, HoldersAre, NextHolders
<1>8. \A a \in Remembered : a \in Remembered'
  <2>1. Remembered \subseteq Memories
    BY DEF Remembered
  <2>. QED  BY <1>1, <1>7, <2>1, StillRemembered
<1>. HIDE DEF m1, m2, m3
<1>. DEFINE w1 == Append(wire, m1)
            w2 == Append(w1, m2)
            w3 == Append(w2, m3)
<1>9. wire \in Seq(Line) /\ w1 \in Seq(Line) /\ w2 \in Seq(Line) /\ w3 \in Seq(Line)
  BY <1>4, PeopleFacts
<1>. HIDE DEF w1, w2, w3
<1>10. /\ \A a \in Memories : a \in Remembered => Recall[<<m1, a>>] \in Memories /\ Recall[<<m1, a>>] \in Remembered'
       /\ \A a \in Memories : a \in Remembered' => Recall[<<m2, a>>] \in Memories /\ Recall[<<m2, a>>] \in Remembered'
       /\ \A a \in Memories : a \in Remembered' => Recall[<<m3, a>>] \in Memories /\ Recall[<<m3, a>>] \in Remembered'
  BY <1>4, <1>6, <1>8, RecallIs
<1>11. Leads(Memories, Recall, accounts, wire, Remembered)
  BY <1>1 DEF NetworkInv, AccountInv
<1>12. Leads(Memories, Recall, accounts, w1, Remembered')
  BY <1>4, <1>9, <1>10, <1>11, LeadsFurther DEF w1
<1>13. Leads(Memories, Recall, accounts, w2, Remembered')
  BY <1>4, <1>9, <1>10, <1>12, LeadsFurther DEF w2
<1>14. Leads(Memories, Recall, accounts, w3, Remembered')
  BY <1>4, <1>9, <1>10, <1>13, LeadsFurther DEF w3
<1>15. wire' = w3
  BY <1>5 DEF w1, w2, w3
<1>. QED  BY <1>1, <1>9, <1>14, <1>15 DEF AccountInv

\* Whoever is left out of sight is lost.
LEMMA LeaveKnown ==
  ASSUME NetworkInv, NEW u \in People, NEW c \in Chans, NEW cmd \in {"PART", "KICK"}, ServerLeave(u, c, cmd)
  PROVE  AccountInv' /\ wire' \in Seq(Line)
<1>. DEFINE m == [cmd |-> cmd, nick |-> nickOf[u], chan |-> c]
<1>1. /\ nickOf[u] \in Nicks /\ member' = [member EXCEPT ![c] = @ \ {u}] /\ member \in [Chans -> SUBSET People]
      /\ lost' = lost \cup OutOfSight(member')
      /\ UNCHANGED <<nickOf, account, accounts>> /\ (On(Bot)' => On(Bot))
  BY PeopleFacts DEF ServerLeave, peopleVars, botVars, On, NetworkInv, NetworkTyped
<1>2. m \in Line /\ m.cmd \notin {"JOIN", "QUIT", "NICK", "ACCOUNT"}
  <2>1. m \in LeaveLine
    BY <1>1 DEF LeaveLine
  <2>2. m \in Line
    <3>. HIDE DEF m
    <3>. QED  BY <2>1 DEF Line
  <2>. QED  BY <2>2
<1>3. wire' = wire \/ wire' = Append(wire, m)
  <2>1. Tell(Here(c), <<m>>)
    BY DEF ServerLeave
  <2>. HIDE DEF m
  <2>. QED  BY <1>2, <2>1, ToldThere
<1>. HIDE DEF m
<1>4. ASSUME NEW k \in Nicks \ lost', NEW v \in Holders(k) PROVE v \in Holders(k)' /\ account'[v] = account[v]
  <2>1. v \in Others /\ nickOf[v] = k /\ Seen(v)
    BY HoldersAre, PeopleFacts
  <2>2. ~\A d \in Chans : ~({v, Bot} \subseteq member'[d])
    <3>1. k \notin OutOfSight(member')
      BY <1>1
    <3>. QED  BY <2>1, <3>1 DEF OutOfSight
  <2>. QED  BY <1>1, <2>1, <2>2, NextHolders
<1>5. \A a \in Remembered : a \in Remembered'
  <2>1. Remembered \subseteq Memories
    BY DEF Remembered
  <2>. QED  BY <1>1, <1>4, <2>1, StillRemembered
<1>. QED  BY <1>1, <1>2, <1>3, <1>5, Quiet

\* Who quits is forgotten.
LEMMA QuitKnown ==
  ASSUME NetworkInv, NEW u \in People, ServerQuit(u)
  PROVE  AccountInv' /\ wire' \in Seq(Line)
<1>. DEFINE n == nickOf[u]
            m == [cmd |-> "QUIT", nick |-> n]
<1>1. /\ u # Bot /\ u \in Others /\ n \in Nicks /\ nickOf' = [nickOf EXCEPT ![u] = Off]
      /\ nickOf \in [People -> Nicks \cup {Off}]
      /\ account' = [account EXCEPT ![u] = NoAccount] /\ account \in [People -> Accounts \cup {NoAccount}]
      /\ member' = [d \in Chans |-> member[d] \ {u}]
      /\ UNCHANGED <<accounts, lost>>
  BY PeopleFacts DEF ServerQuit, botVars, On, NetworkInv, NetworkTyped
<1>2. On(Bot)' => On(Bot)
  BY <1>1, PeopleFacts DEF On
<1>3. m \in Line /\ m.cmd = "QUIT" /\ m.nick = n
  <2>1. m \in QuitLine
    BY <1>1 DEF QuitLine
  <2>2. m \in Line
    <3>. HIDE DEF m
    <3>. QED  BY <2>1 DEF Line
  <2>. QED  BY <2>2
<1>4. wire' = IF On(Bot) /\ Seen(u) THEN Append(wire, m) ELSE wire
  <2>1. Tell(Seen(u), <<m>>)
    BY DEF ServerQuit
  <2>. HIDE DEF m
  <2>2. wire \o <<m>> = Append(wire, m)
    BY <1>3, PeopleFacts, Bursts
  <2>. QED  BY <2>1, <2>2 DEF Tell
<1>. HIDE DEF m
<1>5. ASSUME NEW k, NEW v \in Holders(k), v # u PROVE v \in Holders(k)' /\ account'[v] = account[v]
  <2>1. v \in Others /\ v \in People /\ nickOf[v] = k /\ \E d \in Chans : v \in member[d] /\ Bot \in member[d]
    BY HoldersAre, PeopleFacts
  <2>2. nickOf'[v] = k /\ \E d \in Chans : v \in member'[d] /\ Bot \in member'[d]
    BY <1>1, <1>5, <2>1
  <2>. QED  BY <1>1, <1>5, <2>1, <2>2, NextHolders
<1>6. ASSUME ~(On(Bot) /\ Seen(u)), NEW a \in Remembered PROVE a \in Remembered'
  <2>1. ~Seen(u)
    BY <1>1, <1>6, HoldersAre, PeopleFacts DEF Here
  <2>2. \A k : u \notin Holders(k)
    BY <2>1 DEF Holders
  <2>3. a \in Memories
    BY DEF Remembered
  <2>. QED  BY <1>1, <1>5, <2>2, <2>3, StillRemembered
<1>7. ASSUME NEW a \in Remembered PROVE Recalled(a, m) \in Remembered'
  <2>. DEFINE b == Recalled(a, m)
  <2>1. b = [a EXCEPT ![n] = NoAccount]
    BY <1>3 DEF Recalled
  <2>2. a \in Memories /\ b \in Memories
    BY <1>3, RecallIs DEF Remembered
  <2>3. ASSUME NEW k \in Nicks \ lost'
        PROVE  \/ b[k] = NoAccount
               \/ b[k] = a[k] /\ \A v \in Holders(k) : v \in Holders(k)' /\ account'[v] = account[v]
    <3>1. CASE k = n
      BY <2>1, <2>2, <3>1 DEF Memories
    <3>2. CASE k # n
      <4>1. b[k] = a[k]
        BY <2>1, <2>2, <3>2 DEF Memories
      <4>2. \A v \in Holders(k) : v # u
        BY <3>2, HoldersAre
      <4>. QED  BY <1>5, <4>1, <4>2
    <3>. QED  BY <3>1, <3>2
  <2>. HIDE DEF b
  <2>. QED  BY <1>1, <2>2, <2>3, StillRemembered DEF b
<1>. QED  BY <1>1, <1>2, <1>3, <1>4, <1>6, <1>7, Recollecting

\* Who comes back is not in sight yet.
LEMMA ReturnKnown ==
  ASSUME NetworkInv, NEW u \in People, NEW n \in Nicks, ServerReturn(u, n)
  PROVE  AccountInv' /\ wire' \in Seq(Line)
<1>1. /\ u # Bot /\ ~On(u) /\ nickOf' = [nickOf EXCEPT ![u] = n] /\ nickOf \in [People -> Nicks \cup {Off}]
      /\ UNCHANGED <<account, member, accounts, lost, wire>>
  BY DEF ServerReturn, botVars, chanVars, NetworkInv, NetworkTyped
<1>2. On(Bot)' => On(Bot)
  BY <1>1, PeopleFacts DEF On
<1>3. ASSUME NEW k, NEW v \in Holders(k) PROVE v \in Holders(k)' /\ account'[v] = account[v]
  <2>1. /\ v \in Others /\ v \in People /\ nickOf[v] = k /\ On(v)
        /\ \E d \in Chans : v \in member[d] /\ Bot \in member[d]
    BY HoldersAre, PeopleFacts
  <2>2. nickOf'[v] = k
    BY <1>1, <2>1
  <2>. QED  BY <1>1, <2>1, <2>2, NextHolders
<1>4. \A a \in Remembered : a \in Remembered'
  <2>1. Remembered \subseteq Memories
    BY DEF Remembered
  <2>. QED  BY <1>1, <1>3, <2>1, StillRemembered
<1>5. wire \in Seq(Line)
  BY PeopleFacts
<1>6. ASSUME On(Bot)' PROVE Leads(Memories, Recall, accounts', wire', Remembered')
  <2>1. Leads(Memories, Recall, accounts, wire, Remembered)
    BY <1>2, <1>6 DEF NetworkInv, AccountInv
  <2>2. Remembered \subseteq Remembered'
    BY <1>4
  <2>. QED  BY <1>1, <2>1, <2>2, LeadsWider
<1>. QED  BY <1>1, <1>5, <1>6 DEF AccountInv

\* Who changes nick takes the account along; nobody held the new nick.
LEMMA NickKnown ==
  ASSUME NetworkInv, NEW u \in People, NEW n \in Nicks, ServerNick(u, n)
  PROVE  AccountInv' /\ wire' \in Seq(Line)
<1>. DEFINE old == nickOf[u]
            m == [cmd |-> "NICK", nick |-> old, new |-> n]
<1>1. /\ old \in Nicks /\ old # n /\ nickOf' = [nickOf EXCEPT ![u] = n] /\ nickOf \in [People -> Nicks \cup {Off}]
      /\ \A v \in People : nickOf[v] # n
      /\ lost \subseteq lost' /\ (old \in lost => n \in lost')
      /\ UNCHANGED <<account, member, accounts>>
  BY PeopleFacts DEF ServerNick, chanVars, botVars, On, Free, NetworkInv, NetworkTyped
<1>2. On(Bot)' => On(Bot)
  <2>1. On(u) /\ u \in People /\ Bot \in People
    BY PeopleFacts DEF ServerNick
  <2>2. CASE u = Bot
    BY <2>1, <2>2
  <2>3. CASE u # Bot
    BY <1>1, <2>1, <2>3 DEF On
  <2>. QED  BY <2>2, <2>3
<1>3. m \in Line /\ m.cmd = "NICK" /\ m.nick = old /\ m.new = n
  <2>1. m \in NickLine
    BY <1>1 DEF NickLine
  <2>2. m \in Line
    <3>. HIDE DEF m
    <3>. QED  BY <2>1 DEF Line
  <2>. QED  BY <2>2
<1>4. wire' = IF On(Bot) /\ Seen(u) THEN Append(wire, m) ELSE wire
  <2>1. Tell(Seen(u), <<m>>)
    BY DEF ServerNick
  <2>. HIDE DEF m
  <2>2. wire \o <<m>> = Append(wire, m)
    BY <1>3, PeopleFacts, Bursts
  <2>. QED  BY <2>1, <2>2 DEF Tell
<1>. HIDE DEF m
<1>5. ASSUME NEW k, NEW v \in Holders(k), v # u PROVE v \in Holders(k)' /\ account'[v] = account[v]
  <2>1. v \in Others /\ v \in People /\ nickOf[v] = k /\ \E d \in Chans : v \in member[d] /\ Bot \in member[d]
    BY HoldersAre, PeopleFacts
  <2>2. nickOf'[v] = k
    BY <1>1, <1>5, <2>1
  <2>. QED  BY <1>1, <2>1, <2>2, NextHolders
<1>6. ASSUME ~(On(Bot) /\ Seen(u)), NEW a \in Remembered PROVE a \in Remembered'
  <2>1. \A k : u \notin Holders(k)
    <3>1. u = Bot \/ ~Seen(u)
      BY <1>6, HoldersAre, PeopleFacts DEF Here
    <3>. QED  BY <3>1, PeopleFacts DEF Holders
  <2>2. a \in Memories
    BY DEF Remembered
  <2>. QED  BY <1>1, <1>5, <2>1, <2>2, StillRemembered
<1>7. ASSUME Seen(u), NEW a \in Remembered PROVE Recalled(a, m) \in Remembered'
  <2>. DEFINE b == Recalled(a, m)
  <2>1. b = IF a[old] = NoAccount THEN a ELSE [a EXCEPT ![old] = NoAccount, ![n] = a[old]]
    BY <1>3 DEF Recalled
  <2>2. a \in Memories /\ b \in Memories
    BY <1>3, RecallIs DEF Remembered
  <2>3. ASSUME NEW k \in Nicks \ lost', k # old, k # n
        PROVE  b[k] = a[k] /\ \A v \in Holders(k) : v \in Holders(k)' /\ account'[v] = account[v]
    <3>1. b[k] = a[k]
      BY <2>1, <2>2, <2>3 DEF Memories
    <3>2. \A v \in Holders(k) : v # u
      BY <2>3, HoldersAre
    <3>. QED  BY <1>5, <3>1, <3>2
  <2>4. b[old] = NoAccount
    BY <1>1, <2>1, <2>2 DEF Memories
  <2>5. ASSUME n \notin lost'
        PROVE  b[n] = NoAccount \/ \E v \in Holders(n)' : b[n] = account'[v]
    <3>1. old \in Nicks \ lost /\ n \in Nicks \ lost
      BY <1>1, <2>5
    <3>2. /\ a[old] \in {NoAccount} \cup {account[v] : v \in Holders(old)}
          /\ a[n] \in {NoAccount} \cup {account[v] : v \in Holders(n)}
      BY <3>1 DEF Remembered
    <3>3. a[n] = NoAccount
      BY <1>1, <3>2, HoldersAre, PeopleFacts
    <3>4. CASE a[old] = NoAccount
      BY <2>1, <3>3, <3>4
    <3>5. CASE a[old] # NoAccount
      <4>1. b[n] = a[old]
        BY <1>1, <2>1, <2>2, <3>5 DEF Memories
      <4>2. PICK v \in Holders(old) : a[old] = account[v]
        BY <3>2, <3>5
      <4>3. v = u
        BY <4>2, HoldersAre
      <4>4. u \in Others /\ \E d \in Chans : u \in member[d] /\ Bot \in member[d]
        BY <4>2, <4>3, HoldersAre
      <4>5. u \in Holders(n)'
        BY <1>1, <4>4, NextHolders
      <4>. QED  BY <1>1, <4>1, <4>2, <4>3, <4>5
    <3>. QED  BY <3>4, <3>5
  <2>6. ASSUME NEW k \in Nicks \ lost'
        PROVE  \/ b[k] = NoAccount
               \/ \E v \in Holders(k)' : b[k] = account'[v]
               \/ b[k] = a[k] /\ \A v \in Holders(k) : v \in Holders(k)' /\ account'[v] = account[v]
    BY <2>3, <2>4, <2>5
  <2>. HIDE DEF b
  <2>. QED  BY <1>1, <2>2, <2>6, StillRemembered DEF b
<1>8. Seen(u) \/ ~(On(Bot) /\ Seen(u))
  OBVIOUS
<1>. QED  BY <1>1, <1>2, <1>3, <1>4, <1>6, <1>7, <1>8, Recollecting

\* A change of account of who is in sight is told.
LEMMA AccountKnown ==
  ASSUME NetworkInv, NEW u \in People, NEW acct \in Accounts \cup {NoAccount}, ServerAccount(u, acct)
  PROVE  AccountInv' /\ wire' \in Seq(Line)
<1>. DEFINE n == nickOf[u]
            m == [cmd |-> "ACCOUNT", nick |-> n, acct |-> acct]
<1>1. /\ u # Bot /\ u \in Others /\ n \in Nicks
      /\ account' = [account EXCEPT ![u] = acct] /\ account \in [People -> Accounts \cup {NoAccount}]
      /\ UNCHANGED <<nickOf, member, accounts, lost>> /\ (On(Bot)' => On(Bot))
  BY PeopleFacts DEF ServerAccount, chanVars, botVars, On, NetworkInv, NetworkTyped
<1>2. m \in Line /\ m.cmd = "ACCOUNT" /\ m.nick = n /\ m.acct = acct
  <2>1. m \in AccountLine
    BY <1>1 DEF AccountLine
  <2>2. m \in Line
    <3>. HIDE DEF m
    <3>. QED  BY <2>1 DEF Line
  <2>. QED  BY <2>2
<1>3. wire' = IF On(Bot) /\ Seen(u) THEN Append(wire, m) ELSE wire
  <2>1. Tell(Seen(u), <<m>>)
    BY DEF ServerAccount
  <2>. HIDE DEF m
  <2>2. wire \o <<m>> = Append(wire, m)
    BY <1>2, PeopleFacts, Bursts
  <2>. QED  BY <2>1, <2>2 DEF Tell
<1>. HIDE DEF m
<1>4. ASSUME NEW k, NEW v \in Holders(k), v # u PROVE v \in Holders(k)' /\ account'[v] = account[v]
  <2>1. v \in Others /\ v \in People /\ nickOf[v] = k /\ \E d \in Chans : v \in member[d] /\ Bot \in member[d]
    BY HoldersAre, PeopleFacts
  <2>. QED  BY <1>1, <1>4, <2>1, NextHolders
<1>5. ASSUME ~(On(Bot) /\ Seen(u)), NEW a \in Remembered PROVE a \in Remembered'
  <2>1. \A k : u \notin Holders(k)
    <3>1. ~Seen(u)
      BY <1>1, <1>5, HoldersAre, PeopleFacts DEF Here
    <3>. QED  BY <3>1 DEF Holders
  <2>2. a \in Memories
    BY DEF Remembered
  <2>. QED  BY <1>1, <1>4, <2>1, <2>2, StillRemembered
<1>6. ASSUME Seen(u), NEW a \in Remembered PROVE Recalled(a, m) \in Remembered'
  <2>. DEFINE b == Recalled(a, m)
  <2>1. b = [a EXCEPT ![n] = acct]
    BY <1>2 DEF Recalled
  <2>2. a \in Memories /\ b \in Memories
    BY <1>2, RecallIs DEF Remembered
  <2>3. ASSUME NEW k \in Nicks \ lost'
        PROVE  \/ \E v \in Holders(k)' : b[k] = account'[v]
               \/ b[k] = a[k] /\ \A v \in Holders(k) : v \in Holders(k)' /\ account'[v] = account[v]
    <3>1. CASE k = n
      <4>1. b[k] = acct /\ account'[u] = acct
        BY <1>1, <2>1, <2>2, <3>1 DEF Memories
      <4>2. u \in Holders(k)'
        BY <1>1, <1>6, <3>1, HoldersAre, NextHolders
      <4>. QED  BY <4>1, <4>2
    <3>2. CASE k # n
      <4>1. b[k] = a[k]
        BY <2>1, <2>2, <3>2 DEF Memories
      <4>2. \A v \in Holders(k) : v # u
        BY <3>2, HoldersAre
      <4>. QED  BY <1>4, <4>1, <4>2
    <3>. QED  BY <3>1, <3>2
  <2>. HIDE DEF b
  <2>. QED  BY <1>1, <2>2, <2>3, StillRemembered DEF b
<1>7. Seen(u) \/ ~(On(Bot) /\ Seen(u))
  OBVIOUS
<1>. QED  BY <1>1, <1>2, <1>3, <1>5, <1>6, <1>7, Recollecting

\* Ranks, modes, topics and answers are of no account.
LEMMA RoomKnown ==
  ASSUME NetworkInv, NEW m \in Line, m.cmd \notin {"JOIN", "QUIT", "NICK", "ACCOUNT"},
         wire' = wire \/ wire' = wire \o <<m>>, UNCHANGED <<nickOf, account, member, accounts, lost>>
  PROVE  AccountInv' /\ wire' \in Seq(Line)
<1>1. wire \o <<m>> = Append(wire, m)
  BY PeopleFacts, Bursts
<1>2. On(Bot)' => On(Bot)
  BY DEF On
<1>. QED  BY <1>1, <1>2, SamePeople, Quiet

LEMMA RankKnown ==
  ASSUME NetworkInv, NEW u \in People, NEW c \in Chans, NEW on \in BOOLEAN, NEW k \in RankModes,
         ServerRank(u, c, on, k)
  PROVE  AccountInv' /\ wire' \in Seq(Line)
<1>. DEFINE m == [cmd |-> "MODE", chan |-> c, on |-> on, mode |-> k, nick |-> nickOf[u]]
<1>1. nickOf[u] \in Nicks /\ UNCHANGED <<nickOf, account, member, accounts, lost>>
  BY PeopleFacts DEF ServerRank, peopleVars, botVars
<1>2. m \in Line /\ m.cmd = "MODE"
  <2>1. m \in RankLine
    BY <1>1 DEF RankLine
  <2>2. m \in Line
    <3>. HIDE DEF m
    <3>. QED  BY <2>1 DEF Line
  <2>. QED  BY <2>2
<1>3. wire' = wire \/ wire' = wire \o <<m>>
  BY DEF ServerRank, Tell
<1>. HIDE DEF m
<1>. QED  BY <1>1, <1>2, <1>3, RoomKnown

LEMMA ModeKnown ==
  ASSUME NetworkInv, NEW c \in Chans, NEW mode \in {"m", "b"}, ServerMode(c, mode)
  PROVE  AccountInv' /\ wire' \in Seq(Line)
<1>. DEFINE m == [cmd |-> "MODE", chan |-> c, on |-> IF mode = "m" THEN flags[c] = {} ELSE bans[c] = {},
                  mode |-> mode]
<1>1. UNCHANGED <<nickOf, account, member, accounts, lost>>
  BY DEF ServerMode, peopleVars, botVars
<1>2. m \in Line /\ m.cmd = "MODE"
  <2>1. m \in FlagLine
    BY DEF FlagLine
  <2>2. m \in Line
    <3>. HIDE DEF m
    <3>. QED  BY <2>1 DEF Line
  <2>. QED  BY <2>2
<1>3. wire' = wire \/ wire' = wire \o <<m>>
  BY DEF ServerMode, Tell
<1>. HIDE DEF m
<1>. QED  BY <1>1, <1>2, <1>3, RoomKnown

LEMMA TopicKnown ==
  ASSUME NetworkInv, NEW c \in Chans, NEW t \in Topics, ServerTopic(c, t)
  PROVE  AccountInv' /\ wire' \in Seq(Line)
<1>. DEFINE m == [cmd |-> "NEWTOPIC", chan |-> c, topic |-> t]
<1>1. UNCHANGED <<nickOf, account, member, accounts, lost>>
  BY DEF ServerTopic, peopleVars, botVars
<1>2. m \in Line /\ m.cmd = "NEWTOPIC"
  <2>1. m \in TopicLine
    BY DEF TopicLine
  <2>2. m \in Line
    <3>. HIDE DEF m
    <3>. QED  BY <2>1 DEF Line
  <2>. QED  BY <2>2
<1>3. wire' = wire \/ wire' = wire \o <<m>>
  BY DEF ServerTopic, Tell
<1>. HIDE DEF m
<1>. QED  BY <1>1, <1>2, <1>3, RoomKnown

LEMMA AnswerKnown ==
  ASSUME NetworkInv, NEW q \in asks, ServerAnswer(q)
  PROVE  AccountInv' /\ wire' \in Seq(Line)
<1>. DEFINE c == q[2]
            m1 == [cmd |-> "MODEIS", chan |-> c, flags |-> flags[c]]
            m2 == [cmd |-> "NAMES", chan |-> c, list |-> NameList(c, member[c])]
            m3 == [cmd |-> "BANS", chan |-> c, bans |-> bans[c]]
<1>1. /\ q[1] \in {"MODEIS", "NAMES", "BANS"} /\ c \in Chans
      /\ UNCHANGED <<nickOf, account, member, accounts, lost>>
  BY DEF ServerAnswer, NetworkInv, NetworkTyped, peopleVars, chanVars, botVars
<1>2. m1 \in Line /\ m2 \in Line /\ m3 \in Line
  <2>1. m1 \in FlagsLine /\ m3 \in BansLine
    BY <1>1 DEF FlagsLine, BansLine, NetworkInv, NetworkTyped
  <2>2. NameList(c, member[c]) \in SUBSET Entries
    BY <1>1, PeopleFacts, ListedNames
  <2>3. m2 \in NamesLine
    BY <1>1, <2>2 DEF NamesLine
  <2>. HIDE DEF m1, m2, m3
  <2>. QED  BY <2>1, <2>3 DEF Line
<1>3. m1.cmd = "MODEIS" /\ m2.cmd = "NAMES" /\ m3.cmd = "BANS"
  OBVIOUS
<1>4. wire' = IF On(Bot) /\ (Here(c) \/ q[1] = "MODEIS")
              THEN wire \o (CASE q[1] = "MODEIS" -> <<m1>> [] q[1] = "NAMES" -> <<m2>> [] q[1] = "BANS" -> <<m3>>)
              ELSE wire
  BY DEF ServerAnswer, Tell
<1>. HIDE DEF c, m1, m2, m3
<1>5. CASE q[1] = "MODEIS"
  BY <1>1, <1>2, <1>3, <1>4, <1>5, RoomKnown
<1>6. CASE q[1] = "NAMES"
  BY <1>1, <1>2, <1>3, <1>4, <1>6, RoomKnown
<1>7. CASE q[1] = "BANS"
  BY <1>1, <1>2, <1>3, <1>4, <1>7, RoomKnown
<1>. QED  BY <1>1, <1>5, <1>6, <1>7

LEMMA ServerAccounts ==
  ASSUME NetworkInv, Server
  PROVE  AccountInv' /\ wire' \in Seq(Line)
<1>. DEFINE Known == AccountInv' /\ wire' \in Seq(Line)
<1>1. ASSUME NEW u \in People, NEW c \in Chans, ServerJoin(u, c) PROVE Known
  BY <1>1, PeopleFacts, JoinKnown, BotJoinKnown
<1>2. ASSUME NEW u \in People, NEW c \in Chans, ServerLeave(u, c, "PART") PROVE Known
  BY <1>2, LeaveKnown
<1>3. ASSUME NEW u \in People, NEW c \in Chans, ServerLeave(u, c, "KICK") PROVE Known
  BY <1>3, LeaveKnown
<1>4. ASSUME NEW u \in People, NEW c \in Chans, NEW on \in BOOLEAN, NEW k \in RankModes, ServerRank(u, c, on, k)
      PROVE  Known
  BY <1>4, RankKnown
<1>5. ASSUME NEW u \in People, ServerQuit(u) PROVE Known
  BY <1>5, QuitKnown
<1>6. ASSUME NEW u \in People, NEW n \in Nicks, ServerReturn(u, n) PROVE Known
  BY <1>6, ReturnKnown
<1>7. ASSUME NEW u \in People, NEW n \in Nicks, ServerNick(u, n) PROVE Known
  BY <1>7, NickKnown
<1>8. ASSUME NEW u \in People, NEW a \in Accounts \cup {NoAccount}, ServerAccount(u, a) PROVE Known
  BY <1>8, AccountKnown
<1>9. ASSUME NEW c \in Chans, ServerMode(c, "m") \/ ServerMode(c, "b") PROVE Known
  BY <1>9, ModeKnown
<1>10. ASSUME NEW c \in Chans, NEW t \in Topics, ServerTopic(c, t) PROVE Known
  BY <1>10, TopicKnown
<1>11. ASSUME NEW q \in asks, ServerAnswer(q) PROVE Known
  BY <1>11, AnswerKnown
<1>. HIDE DEF Known
<1>12. Known
  BY <1>1, <1>2, <1>3, <1>4, <1>5, <1>6, <1>7, <1>8, <1>9, <1>10, <1>11 DEF Server
<1>. QED  BY <1>12 DEF Known

\* A handler takes the first message to the accounts.
LEMMA HandlerAccounts ==
  ASSUME NetworkInv, Handler
  PROVE  AccountInv' /\ wire' \in Seq(Line)
<1>. DEFINE m == Head(wire)
<1>1. wire \in Seq(Line) /\ pic \in Pictures /\ accounts \in Memories /\ raised \in BOOLEAN
  BY DEF NetworkInv, NetworkTyped, Memories
<1>2. /\ wire # <<>> /\ m \in Line /\ wire' = Tail(wire) /\ accounts' = Recalled(accounts, m)
      /\ UNCHANGED <<nickOf, account, member, lost>>
  BY <1>1, Handling DEF peopleVars, chanVars
<1>3. Tail(wire) \in Seq(Line)
  BY <1>1, <1>2
<1>4. ASSUME On(Bot)' PROVE Leads(Memories, Recall, accounts', wire', Remembered')
  <2>1. Leads(Memories, Recall, accounts, wire, Remembered)
    BY <1>2, <1>4 DEF NetworkInv, AccountInv, On
  <2>2. Leads(Memories, Recall, Recall[<<m, accounts>>], Tail(wire), Remembered)
    BY <1>1, <1>2, <2>1, LeadsOn
  <2>. HIDE DEF m
  <2>3. Recall[<<m, accounts>>] = accounts'
    BY <1>1, <1>2, RecallIs
  <2>4. Remembered \subseteq Remembered'
    BY <1>2, SamePeople
  <2>. QED  BY <1>2, <2>2, <2>3, <2>4, LeadsWider
<1>. QED  BY <1>2, <1>3, <1>4 DEF AccountInv

\* Signing on forgets them; without a connection nothing is claimed of them.
LEMMA SignOnAccounts ==
  ASSUME NetworkInv, NEW n \in Nicks, SignOn(n)
  PROVE  AccountInv' /\ wire' \in Seq(Line)
<1>1. accounts' = [k \in Nicks |-> NoAccount] /\ wire' = wire /\ wire = <<>>
  BY DEF SignOn, NetworkInv, PeopleInv
<1>2. accounts' \in Memories /\ \A k \in Nicks : accounts'[k] = NoAccount
  BY <1>1 DEF Memories
<1>3. accounts' \in Remembered'
  BY <1>2 DEF Remembered
<1>4. Leads(Memories, Recall, accounts', wire', Remembered')
  BY <1>1, <1>2, <1>3, LeadsStart
<1>. QED  BY <1>1, <1>4 DEF AccountInv

LEMMA ConnectionLostAccounts ==
  ASSUME NetworkInv, ConnectionLost
  PROVE  AccountInv' /\ wire' \in Seq(Line)
<1>1. nickOf'[Bot] = Off /\ wire' = <<>>
  BY PeopleFacts DEF ConnectionLost, NetworkInv, NetworkTyped
<1>. QED  BY <1>1 DEF AccountInv, On

LEMMA AskAccounts ==
  ASSUME NetworkInv, NEW c \in Chans, NEW what \in {"NAMES", "BANS"}, Ask(c, what)
  PROVE  AccountInv' /\ wire' \in Seq(Line)
<1>1. UNCHANGED <<nickOf, account, member, lost, accounts, wire>>
  BY DEF Ask, peopleVars, chanVars, botVars
<1>2. Remembered \subseteq Remembered'
  BY <1>1, SamePeople
<1>3. ASSUME On(Bot)' PROVE Leads(Memories, Recall, accounts', wire', Remembered')
  <2>1. Leads(Memories, Recall, accounts, wire, Remembered)
    BY <1>1, <1>3 DEF NetworkInv, AccountInv, On
  <2>. QED  BY <1>1, <1>2, <2>1, LeadsWider
<1>4. wire \in Seq(Line)
  BY PeopleFacts
<1>. QED  BY <1>1, <1>3, <1>4 DEF AccountInv

----------------------------------------------------------------------------
(* Types and people.                                                       *)

\* What a step of the server leaves alone.
LEMMA ServerLeaves ==
  ASSUME NetworkInv, Server
  PROVE  UNCHANGED botVars /\ asks' \subseteq asks /\ concern' = concern /\ (~On(Bot) => wire' = wire)
<1>. DEFINE Same == UNCHANGED botVars /\ asks' \subseteq asks /\ concern' = concern /\ (~On(Bot) => wire' = wire)
<1>1. ASSUME NEW u \in People, NEW c \in Chans, ServerJoin(u, c) PROVE Same
  BY <1>1 DEF ServerJoin, Tell, Comes, Happens
<1>2. ASSUME NEW u \in People, NEW c \in Chans, NEW cmd, ServerLeave(u, c, cmd) PROVE Same
  BY <1>2 DEF ServerLeave, Tell, Happens
<1>3. ASSUME NEW u \in People, NEW c \in Chans, NEW on \in BOOLEAN, NEW k \in RankModes, ServerRank(u, c, on, k)
      PROVE  Same
  BY <1>3 DEF ServerRank, Tell, Happens
<1>4. ASSUME NEW u \in People, ServerQuit(u) PROVE Same
  BY <1>4 DEF ServerQuit, Tell, Happens
<1>5. ASSUME NEW u \in People, NEW n \in Nicks, ServerReturn(u, n) \/ ServerNick(u, n) PROVE Same
  BY <1>5 DEF ServerReturn, ServerNick, Tell, Happens
<1>6. ASSUME NEW u \in People, NEW a \in Accounts \cup {NoAccount}, ServerAccount(u, a) PROVE Same
  BY <1>6 DEF ServerAccount, Tell, Happens
<1>7. ASSUME NEW c \in Chans, NEW mode, ServerMode(c, mode) PROVE Same
  BY <1>7 DEF ServerMode, Tell, Happens
<1>8. ASSUME NEW c \in Chans, NEW t \in Topics, ServerTopic(c, t) PROVE Same
  BY <1>8 DEF ServerTopic, Tell, Happens
<1>9. ASSUME NEW q \in asks, ServerAnswer(q) PROVE Same
  BY <1>9 DEF ServerAnswer, Tell
<1>. HIDE DEF Same
<1>10. Same
  BY <1>1, <1>2, <1>3, <1>4, <1>5, <1>6, <1>7, <1>8, <1>9 DEF Server
<1>. QED  BY <1>10 DEF Same

\* The network, as its own steps keep it.
World ==
  /\ nickOf \in [People -> Nicks \cup {Off}]
  /\ account \in [People -> Accounts \cup {NoAccount}]
  /\ member \in [Chans -> SUBSET People]
  /\ ranks \in [Chans -> SUBSET (People \X RankModes)]
  /\ flags \in [Chans -> SUBSET {"m"}] /\ bans \in [Chans -> SUBSET {"mask"}]
  /\ topic \in [Chans -> Topics]
  /\ events \in 0..concern.most /\ renamed \in BOOLEAN /\ lost \subseteq Nicks
  /\ \A u, v \in People : nickOf[u] # Off /\ nickOf[u] = nickOf[v] => u = v
  /\ \A c \in Chans : \A u \in member[c] : nickOf[u] # Off
  /\ \A c \in Chans : \A r \in ranks[c] : r[1] \in member[c]
  /\ account[Bot] = NoAccount

LEMMA WorldIs == NetworkInv => World /\ Bot \in People /\ Off \notin Nicks /\ concern.most \in Nat
<1>1. NetworkInv => concern.most \in Nat
  BY NetworkAssumption DEF NetworkInv, NetworkTyped
<1>. QED  BY <1>1, NetworkAssumption DEF NetworkInv, NetworkTyped, PeopleInv, World, People, On

LEMMA ServerWorld ==
  ASSUME NetworkInv, Server
  PROVE  World' /\ (On(Bot)' <=> On(Bot))
<1>. DEFINE Kept == World' /\ (nickOf'[Bot] # Off <=> nickOf[Bot] # Off)
<1>1. World /\ Bot \in People /\ Off \notin Nicks /\ concern.most \in Nat /\ events \in Nat
  BY WorldIs DEF World
<1>2. concern' = concern
  BY ServerLeaves
<1>3. events < concern.most => events + 1 \in 0..concern.most
  BY <1>1
<1>4. ASSUME NEW u \in People, NEW c \in Chans, ServerJoin(u, c) PROVE Kept
  <2>1. /\ nickOf[u] # Off /\ member' = [member EXCEPT ![c] = @ \cup {u}]
        /\ UNCHANGED <<nickOf, account, ranks, flags, bans, topic, renamed, lost>>
        /\ events' \in {events} \cup {k \in {events + 1} : events < concern.most}
    BY <1>4 DEF ServerJoin, Comes, Happens, peopleVars, On
  <2>. QED  BY <1>1, <1>2, <1>3, <2>1 DEF World
<1>5. ASSUME NEW u \in People, NEW c \in Chans, NEW cmd, ServerLeave(u, c, cmd) PROVE Kept
  <2>1. /\ member' = [member EXCEPT ![c] = @ \ {u}]
        /\ ranks' = [ranks EXCEPT ![c] = {r \in @ : r[1] # u}]
        /\ UNCHANGED <<nickOf, account, flags, bans, topic, renamed>>
        /\ events' = events + 1 /\ events < concern.most
        /\ lost' = lost \cup OutOfSight(member')
    BY <1>5 DEF ServerLeave, Happens, peopleVars
  <2>2. lost' \subseteq Nicks
    <3>1. OutOfSight(member') \subseteq Nicks
      BY PeopleFacts DEF OutOfSight, Seen
    <3>. QED  BY <1>1, <2>1, <3>1 DEF World
  <2>3. /\ member' \in [Chans -> SUBSET People] /\ ranks' \in [Chans -> SUBSET (People \X RankModes)]
        /\ \A d \in Chans : member'[d] \subseteq member[d]
        /\ \A d \in Chans : \A r \in ranks'[d] : r \in ranks[d] /\ r[1] \in member'[d]
    BY <1>1, <2>1 DEF World
  <2>. QED  BY <1>1, <1>2, <1>3, <2>1, <2>2, <2>3 DEF World
<1>6. ASSUME NEW u \in People, NEW c \in Chans, NEW on \in BOOLEAN, NEW k \in RankModes, ServerRank(u, c, on, k)
      PROVE  Kept
  <2>1. /\ u \in member[c] /\ ranks' = [ranks EXCEPT ![c] = IF on THEN @ \cup {<<u, k>>} ELSE @ \ {<<u, k>>}]
        /\ UNCHANGED <<nickOf, account, member, flags, bans, topic, renamed, lost>>
        /\ events' = events + 1 /\ events < concern.most
    BY <1>6 DEF ServerRank, Happens, peopleVars
  <2>2. /\ ranks' \in [Chans -> SUBSET (People \X RankModes)]
        /\ \A d \in Chans : \A r \in ranks'[d] : r[1] \in member[d]
    BY <1>1, <2>1 DEF World
  <2>. QED  BY <1>1, <1>2, <1>3, <2>1, <2>2 DEF World
<1>7. ASSUME NEW u \in People, ServerQuit(u) PROVE Kept
  <2>1. /\ u # Bot /\ nickOf' = [nickOf EXCEPT ![u] = Off]
        /\ account' = [account EXCEPT ![u] = NoAccount]
        /\ member' = [c \in Chans |-> member[c] \ {u}]
        /\ ranks' = [c \in Chans |-> {r \in ranks[c] : r[1] # u}]
        /\ UNCHANGED <<flags, bans, topic, renamed, lost>>
        /\ events' = events + 1 /\ events < concern.most
    BY <1>7 DEF ServerQuit, Happens
  <2>2. /\ nickOf' \in [People -> Nicks \cup {Off}] /\ account' \in [People -> Accounts \cup {NoAccount}]
        /\ \A v \in People : v # u => nickOf'[v] = nickOf[v] /\ account'[v] = account[v]
        /\ nickOf'[u] = Off
    BY <1>1, <2>1 DEF World
  <2>3. /\ member' \in [Chans -> SUBSET People] /\ ranks' \in [Chans -> SUBSET (People \X RankModes)]
        /\ \A d \in Chans : member'[d] = member[d] \ {u} /\ \A r \in ranks'[d] : r[1] \in member'[d]
    BY <1>1, <2>1 DEF World
  <2>4. \A v, w \in People : nickOf'[v] # Off /\ nickOf'[v] = nickOf'[w] => v = w
    BY <1>1, <2>2 DEF World
  <2>5. \A d \in Chans : \A v \in member'[d] : nickOf'[v] # Off
    BY <1>1, <2>2, <2>3 DEF World
  <2>. QED  BY <1>1, <1>2, <1>3, <2>1, <2>2, <2>3, <2>4, <2>5 DEF World
<1>8. ASSUME NEW u \in People, NEW n \in Nicks, ServerReturn(u, n) \/ ServerNick(u, n) PROVE Kept
  <2>1. /\ nickOf' = [nickOf EXCEPT ![u] = n] /\ \A v \in People : nickOf[v] # n
        /\ UNCHANGED <<account, member, ranks, flags, bans, topic>>
        /\ events' = events + 1 /\ events < concern.most
        /\ u = Bot => nickOf[u] # Off
    BY <1>8 DEF ServerReturn, ServerNick, Happens, Free, chanVars, On
  <2>2. renamed' \in BOOLEAN /\ lost' \subseteq Nicks
    BY <1>1, <1>8 DEF ServerReturn, ServerNick, World
  <2>3. nickOf' \in [People -> Nicks \cup {Off}] /\ nickOf'[u] = n
        /\ \A v \in People : v # u => nickOf'[v] = nickOf[v]
    BY <1>1, <2>1 DEF World
  <2>4. \A v, w \in People : nickOf'[v] # Off /\ nickOf'[v] = nickOf'[w] => v = w
    BY <1>1, <2>1, <2>3 DEF World
  <2>5. \A d \in Chans : \A v \in member[d] : nickOf'[v] # Off
    BY <1>1, <2>3 DEF World
  <2>. QED  BY <1>1, <1>2, <1>3, <2>1, <2>2, <2>3, <2>4, <2>5 DEF World
<1>9. ASSUME NEW u \in People, NEW a \in Accounts \cup {NoAccount}, ServerAccount(u, a) PROVE Kept
  <2>1. /\ u # Bot /\ account' = [account EXCEPT ![u] = a]
        /\ UNCHANGED <<nickOf, member, ranks, flags, bans, topic, renamed, lost>>
        /\ events' = events + 1 /\ events < concern.most
    BY <1>9 DEF ServerAccount, Happens, chanVars
  <2>. QED  BY <1>1, <1>2, <1>3, <2>1 DEF World
<1>10. ASSUME NEW c \in Chans, NEW mode, ServerMode(c, mode) PROVE Kept
  <2>1. /\ flags' \in [Chans -> SUBSET {"m"}] /\ bans' \in [Chans -> SUBSET {"mask"}]
        /\ UNCHANGED <<nickOf, account, member, ranks, topic, renamed, lost>>
        /\ events' = events + 1 /\ events < concern.most
    BY <1>1, <1>10 DEF ServerMode, Happens, peopleVars, World
  <2>. QED  BY <1>1, <1>2, <1>3, <2>1 DEF World
<1>11. ASSUME NEW c \in Chans, NEW t \in Topics, ServerTopic(c, t) PROVE Kept
  <2>1. /\ topic' = [topic EXCEPT ![c] = t]
        /\ UNCHANGED <<nickOf, account, member, ranks, flags, bans, renamed, lost>>
        /\ events' = events + 1 /\ events < concern.most
    BY <1>11 DEF ServerTopic, Happens, peopleVars
  <2>. QED  BY <1>1, <1>2, <1>3, <2>1 DEF World
<1>12. ASSUME NEW q \in asks, ServerAnswer(q) PROVE Kept
  <2>1. UNCHANGED <<nickOf, account, member, ranks, flags, bans, topic, events, renamed, lost>>
    BY <1>12 DEF ServerAnswer, peopleVars, chanVars
  <2>. QED  BY <1>1, <1>2, <2>1 DEF World
<1>. HIDE DEF Kept
<1>13. Kept
  BY <1>4, <1>5, <1>6, <1>7, <1>8, <1>9, <1>10, <1>11, <1>12 DEF Server
<1>. QED  BY <1>13 DEF Kept, On

\* The types and the people after a step of the network, from what the bot keeps.
LEMMA WorldKept ==
  ASSUME World', asks' \subseteq {"MODEIS", "NAMES", "BANS"} \X Chans, concern' \in Concerns,
         nickname' \in Nicks \cup {Off}, pic' \in Pictures, accounts' \in Memories, raised' \in BOOLEAN,
         nickOf'[Bot] = Off => wire' = <<>> /\ nickname' = Off /\ pic' = Empty
  PROVE  NetworkTyped' /\ PeopleInv'
<1>1. NetworkTyped'
  BY DEF NetworkTyped, World, Memories
<1>2. PeopleInv'
  BY DEF PeopleInv, World, On
<1>. QED  BY <1>1, <1>2

LEMMA ServerTyped ==
  ASSUME NetworkInv, Server
  PROVE  NetworkTyped' /\ PeopleInv'
<1>1. World' /\ (On(Bot)' <=> On(Bot))
  BY ServerWorld
<1>2. UNCHANGED botVars /\ asks' \subseteq asks /\ concern' = concern /\ (~On(Bot) => wire' = wire)
  BY ServerLeaves
<1>3. /\ asks \subseteq {"MODEIS", "NAMES", "BANS"} \X Chans /\ concern \in Concerns
      /\ nickname \in Nicks \cup {Off} /\ pic \in Pictures /\ accounts \in Memories /\ raised \in BOOLEAN
      /\ ~On(Bot) => wire = <<>> /\ nickname = Off /\ pic = Empty
  BY DEF NetworkInv, NetworkTyped, PeopleInv, Memories
<1>4. /\ asks' \subseteq {"MODEIS", "NAMES", "BANS"} \X Chans /\ concern' \in Concerns
      /\ nickname' \in Nicks \cup {Off} /\ pic' \in Pictures /\ accounts' \in Memories /\ raised' \in BOOLEAN
  BY <1>2, <1>3 DEF botVars
<1>5. nickOf'[Bot] = Off => wire' = <<>> /\ nickname' = Off /\ pic' = Empty
  BY <1>1, <1>2, <1>3 DEF On, botVars
<1>. QED  BY <1>1, <1>4, <1>5, WorldKept

LEMMA HandlerTyped ==
  ASSUME NetworkInv, Handler
  PROVE  NetworkTyped' /\ PeopleInv'
<1>1. wire \in Seq(Line) /\ pic \in Pictures /\ accounts \in Memories /\ raised \in BOOLEAN
  BY DEF NetworkInv, NetworkTyped, Memories
<1>2. /\ wire # <<>> /\ Head(wire) \in Line /\ pic' \in Pictures
      /\ accounts' = Recalled(accounts, Head(wire)) /\ raised' \in BOOLEAN
      /\ asks' \subseteq asks \cup ({"MODEIS"} \X Chans) /\ nickname' \in {nickname} \cup Nicks
      /\ UNCHANGED <<peopleVars, chanVars, concern, events, renamed, lost>>
  BY <1>1, Handling
<1>3. accounts' \in Memories
  BY <1>1, <1>2, RecallIs
<1>4. World'
  BY <1>2, WorldIs DEF World, peopleVars, chanVars
<1>5. nickOf'[Bot] # Off
  BY <1>2 DEF NetworkInv, PeopleInv, On, peopleVars
<1>6. /\ asks \subseteq {"MODEIS", "NAMES", "BANS"} \X Chans /\ concern \in Concerns /\ nickname \in Nicks \cup {Off}
  BY DEF NetworkInv, NetworkTyped
<1>7. asks' \subseteq {"MODEIS", "NAMES", "BANS"} \X Chans
  BY <1>2, <1>6
<1>. QED  BY <1>2, <1>3, <1>4, <1>5, <1>6, <1>7, WorldKept

LEMMA SignOnTyped ==
  ASSUME NetworkInv, NEW n \in Nicks, SignOn(n)
  PROVE  NetworkTyped' /\ PeopleInv'
<1>1. World /\ Bot \in People /\ Off \notin Nicks
  BY WorldIs
<1>2. /\ nickOf' = [nickOf EXCEPT ![Bot] = n] /\ \A v \in People : nickOf[v] # n
      /\ nickname' = n /\ pic' = Empty /\ accounts' = [m \in Nicks |-> NoAccount]
      /\ renamed' = FALSE /\ lost' = {} /\ raised' = FALSE
      /\ UNCHANGED <<account, member, ranks, flags, bans, topic, asks, concern, events>>
  BY DEF SignOn, Free, chanVars
<1>3. nickOf' \in [People -> Nicks \cup {Off}] /\ nickOf'[Bot] = n /\ n # Off
      /\ \A v \in People : v # Bot => nickOf'[v] = nickOf[v]
  BY <1>1, <1>2 DEF World
<1>4. \A v, w \in People : nickOf'[v] # Off /\ nickOf'[v] = nickOf'[w] => v = w
  BY <1>1, <1>2, <1>3 DEF World
<1>5. \A d \in Chans : \A v \in member[d] : nickOf'[v] # Off
  BY <1>1, <1>3 DEF World
<1>6. World'
  BY <1>1, <1>2, <1>3, <1>4, <1>5 DEF World
<1>7. /\ asks' \subseteq {"MODEIS", "NAMES", "BANS"} \X Chans /\ concern' \in Concerns
      /\ nickname' \in Nicks \cup {Off} /\ accounts' \in Memories /\ raised' \in BOOLEAN
  BY <1>2 DEF NetworkInv, NetworkTyped, Memories
<1>8. pic' \in Pictures
  BY <1>2, EmptyIsSound DEF Sound
<1>. QED  BY <1>3, <1>6, <1>7, <1>8, WorldKept

LEMMA ConnectionLostTyped ==
  ASSUME NetworkInv, ConnectionLost
  PROVE  NetworkTyped' /\ PeopleInv'
<1>1. World /\ Bot \in People /\ concern.most \in Nat
  BY WorldIs
<1>2. /\ nickOf' = [nickOf EXCEPT ![Bot] = Off]
      /\ member' = [c \in Chans |-> member[c] \ {Bot}]
      /\ ranks' = [c \in Chans |-> {r \in ranks[c] : r[1] # Bot}]
      /\ events < concern.most /\ events' = events + 1
      /\ wire' = <<>> /\ asks' = {} /\ nickname' = Off /\ pic' = Empty
      /\ UNCHANGED <<account, flags, bans, topic, concern, accounts, raised, renamed, lost>>
  BY DEF ConnectionLost
<1>3. nickOf' \in [People -> Nicks \cup {Off}] /\ nickOf'[Bot] = Off
      /\ \A v \in People : v # Bot => nickOf'[v] = nickOf[v]
  BY <1>1, <1>2 DEF World
<1>4. /\ member' \in [Chans -> SUBSET People] /\ ranks' \in [Chans -> SUBSET (People \X RankModes)]
      /\ \A d \in Chans : member'[d] = member[d] \ {Bot} /\ \A r \in ranks'[d] : r[1] \in member'[d]
  BY <1>1, <1>2 DEF World
<1>5. \A v, w \in People : nickOf'[v] # Off /\ nickOf'[v] = nickOf'[w] => v = w
  BY <1>1, <1>3 DEF World
<1>6. \A d \in Chans : \A v \in member'[d] : nickOf'[v] # Off
  BY <1>1, <1>3, <1>4 DEF World
<1>7. events' \in 0..concern'.most
  BY <1>1, <1>2 DEF World
<1>8. World'
  BY <1>1, <1>2, <1>3, <1>4, <1>5, <1>6, <1>7 DEF World
<1>9. /\ asks' \subseteq {"MODEIS", "NAMES", "BANS"} \X Chans /\ concern' \in Concerns
      /\ nickname' \in Nicks \cup {Off} /\ accounts' \in Memories /\ raised' \in BOOLEAN
  BY <1>2 DEF NetworkInv, NetworkTyped, Memories
<1>10. pic' \in Pictures
  BY <1>2, EmptyIsSound DEF Sound
<1>. QED  BY <1>2, <1>8, <1>9, <1>10, WorldKept

LEMMA AskTyped ==
  ASSUME NetworkInv, NEW c \in Chans, NEW what \in {"NAMES", "BANS"}, Ask(c, what)
  PROVE  NetworkTyped' /\ PeopleInv'
<1>1. World /\ concern.most \in Nat
  BY WorldIs
<1>2. /\ events < concern.most /\ events' = events + 1 /\ asks' = asks \cup {<<what, c>>}
      /\ UNCHANGED <<nickOf, account, member, ranks, flags, bans, topic, concern, wire, nickname, pic, accounts,
                     raised, renamed, lost>>
  BY DEF Ask, peopleVars, chanVars, botVars
<1>3. World'
  BY <1>1, <1>2 DEF World
<1>4. /\ asks' \subseteq {"MODEIS", "NAMES", "BANS"} \X Chans /\ concern' \in Concerns
      /\ nickname' \in Nicks \cup {Off} /\ pic' \in Pictures /\ accounts' \in Memories /\ raised' \in BOOLEAN
      /\ nickOf'[Bot] = Off => wire' = <<>> /\ nickname' = Off /\ pic' = Empty
  BY <1>2 DEF NetworkInv, NetworkTyped, PeopleInv, Memories, On
<1>. QED  BY <1>3, <1>4, WorldKept

----------------------------------------------------------------------------
(* The invariant holds.                                                    *)

LEMMA NetworkStarts == NetworkInit => NetworkInv
<1>. SUFFICES ASSUME NetworkInit PROVE NetworkInv
  OBVIOUS
<1>1. /\ Bot \in People /\ Off \notin Nicks /\ Home \in [Others -> Nicks] /\ NoTopic \in Topics
      /\ concern \in Concerns /\ concern.most \in Nat /\ Bot \notin Others /\ BotNick \in Nicks
  BY NetworkAssumption, NickAssumption DEF NetworkInit, People
<1>2. /\ nickOf \in [People -> Nicks \cup {Off}] /\ nickOf[Bot] = Off
      /\ \A u \in Others : nickOf[u] = Home[u] /\ Home[u] \in Nicks
  BY <1>1 DEF NetworkInit, People
<1>3. member \in [Chans -> SUBSET Others]
  BY NetworkAssumption DEF NetworkInit
<1>4. \A c \in Chans : ~Here(c) /\ \A u \in member[c] : nickOf[u] # Off
  BY <1>1, <1>2, <1>3 DEF Here
<1>5. NetworkTyped
  <2>1. pic \in Pictures
    BY EmptyIsSound DEF NetworkInit, Sound
  <2>2. member \in [Chans -> SUBSET People]
    BY <1>3 DEF People
  <2>3. /\ account \in [People -> Accounts \cup {NoAccount}] /\ ranks \in [Chans -> SUBSET (People \X RankModes)]
        /\ flags \in [Chans -> SUBSET {"m"}] /\ bans \in [Chans -> SUBSET {"mask"}] /\ topic \in [Chans -> Topics]
        /\ accounts \in [Nicks -> Accounts \cup {NoAccount}]
    <3>. DEFINE roles == People \X RankModes
    <3>1. ranks \in [Chans -> SUBSET roles]
      <4>. HIDE DEF roles
      <4>. QED  BY DEF NetworkInit
    <3>2. account \in [People -> Accounts \cup {NoAccount}] /\ accounts \in [Nicks -> Accounts \cup {NoAccount}]
      BY DEF NetworkInit
    <3>3. flags \in [Chans -> SUBSET {"m"}]
      BY DEF NetworkInit
    <3>4. bans \in [Chans -> SUBSET {"mask"}]
      BY DEF NetworkInit
    <3>5. topic \in [Chans -> Topics]
      BY <1>1 DEF NetworkInit
    <3>. QED  BY <3>1, <3>2, <3>3, <3>4, <3>5
  <2>4. /\ asks \subseteq {"MODEIS", "NAMES", "BANS"} \X Chans /\ events \in 0..concern.most /\ concern \in Concerns
        /\ nickname \in Nicks \cup {Off} /\ renamed \in BOOLEAN /\ raised \in BOOLEAN /\ lost \subseteq Nicks
    <3>1. asks = {} /\ events = 0 /\ nickname = Off /\ renamed = FALSE /\ raised = FALSE /\ lost = {}
      BY DEF NetworkInit
    <3>2. 0 \in 0..concern.most
      BY <1>1
    <3>. QED  BY <1>1, <3>1, <3>2
  <2>. QED  BY <1>2, <2>1, <2>2, <2>3, <2>4 DEF NetworkTyped
<1>6. PeopleInv
  <2>1. \A u, v \in People : On(u) /\ nickOf[u] = nickOf[v] => u = v
    BY <1>1, <1>2, NetworkAssumption DEF On, People
  <2>2. \A c \in Chans : \A r \in ranks[c] : r[1] \in member[c]
    BY DEF NetworkInit
  <2>3. account[Bot] = NoAccount /\ wire = <<>> /\ nickname = Off /\ pic = Empty
    BY <1>1 DEF NetworkInit
  <2>. QED  BY <1>4, <2>1, <2>2, <2>3 DEF PeopleInv, On
<1>7. PictureInv
  <2>1. Empty \in Sound /\ \A c \in Chans : Empty.chan[c] \in Right(c)
    BY <1>4, EmptyIsSound DEF Right
  <2>2. Leads(Sound, Heard(nickOf[Bot]), Empty, <<>>, Mirrors)
    BY <2>1, LeadsStart DEF Mirrors
  <2>3. wire \in Seq(LineTo(nickOf[Bot]))
    BY DEF NetworkInit
  <2>. QED  BY <1>2, <2>2, <2>3 DEF PictureInv, NetworkInit
<1>8. AccountInv
  BY <1>2 DEF AccountInv, On
<1>9. wire \in Seq(Line)
  BY DEF NetworkInit
<1>. QED  BY <1>5, <1>6, <1>7, <1>8, <1>9 DEF NetworkInv

LEMMA NetworkStep == NetworkInv /\ [NetworkNext]_networkVars => NetworkInv'
<1>. SUFFICES ASSUME NetworkInv, [NetworkNext]_networkVars PROVE NetworkInv'
  OBVIOUS
<1>1. CASE Server
  BY <1>1, ServerTyped, ServerAccounts, ServerPicture DEF NetworkInv
<1>2. CASE Handler
  BY <1>2, HandlerTyped, HandlerAccounts, HandlerPicture DEF NetworkInv
<1>3. CASE ConnectionLost
  BY <1>3, ConnectionLostTyped, ConnectionLostAccounts, ConnectionLostPicture DEF NetworkInv
<1>4. ASSUME NEW n \in Nicks, SignOn(n) PROVE NetworkInv'
  BY <1>4, SignOnTyped, SignOnAccounts, SignOnPicture DEF NetworkInv
<1>5. ASSUME NEW c \in Chans, NEW what \in {"NAMES", "BANS"}, Ask(c, what) PROVE NetworkInv'
  BY <1>5, AskTyped, AskAccounts, AskPicture DEF NetworkInv
<1>6. CASE UNCHANGED networkVars
  <2>1. UNCHANGED <<nickOf, account, member, ranks, flags, bans, topic, wire, asks, concern, events, nickname, pic,
                    accounts, raised, renamed, lost>>
    BY <1>6 DEF networkVars, peopleVars, chanVars, botVars
  <2>2. NetworkTyped' /\ wire' \in Seq(Line) /\ PeopleInv'
    BY <2>1 DEF NetworkInv, NetworkTyped, PeopleInv, On
  <2>3. Remembered' = Remembered
    BY <2>1 DEF Remembered, Holders, Seen
  <2>4. AccountInv'
    BY <2>1, <2>3 DEF NetworkInv, AccountInv, On
  <2>5. Mirrors \subseteq Mirrors'
    <3>1. \A d \in Chans : Settled(d)' => Settled(d)
      BY <2>1 DEF Settled
    <3>2. \A d \in Chans : Right(d) \subseteq Right(d)'
      BY <2>1, <3>1, SameRoom, SameChannel
    <3>. QED  BY <3>2 DEF Mirrors
  <2>6. PictureInv'
    <3>1. CASE renamed'
      BY <3>1 DEF PictureInv
    <3>2. CASE ~renamed'
      BY <2>1, <2>5, <3>2, SaidNothing
    <3>. QED  BY <3>1, <3>2
  <2>. QED  BY <2>2, <2>4, <2>6 DEF NetworkInv
<1>. QED  BY <1>1, <1>2, <1>3, <1>4, <1>5, <1>6 DEF NetworkNext

\* What is on its way to the bot makes its picture, and the accounts it remembers, true of
\* the network: so the network's types, its people, the picture's references and what the
\* handlers of util/client.py make of every message (NetworkInv).
THEOREM HeardMakesTrue == NetworkSpec => []NetworkInv
<1>1. NetworkInit => NetworkInv
  BY NetworkStarts
<1>2. NetworkInv /\ [NetworkNext]_networkVars => NetworkInv'
  BY NetworkStep
<1>. QED  BY <1>1, <1>2, PTL DEF NetworkSpec

\* Users and channels refer to each other consistently in every state, and no lookup of a
\* channel in _userrename raises, until the bot changes its own nick.
THEOREM SoundPictures == NetworkSpec => []PictureIsSound
<1>1. NetworkInv => PictureIsSound
  BY LeadsEnd DEF NetworkInv, PictureInv, PictureIsSound, Sound
<1>2. NetworkSpec => []NetworkInv
  BY HeardMakesTrue
<1>. QED  BY <1>1, <1>2, PTL

\* Once the bot has heard all there is to hear, the picture is the network (PictureIsTrue),
\* on a network with one rank of operator.
THEOREM TruePictures == OneOp => (NetworkSpec => []PictureIsTrue)
<1>1. ASSUME NetworkInv, OneOp PROVE PictureIsTrue
  <2>1. NetworkTyped /\ wire \in Seq(Line)
    BY <1>1 DEF NetworkInv
  <2>2. ASSUME CaughtUp PROVE pic \in Mirrors
    <3>1. Leads(Sound, Heard(nickOf[Bot]), pic, wire, Mirrors) /\ wire = <<>>
      BY <1>1, <2>2 DEF NetworkInv, PictureInv, CaughtUp
    <3>. QED  BY <3>1, LeadsEnd
  <2>3. ASSUME CaughtUp, NEW c \in Chans
        PROVE  /\ Tracked(pic, c) <=> Here(c)
               /\ Here(c) => /\ Members(pic, c) = NicksIn(member[c])
                             /\ pic.chan[c].ops = HeldBy(c, OpModes)
                             /\ pic.chan[c].voices \subseteq HeldBy(c, VoiceModes)
                             /\ pic.chan[c].bans \subseteq bans[c]
                             /\ <<"MODEIS", c>> \notin asks => pic.chan[c].flags = flags[c]
    <3>1. ~Rejoins(wire, nickOf[Bot], c)
      BY <2>3 DEF CaughtUp, Rejoins
    <3>2. <<"MODEIS", c>> \notin asks => Settled(c)
      BY <3>1 DEF Settled
    <3>. QED  BY <1>1, <2>2, <2>3, <3>2, MirrorParts
  <2>4. MembersAreTrue /\ ModesAreTrue
    BY <2>3 DEF MembersAreTrue, ModesAreTrue
  <2>5. RanksAreTrue
    BY <2>3 DEF RanksAreTrue, HeldBy
  <2>6. AccountsAreTrue
    <3>. SUFFICES ASSUME On(Bot), wire = <<>>, NEW u \in Others, Seen(u), nickOf[u] \notin lost
                  PROVE  accounts[nickOf[u]] \in {account[u], NoAccount}
      BY DEF AccountsAreTrue
    <3>1. accounts \in Remembered
      BY <1>1, LeadsEnd DEF NetworkInv, AccountInv
    <3>2. u \in Holders(nickOf[u])
      BY DEF Holders
    <3>3. nickOf[u] \in Nicks /\ \A v \in Holders(nickOf[u]) : v = u
      BY <1>1, <3>2, HoldersAre, PeopleFacts
    <3>4. accounts[nickOf[u]] \in {NoAccount} \cup {account[v] : v \in Holders(nickOf[u])}
      BY <3>1, <3>3 DEF Remembered
    <3>. QED  BY <3>3, <3>4
  <2>. QED  BY <2>1, <2>4, <2>5, <2>6 DEF PictureIsTrue
<1>. SUFFICES ASSUME OneOp PROVE NetworkSpec => []PictureIsTrue
  OBVIOUS
<1>2. NetworkInv => PictureIsTrue
  BY <1>1
<1>3. NetworkSpec => []NetworkInv
  BY HeardMakesTrue
<1>. QED  BY <1>2, <1>3, PTL
================================================================================
