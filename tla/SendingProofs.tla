---------------------------- MODULE SendingProofs ----------------------------
(***************************************************************************)
(* Proofs about Throttle, for every linethrottle and every set of lines:    *)
(* nothing is overtaken or stuck, and the flood limit holds; and about       *)
(* Outbound, for every set of handlers and raising calls and any number of   *)
(* calls and connections: a call that was made is in one place, and calls    *)
(* that went the same way are in the order they were made.                   *)
(***************************************************************************)
EXTENDS Throttle, Outbound, SequenceTheorems, TLAPS

\* Taking the head of a queue: what is left is shorter by one and empty only if
\* the head was all there was.
LEMMA HeadTail ==
  ASSUME NEW S, NEW q \in Seq(S), q # <<>>
  PROVE  /\ Head(q) \in S /\ Tail(q) \in Seq(S)
         /\ q = <<Head(q)>> \o Tail(q)
         /\ Tail(q) # <<>> <=> Len(q) > 1
<1>1. Head(q) \in S /\ Tail(q) \in Seq(S) /\ q = <<Head(q)>> \o Tail(q)
      /\ Len(Tail(q)) = Len(q) - 1
  BY HeadTailProperties
<1>2. Tail(q) = <<>> <=> Len(Tail(q)) = 0
  BY <1>1, EmptySeq
<1>. QED  BY <1>1, <1>2, LenProperties

\* Moving the head of the queue to the end of what left keeps the whole.
LEMMA HeadMoves ==
  ASSUME NEW S, NEW p \in Seq(S), NEW q \in Seq(S), q # <<>>
  PROVE  p \o q = Append(p, Head(q)) \o Tail(q)
<1>1. Head(q) \in S /\ Tail(q) \in Seq(S) /\ q = <<Head(q)>> \o Tail(q)
  BY HeadTail
<1>2. <<Head(q)>> \in Seq(S)
  BY <1>1
<1>3. Append(p, Head(q)) = p \o <<Head(q)>>
  BY <1>1, AppendIsConcat
<1>4. p \o (<<Head(q)>> \o Tail(q)) = (p \o <<Head(q)>>) \o Tail(q)
  BY <1>1, <1>2, ConcatAssociative
<1>. QED  BY <1>1, <1>3, <1>4

----------------------------------------------------------------------------
(* Types.                                                                  *)

LEMMA InitTypeOK == Init => TypeOK
<1>. SUFFICES ASSUME Init PROVE TypeOK
  OBVIOUS
<1>1. now \in Nat
  BY ThrottleAssumption DEF Init
<1>2. dqueue \in Seq(Line) /\ asked \in Seq(Line) /\ out \in Seq(Line)
  BY EmptySeq DEF Init
<1>3. sentAt \in Seq(Nat) /\ Len(sentAt) = Len(out)
  BY EmptySeq DEF Init
<1>. QED  BY <1>1, <1>2, <1>3 DEF Init, TypeOK, NoCall

LEMMA SendTypeOK ==
  ASSUME TypeOK, NEW l \in Line, sendLine(l)
  PROVE  TypeOK'
<1>. USE DEF TypeOK
<1>1. asked' \in Seq(Line) /\ now' \in Nat /\ lastmsg' \in Nat
  BY DEF sendLine
<1>2. CASE Throttled(l)
  BY <1>1, <1>2, ThrottleAssumption DEF Throttled, Enqueue
<1>3. CASE AfterPause(l) \/ UnderThreshold(l)
  <2>1. PICK n \in Nat : SendNow(l, n)
    BY <1>3 DEF AfterPause, UnderThreshold
  <2>2. out' \in Seq(Line) /\ sentAt' \in Seq(Nat) /\ Len(sentAt') = Len(out')
    BY <2>1 DEF SendNow, Write
  <2>. QED  BY <1>1, <2>1, <2>2 DEF SendNow
<1>. QED  BY <1>2, <1>3 DEF sendLine

LEMMA DrainTypeOK ==
  ASSUME TypeOK, DrainLine
  PROVE  TypeOK'
<1>. USE DEF TypeOK
<1>1. CASE dqueue = <<>>
  <2>1. /\ due' = NoCall /\ held' = FALSE /\ dqueue' = dqueue /\ lastmsg' = lastmsg
        /\ out' = out /\ sentAt' = sentAt /\ now' = now /\ lines' = lines /\ asked' = asked
    BY <1>1 DEF DrainLine
  <2>. QED  BY <2>1 DEF NoCall
<1>2. CASE dqueue # <<>>
  <2>1. Head(dqueue) \in Line /\ Tail(dqueue) \in Seq(Line)
    BY <1>2, HeadTail
  <2>2. /\ Write(Head(dqueue)) /\ dqueue' = Tail(dqueue)
        /\ lastmsg' = now /\ held' = (Len(dqueue) > 1)
    BY <1>2 DEF DrainLine
  <2>3. out' \in Seq(Line) /\ sentAt' \in Seq(Nat) /\ Len(sentAt') = Len(out')
    BY <2>1, <2>2 DEF Write
  <2>4. due' \in Nat
    BY <1>2, ThrottleAssumption DEF DrainLine, NoCall
  <2>. QED  BY <2>1, <2>2, <2>3, <2>4 DEF DrainLine
<1>. QED  BY <1>1, <1>2

\* Every variable keeps its type (BurlyBot.sendLine, _sendLine).
THEOREM TypeCorrect == Spec => []TypeOK
<1>1. Init => TypeOK
  BY InitTypeOK
<1>2. TypeOK /\ [Next]_vars => TypeOK'
  <2>. SUFFICES ASSUME TypeOK, [Next]_vars PROVE TypeOK'
    OBVIOUS
  <2>1. CASE \E l \in Line : sendLine(l)
    BY <2>1, SendTypeOK
  <2>2. CASE DrainLine
    BY <2>2, DrainTypeOK
  <2>3. CASE Tick
    BY <2>3 DEF Tick, TypeOK
  <2>4. CASE UNCHANGED vars
    BY <2>4 DEF vars, TypeOK
  <2>. QED  BY <2>1, <2>2, <2>3, <2>4 DEF Next
<1>. QED  BY <1>1, <1>2, PTL DEF Spec

----------------------------------------------------------------------------
(* The queue is drained, in order.                                         *)

LEMMA SendQueue ==
  ASSUME TypeOK, QueueIsArmed, InOrder, NEW l \in Line, sendLine(l)
  PROVE  QueueIsArmed' /\ InOrder'
<1>0. /\ dqueue \in Seq(Line) /\ out \in Seq(Line) /\ asked = out \o dqueue
      /\ asked' = Append(asked, l) /\ now \in Nat /\ <<l>> \in Seq(Line)
  BY DEF TypeOK, InOrder, sendLine
<1>1. CASE Throttled(l)
  <2>1. dqueue' = Append(dqueue, l) /\ dqueue' # <<>> /\ out' = out
    BY <1>0, <1>1 DEF Throttled, Enqueue
  <2>2. held' = TRUE /\ due' # NoCall
    BY <1>0, <1>1, ThrottleAssumption DEF Throttled, Enqueue, QueueIsArmed, NoCall
  <2>3. Append(out \o dqueue, l) = out \o Append(dqueue, l)
    <3>1. out \o dqueue \in Seq(Line)
      BY <1>0, ConcatProperties
    <3>2. Append(out \o dqueue, l) = (out \o dqueue) \o <<l>>
      BY <3>1, AppendIsConcat
    <3>3. Append(dqueue, l) = dqueue \o <<l>>
      BY <1>0, AppendIsConcat
    <3>. QED  BY <1>0, <3>2, <3>3, ConcatAssociative
  <2>. QED  BY <1>0, <2>1, <2>2, <2>3 DEF QueueIsArmed, InOrder
<1>2. CASE AfterPause(l) \/ UnderThreshold(l)
  <2>1. dqueue = <<>> /\ out' = Append(out, l) /\ UNCHANGED <<dqueue, held, due>>
    BY <1>2 DEF AfterPause, UnderThreshold, SendNow, Write
  <2>2. out \o <<>> = out /\ Append(out, l) \o <<>> = Append(out, l)
    BY <1>0, ConcatEmptySeq
  <2>. QED  BY <1>0, <2>1, <2>2 DEF QueueIsArmed, InOrder
<1>. QED  BY <1>1, <1>2 DEF sendLine

LEMMA DrainQueue ==
  ASSUME TypeOK, QueueIsArmed, InOrder, DrainLine
  PROVE  QueueIsArmed' /\ InOrder'
<1>1. dqueue \in Seq(Line) /\ out \in Seq(Line) /\ dqueue # <<>> /\ now \in Nat
  BY DEF TypeOK, QueueIsArmed, DrainLine
<1>2. /\ out' = Append(out, Head(dqueue)) /\ dqueue' = Tail(dqueue)
      /\ held' = (Len(dqueue) > 1) /\ asked' = asked
      /\ due' = IF Len(dqueue) > 1 THEN now + Second ELSE NoCall
  BY <1>1 DEF DrainLine, Write
<1>3. Tail(dqueue) # <<>> <=> Len(dqueue) > 1
  BY <1>1, HeadTail
<1>4. QueueIsArmed'
  <2>1. now + Second # NoCall
    BY <1>1, ThrottleAssumption DEF NoCall
  <2>2. CASE Len(dqueue) > 1
    BY <1>2, <1>3, <2>1, <2>2 DEF QueueIsArmed
  <2>3. CASE ~(Len(dqueue) > 1)
    BY <1>2, <1>3, <2>3 DEF QueueIsArmed
  <2>. QED  BY <2>2, <2>3
<1>5. InOrder'
  BY <1>1, <1>2, HeadMoves DEF InOrder
<1>. QED  BY <1>4, <1>5

\* Lines wait if and only if a _sendLine is pending; they leave in the order
\* they came, none twice and none lost (BurlyBot.sendLine, _sendLine).
THEOREM QueueDrained == Spec => [](QueueIsArmed /\ InOrder)
<1>. DEFINE Inv == QueueIsArmed /\ InOrder
<1>1. Init => Inv
  <2>1. <<>> \o <<>> = <<>>
    BY ConcatEmptySeq, EmptySeq
  <2>. QED  BY <2>1 DEF Init, QueueIsArmed, InOrder, NoCall
<1>2. TypeOK /\ Inv /\ [Next]_vars => Inv'
  <2>. SUFFICES ASSUME TypeOK, Inv, [Next]_vars PROVE Inv'
    OBVIOUS
  <2>1. CASE \E l \in Line : sendLine(l)
    BY <2>1, SendQueue
  <2>2. CASE DrainLine
    BY <2>2, DrainQueue
  <2>3. CASE Tick \/ UNCHANGED vars
    <3>1. UNCHANGED <<dqueue, held, due, asked, out>>
      BY <2>3 DEF Tick, vars
    <3>. QED  BY <3>1 DEF QueueIsArmed, InOrder
  <2>. QED  BY <2>1, <2>2, <2>3 DEF Next
<1>. QED  BY <1>1, <1>2, TypeCorrect, PTL DEF Spec

----------------------------------------------------------------------------
(* The flood limit.                                                        *)

\* Everything written was written at least a second before time t.
QuietSince(t, n) == \A i \in 1..n : sentAt[i] + Second <= t

\* Why the limit holds.  The times run up to lastmsg and to now; a pending call
\* comes a second after the last line; lines wait only over the threshold; and
\* the last `lines' lines apart, all are a second old, so that a line under the
\* threshold is the at most linethrottle-th of its second.
Paced ==
  /\ lastmsg <= now
  /\ \A i \in 1..Len(sentAt) : sentAt[i] <= lastmsg
  /\ due # NoCall => QuietSince(due, Len(sentAt))
  /\ dqueue # <<>> => lines >= linethrottle
  /\ \A n \in Nat : n + lines <= Len(sentAt) => QuietSince(now, n)

\* A line written now keeps the limit if the lines but the last
\* linethrottle - 1 are a second old.
LEMMA WriteKeepsLimit ==
  ASSUME TypeOK, NoFlood, NEW l, Write(l),
         NEW n \in Nat, n + linethrottle >= Len(sentAt) + 1, QuietSince(now, n)
  PROVE  NoFlood'
<1>1. /\ sentAt \in Seq(Nat) /\ now \in Nat /\ sentAt' = Append(sentAt, now)
      /\ linethrottle \in Nat \ {0} /\ Second \in Nat \ {0}
  BY ThrottleAssumption DEF TypeOK, Write
<1>2. Len(sentAt') = Len(sentAt) + 1 /\ sentAt'[Len(sentAt) + 1] = now
      /\ \A i \in 1..Len(sentAt) : sentAt'[i] = sentAt[i]
  BY <1>1
<1>. SUFFICES ASSUME NEW i \in 1..Len(sentAt'), i + linethrottle <= Len(sentAt')
              PROVE  sentAt'[i] + Second <= sentAt'[i + linethrottle]
  BY DEF NoFlood
<1>3. i \in 1..Len(sentAt) /\ Len(sentAt) \in Nat
  BY <1>1, <1>2
<1>4. CASE i + linethrottle <= Len(sentAt)
  BY <1>1, <1>2, <1>3, <1>4 DEF NoFlood
<1>5. CASE i + linethrottle = Len(sentAt) + 1
  <2>1. i \in 1..n
    BY <1>1, <1>3, <1>5
  <2>2. sentAt[i] + Second <= now
    BY <2>1 DEF QuietSince
  <2>. QED  BY <1>2, <1>3, <1>5, <2>2
<1>6. i + linethrottle <= Len(sentAt) \/ i + linethrottle = Len(sentAt) + 1
  BY <1>1, <1>2, <1>3, SMTT(20)
<1>. QED  BY <1>4, <1>5, <1>6

\* A line written now: nothing written is later, and what was quiet still is.
LEMMA WriteQuiet ==
  ASSUME TypeOK, Paced, NEW l, Write(l), now' = now
  PROVE  /\ Len(sentAt') = Len(sentAt) + 1
         /\ \A i \in 1..Len(sentAt') : sentAt'[i] <= now
         /\ \A n \in Nat : n <= Len(sentAt) /\ QuietSince(now, n) => QuietSince(now, n)'
<1>1. /\ sentAt \in Seq(Nat) /\ now \in Nat /\ lastmsg \in Nat
      /\ sentAt' = Append(sentAt, now)
  BY DEF TypeOK, Write
<1>2. Len(sentAt') = Len(sentAt) + 1 /\ sentAt'[Len(sentAt) + 1] = now
      /\ \A i \in 1..Len(sentAt) : sentAt'[i] = sentAt[i] /\ sentAt[i] \in Nat
  BY <1>1
<1>3. \A i \in 1..Len(sentAt) : sentAt[i] <= now
  BY <1>1, <1>2 DEF Paced
<1>4. ASSUME NEW i \in 1..Len(sentAt') PROVE sentAt'[i] <= now
  <2>1. i \in 1..Len(sentAt) \/ i = Len(sentAt) + 1
    BY <1>1, <1>2
  <2>. QED  BY <1>1, <1>2, <1>3, <2>1
<1>5. ASSUME NEW n \in Nat, n <= Len(sentAt), QuietSince(now, n)
      PROVE  QuietSince(now, n)'
  <2>1. \A i \in 1..n : i \in 1..Len(sentAt)
    BY <1>1, <1>5
  <2>. QED  BY <1>2, <1>5, <2>1 DEF QuietSince
<1>. QED  BY <1>2, <1>4, <1>5

\* A line that finds the last second empty, or its queue's turn, may go.
LEMMA QuietWrite ==
  ASSUME TypeOK, Paced, NoFlood, NEW l, Write(l), now' = now,
         QuietSince(now, Len(sentAt)), lines' \in Nat \ {0}
  PROVE  /\ NoFlood'
         /\ \A n \in Nat : n + lines' <= Len(sentAt') => QuietSince(now, n)'
<1>1. Len(sentAt) \in Nat /\ linethrottle \in Nat \ {0}
  BY ThrottleAssumption DEF TypeOK
<1>2. NoFlood'
  BY <1>1, WriteKeepsLimit
<1>3. ASSUME NEW n \in Nat, n + lines' <= Len(sentAt') PROVE QuietSince(now, n)'
  <2>1. n <= Len(sentAt)
    BY <1>1, <1>3, WriteQuiet
  <2>2. QuietSince(now, n)
    BY <1>1, <2>1 DEF QuietSince
  <2>. QED  BY <2>1, <2>2, WriteQuiet
<1>. QED  BY <1>2, <1>3

LEMMA PauseFlood ==
  ASSUME TypeOK, QueueIsArmed, Paced, NoFlood, NEW l \in Line, sendLine(l), AfterPause(l)
  PROVE  Paced' /\ NoFlood'
<1>1. /\ Write(l) /\ now' = now /\ lastmsg' = now /\ dqueue' = <<>> /\ due' = NoCall
      /\ lastmsg + Second < now
  BY DEF sendLine, AfterPause, SendNow, QueueIsArmed
<1>2. lines' \in Nat \ {0}
  BY DEF AfterPause, SendNow, TypeOK
<1>3. QuietSince(now, Len(sentAt))
  <2>. SUFFICES ASSUME NEW i \in 1..Len(sentAt) PROVE sentAt[i] + Second <= now
    BY DEF QuietSince
  <2>0. sentAt \in Seq(Nat)
    BY DEF TypeOK
  <2>1. sentAt[i] \in Nat /\ sentAt[i] <= lastmsg
    BY <2>0 DEF Paced
  <2>. QED  BY <1>1, <2>1, ThrottleAssumption DEF TypeOK
<1>4. \A i \in 1..Len(sentAt') : sentAt'[i] <= now
  BY <1>1, WriteQuiet
<1>5. /\ NoFlood'
      /\ \A n \in Nat : n + lines' <= Len(sentAt') => QuietSince(now, n)'
  BY <1>1, <1>2, <1>3, QuietWrite
<1>. QED  BY <1>1, <1>4, <1>5 DEF Paced, TypeOK, QuietSince

LEMMA UnderFlood ==
  ASSUME TypeOK, QueueIsArmed, Paced, NoFlood, NEW l \in Line, sendLine(l), UnderThreshold(l)
  PROVE  Paced' /\ NoFlood'
<1>1. /\ Write(l) /\ now' = now /\ lastmsg' = now /\ dqueue' = <<>> /\ due' = NoCall
      /\ lines < linethrottle /\ lines' = lines + 1
  BY DEF sendLine, UnderThreshold, SendNow, QueueIsArmed
<1>2. Len(sentAt) \in Nat /\ lines \in Nat /\ linethrottle \in Nat \ {0}
  BY ThrottleAssumption DEF TypeOK
<1>3. PICK n \in Nat : n + linethrottle >= Len(sentAt) + 1 /\ QuietSince(now, n)
  <2>1. CASE lines <= Len(sentAt)
    <3>1. QuietSince(now, Len(sentAt) - lines)
      BY <1>2, <2>1 DEF Paced
    <3>. QED  BY <1>1, <1>2, <2>1, <3>1
  <2>2. CASE lines > Len(sentAt)
    <3>1. QuietSince(now, 0)
      BY DEF QuietSince
    <3>. QED  BY <1>1, <1>2, <2>2, <3>1
  <2>. QED  BY <1>2, <2>1, <2>2
<1>4. NoFlood'
  BY <1>1, <1>3, WriteKeepsLimit
<1>5. /\ Len(sentAt') = Len(sentAt) + 1
      /\ \A i \in 1..Len(sentAt') : sentAt'[i] <= now
  BY <1>1, WriteQuiet
<1>6. ASSUME NEW m \in Nat, m + lines' <= Len(sentAt') PROVE QuietSince(now, m)'
  <2>1. m <= Len(sentAt) /\ m + lines <= Len(sentAt)
    BY <1>1, <1>2, <1>5, <1>6
  <2>2. QuietSince(now, m)
    BY <2>1 DEF Paced
  <2>. QED  BY <1>1, <2>1, <2>2, WriteQuiet
<1>7. lastmsg' <= now' /\ \A i \in 1..Len(sentAt') : sentAt'[i] <= lastmsg'
  BY <1>1, <1>5 DEF TypeOK
<1>. QED  BY <1>1, <1>4, <1>6, <1>7 DEF Paced

LEMMA ThrottledFlood ==
  ASSUME TypeOK, QueueIsArmed, Paced, NoFlood, NEW l \in Line, sendLine(l), Throttled(l)
  PROVE  Paced' /\ NoFlood'
<1>1. UNCHANGED <<now, lines, sentAt>> /\ lastmsg' = now
      /\ due' = IF held THEN due ELSE now + Second
  BY DEF sendLine, Throttled, Enqueue
<1>2. \A i \in 1..Len(sentAt) : sentAt[i] \in Nat /\ sentAt[i] <= lastmsg /\ sentAt[i] <= now
  <2>1. sentAt \in Seq(Nat) /\ lastmsg \in Nat /\ now \in Nat /\ lastmsg <= now
    BY DEF TypeOK, Paced
  <2>2. \A i \in 1..Len(sentAt) : sentAt[i] \in Nat /\ sentAt[i] <= lastmsg
    BY <2>1 DEF Paced
  <2>. QED  BY <2>1, <2>2
<1>3. due' # NoCall => QuietSince(due, Len(sentAt))'
  <2>1. CASE held
    BY <1>1, <2>1 DEF Paced, QuietSince
  <2>2. CASE ~held
    BY <1>1, <1>2, <2>2, ThrottleAssumption DEF QuietSince, TypeOK
  <2>. QED  BY <2>1, <2>2
<1>4. lines' >= linethrottle
  BY <1>1 DEF Throttled, Paced
<1>5. \A n \in Nat : n + lines' <= Len(sentAt') => QuietSince(now, n)'
  BY <1>1 DEF Paced, QuietSince
<1>6. lastmsg' <= now' /\ \A i \in 1..Len(sentAt') : sentAt'[i] <= lastmsg'
  BY <1>1, <1>2 DEF TypeOK
<1>7. NoFlood'
  BY <1>1 DEF NoFlood
<1>. QED  BY <1>3, <1>4, <1>5, <1>6, <1>7 DEF Paced

LEMMA DrainFlood ==
  ASSUME TypeOK, QueueIsArmed, Paced, NoFlood, DrainLine
  PROVE  Paced' /\ NoFlood'
<1>1. /\ dqueue # <<>> /\ due # NoCall /\ due <= now /\ Write(Head(dqueue))
      /\ now' = now /\ lastmsg' = now /\ lines' = lines
      /\ due' = IF Len(dqueue) > 1 THEN now + Second ELSE NoCall
  BY DEF DrainLine, QueueIsArmed
<1>2. lines >= linethrottle /\ lines' \in Nat \ {0}
  BY <1>1, ThrottleAssumption DEF Paced, TypeOK
<1>3. QuietSince(now, Len(sentAt))
  <2>. SUFFICES ASSUME NEW i \in 1..Len(sentAt) PROVE sentAt[i] + Second <= now
    BY DEF QuietSince
  <2>1. sentAt[i] \in Nat /\ sentAt[i] + Second <= due
    BY <1>1 DEF Paced, QuietSince, TypeOK
  <2>. QED  BY <1>1, <2>1, ThrottleAssumption DEF TypeOK
<1>4. /\ NoFlood'
      /\ \A n \in Nat : n + lines' <= Len(sentAt') => QuietSince(now, n)'
  BY <1>1, <1>2, <1>3, QuietWrite
<1>5. \A i \in 1..Len(sentAt') : sentAt'[i] <= now
  BY <1>1, WriteQuiet
<1>6. due' # NoCall => QuietSince(due, Len(sentAt))'
  <2>1. sentAt' \in Seq(Nat) /\ now \in Nat
    BY <1>1 DEF TypeOK, Write
  <2>. QED  BY <1>1, <1>5, <2>1, ThrottleAssumption DEF QuietSince
<1>7. lastmsg' <= now' /\ \A i \in 1..Len(sentAt') : sentAt'[i] <= lastmsg'
  BY <1>1, <1>5 DEF TypeOK
<1>. QED  BY <1>1, <1>2, <1>4, <1>6, <1>7 DEF Paced

LEMMA TickFlood ==
  ASSUME TypeOK, Paced, NoFlood, Tick
  PROVE  Paced' /\ NoFlood'
<1>1. UNCHANGED <<dqueue, lines, lastmsg, due, sentAt>> /\ now' = now + 1
  BY DEF Tick
<1>2. ASSUME NEW n \in Nat, n + lines' <= Len(sentAt') PROVE QuietSince(now, n)'
  <2>1. QuietSince(now, n)
    BY <1>1, <1>2 DEF Paced
  <2>2. \A i \in 1..n : i \in 1..Len(sentAt) /\ sentAt[i] \in Nat
    BY <1>1, <1>2 DEF TypeOK
  <2>. QED  BY <1>1, <2>1, <2>2, ThrottleAssumption DEF QuietSince, TypeOK
<1>3. lastmsg' <= now'
  BY <1>1 DEF Paced, TypeOK
<1>4. due' # NoCall => QuietSince(due, Len(sentAt))'
  BY <1>1 DEF Paced, QuietSince
<1>5. NoFlood'
  BY <1>1 DEF NoFlood
<1>. QED  BY <1>1, <1>2, <1>3, <1>4, <1>5 DEF Paced

\* Of any linethrottle + 1 consecutive lines, sent at once or from the queue,
\* the first and the last are a second apart (BurlyBot.sendLine, _sendLine).
THEOREM FloodLimit == Spec => []NoFlood
<1>. DEFINE Inv == Paced /\ NoFlood
<1>1. Init => Inv
  <2>. SUFFICES ASSUME Init PROVE Inv
    OBVIOUS
  <2>1. /\ sentAt = <<>> /\ Len(sentAt) = 0 /\ lines = 0 /\ lastmsg = 0 /\ due = NoCall
        /\ dqueue = <<>> /\ now \in Nat
    BY ThrottleAssumption DEF Init
  <2>2. NoFlood
    BY <2>1, ThrottleAssumption DEF NoFlood
  <2>3. \A n \in Nat : n + lines <= Len(sentAt) => QuietSince(now, n)
    BY <2>1 DEF QuietSince
  <2>. QED  BY <2>1, <2>2, <2>3 DEF Paced
<1>2. TypeOK /\ QueueIsArmed /\ Inv /\ [Next]_vars => Inv'
  <2>. SUFFICES ASSUME TypeOK, QueueIsArmed, Inv, [Next]_vars PROVE Inv'
    OBVIOUS
  <2>1. CASE \E l \in Line : sendLine(l)
    <3>1. PICK l \in Line : sendLine(l)
      BY <2>1
    <3>2. AfterPause(l) \/ UnderThreshold(l) \/ Throttled(l)
      BY <3>1 DEF sendLine
    <3>. QED  BY <3>1, <3>2, PauseFlood, UnderFlood, ThrottledFlood
  <2>2. CASE DrainLine
    BY <2>2, DrainFlood
  <2>3. CASE Tick
    BY <2>3, TickFlood
  <2>4. CASE UNCHANGED vars
    BY <2>4 DEF vars, Paced, NoFlood, QuietSince
  <2>. QED  BY <2>1, <2>2, <2>3, <2>4 DEF Next
<1>. QED  BY <1>1, <1>2, TypeCorrect, QueueDrained, PTL DEF Spec

----------------------------------------------------------------------------
(* The throttle is a queue of lines.                                       *)

LEMMA SendRefines ==
  ASSUME TypeOK, InOrder, NEW l \in Line, sendLine(l)
  PROVE  Queue!Next
<1>1. asked' = Append(asked, l)
  BY DEF sendLine
<1>2. CASE Throttled(l)
  <2>1. out' = out
    BY <1>2 DEF Throttled, Enqueue
  <2>. QED  BY <1>1, <2>1 DEF Queue!Next, Queue!Ask
<1>3. CASE AfterPause(l) \/ UnderThreshold(l)
  <2>1. dqueue = <<>> /\ out' = Append(out, l)
    BY <1>3 DEF AfterPause, UnderThreshold, SendNow, Write
  <2>2. out = asked
    BY <2>1, ConcatEmptySeq DEF InOrder, TypeOK
  <2>. QED  BY <1>1, <2>1, <2>2 DEF Queue!Next, Queue!AskAndLeave
<1>. QED  BY <1>2, <1>3 DEF sendLine

LEMMA DrainRefines ==
  ASSUME TypeOK, QueueIsArmed, InOrder, DrainLine
  PROVE  Queue!Next
<1>1. /\ dqueue # <<>> /\ out' = Append(out, Head(dqueue)) /\ asked' = asked
      /\ dqueue \in Seq(Line) /\ out \in Seq(Line) /\ asked = out \o dqueue
  BY DEF DrainLine, QueueIsArmed, Write, TypeOK, InOrder
<1>2. Len(dqueue) \in Nat /\ Len(dqueue) >= 1 /\ Head(dqueue) = dqueue[1]
  BY <1>1, EmptySeq
<1>3. Len(out) < Len(asked) /\ asked[Len(out) + 1] = Head(dqueue)
  BY <1>1, <1>2, ConcatProperties
<1>. QED  BY <1>1, <1>3 DEF Queue!Next, Queue!Leave

\* Every step of the throttle is a step of a queue of lines, or none: lines
\* leave once, in their turn (BurlyBot.sendLine, _sendLine).
THEOREM ThrottleIsLineQueue == Spec => Queue!Init /\ [][Queue!Next]_<<asked, out>>
<1>1. Init => Queue!Init
  BY DEF Init, Queue!Init
<1>2. TypeOK /\ QueueIsArmed /\ InOrder /\ [Next]_vars
        => [Queue!Next]_<<asked, out>>
  <2>. SUFFICES ASSUME TypeOK, QueueIsArmed, InOrder, [Next]_vars
                PROVE  [Queue!Next]_<<asked, out>>
    OBVIOUS
  <2>1. CASE \E l \in Line : sendLine(l)
    BY <2>1, SendRefines
  <2>2. CASE DrainLine
    BY <2>2, DrainRefines
  <2>3. CASE Tick \/ UNCHANGED vars
    BY <2>3 DEF Tick, vars
  <2>. QED  BY <2>1, <2>2, <2>3 DEF Next
<1>. QED  BY <1>1, <1>2, TypeCorrect, QueueDrained, PTL DEF Spec

----------------------------------------------------------------------------
(* The calls of the handlers, on their way to the connections.             *)

----------------------------------------------------------------------------
(* Types.                                                                  *)

SentLine == [msg : Msg, by : {"direct", "queued"}]
Request == [to : Conn \cup {None}, msg : Msg]

\* A handler on its way to a call has one left.
Room == \A h \in Handlers : pc[h] # "idle" => made[h] < MaxCalls
Typed == OutboundTypeOK /\ Room

\* Which handler steps leave and change.
LEMMA HandlersTyped ==
  ASSUME Typed, NEW h \in Handlers, Look(h) \/ Bind(h) \/ Invoke(h)
  PROVE  Typed'
<1>1. /\ made[h] \in 0..MaxCalls /\ (pc[h] # "idle" => made[h] < MaxCalls) /\ MaxCalls \in Nat
      /\ botinst \in Conn \cup {None}
  BY OutboundAssumption DEF Typed, OutboundTypeOK, Room
<1>2. pc[h] # "idle" => <<h, made[h] + 1>> \in Msg /\ made[h] + 1 \in 0..MaxCalls
  BY <1>1 DEF Msg
<1>3. UNCHANGED <<conn, open, botinst, outqueue, checks, given>>
  BY DEF Look, Bind, Invoke, connVars
<1>4. /\ \E p \in {"idle", "looked", "taken"} :
           pc' = [pc EXCEPT ![h] = p] /\ (p # "idle" => made[h] < MaxCalls)
      /\ UNCHANGED to \/ \E c \in Conn \cup {None} : to' = [to EXCEPT ![h] = c]
  BY <1>1 DEF Look, Bind, Invoke, connVars
<1>5. UNCHANGED made \/ (pc[h] # "idle" /\ pc'[h] = "idle" /\ made' = [made EXCEPT ![h] = made[h] + 1])
  BY DEF Look, Bind, Invoke, Typed, OutboundTypeOK
<1>6. made' \in [Handlers -> 0..MaxCalls]
  BY <1>2, <1>5 DEF Typed, OutboundTypeOK
<1>7. Room'
  BY <1>1, <1>4, <1>5 DEF Room, Typed, OutboundTypeOK
<1>8. failed' \subseteq Msg
  BY <1>2 DEF Look, Bind, Invoke, Typed, OutboundTypeOK
<1>9. calls' \in Seq(Request)
  <2>1. calls \in Seq(Request)
    BY DEF Typed, OutboundTypeOK, Request
  <2>2. CASE UNCHANGED calls
    BY <2>1, <2>2
  <2>3. CASE Invoke(h)
    <3>1. [to |-> to[h], msg |-> <<h, made[h] + 1>>] \in Request
      BY <1>2, <2>3 DEF Invoke, Request, Typed, OutboundTypeOK
    <3>. QED  BY <2>1, <2>3, <3>1 DEF Invoke
  <2>. QED  BY <2>2, <2>3 DEF Look, Bind
<1>10. pc' \in [Handlers -> {"idle", "looked", "taken"}] /\ to' \in [Handlers -> Conn \cup {None}]
  BY <1>4 DEF Typed, OutboundTypeOK
<1>. QED  BY <1>3, <1>6, <1>7, <1>8, <1>9, <1>10 DEF Typed, OutboundTypeOK, Request

LEMMA CallRuns ==
  ASSUME Typed, RunCall
  PROVE  /\ calls \in Seq(Request) /\ calls # <<>> /\ calls' = Tail(calls)
         /\ UNCHANGED <<pc, to, made, conn, open, botinst, checks>>
         /\ \E c \in Conn \cup {None}, m \in Msg :
              /\ Head(calls) = [to |-> c, msg |-> m]
              /\ \/ c # None /\ Perform(c, m, "direct") /\ UNCHANGED outqueue
                 \/ c = None /\ outqueue' = Append(outqueue, m) /\ UNCHANGED <<given, failed>>
<1>1. calls \in Seq(Request) /\ calls # <<>> /\ calls' = Tail(calls)
  BY DEF Typed, OutboundTypeOK, RunCall, Request
<1>2. Head(calls) \in Request
  BY <1>1
<1>3. PICK c \in Conn \cup {None}, m \in Msg : Head(calls) = [to |-> c, msg |-> m]
  BY <1>2 DEF Request
<1>4. Head(calls).to = c /\ Head(calls).msg = m
  BY <1>3
<1>5. \/ c # None /\ Perform(c, m, "direct") /\ UNCHANGED outqueue
      \/ c = None /\ outqueue' = Append(outqueue, m) /\ UNCHANGED <<given, failed>>
  BY <1>4 DEF RunCall
<1>. QED  BY <1>1, <1>3, <1>5 DEF RunCall, handlerVars, connVars

LEMMA RunCallTyped ==
  ASSUME Typed, RunCall
  PROVE  Typed'
<1>1. PICK c \in Conn \cup {None}, m \in Msg :
        /\ Head(calls) = [to |-> c, msg |-> m]
        /\ \/ c # None /\ Perform(c, m, "direct") /\ UNCHANGED outqueue
           \/ c = None /\ outqueue' = Append(outqueue, m) /\ UNCHANGED <<given, failed>>
  BY CallRuns
<1>2. calls' \in Seq(Request)
  BY CallRuns
<1>3. outqueue' \in Seq(Msg) /\ failed' \subseteq Msg
  <2>1. outqueue \in Seq(Msg) /\ failed \subseteq Msg
    BY DEF Typed, OutboundTypeOK
  <2>2. UNCHANGED failed \/ failed' = failed \cup {m}
    BY <1>1 DEF Perform
  <2>3. UNCHANGED outqueue \/ outqueue' = Append(outqueue, m)
    BY <1>1
  <2>. QED  BY <2>1, <2>2, <2>3
<1>4. given' \in [Conn -> Seq(SentLine)]
  <2>1. given \in [Conn -> Seq(SentLine)]
    BY DEF Typed, OutboundTypeOK, SentLine
  <2>2. AsLine(m, "direct") \in SentLine
    BY DEF AsLine, SentLine
  <2>3. \A d \in Conn : Append(given[d], AsLine(m, "direct")) \in Seq(SentLine)
    BY <2>1, <2>2
  <2>4. UNCHANGED given \/ given' = [given EXCEPT ![c] = Append(@, AsLine(m, "direct"))]
    BY <1>1 DEF Perform
  <2>. QED  BY <2>1, <2>3, <2>4
<1>5. UNCHANGED <<pc, to, made, conn, open, botinst, checks>>
  BY CallRuns
<1>. QED  BY <1>2, <1>3, <1>4, <1>5 DEF Typed, OutboundTypeOK, Room, Request, SentLine

LEMMA Joined ==
  ASSUME NEW s \in Seq(SentLine), NEW t \in Seq(SentLine)
  PROVE  /\ Len(s \o t) = Len(s) + Len(t)
         /\ \A i \in 1..(Len(s) + Len(t)) : (s \o t)[i] = IF i <= Len(s) THEN s[i] ELSE t[i - Len(s)]
OBVIOUS

\* What a check does when it has something to do.
LEMMA Checks ==
  ASSUME Typed, CheckQueue
  PROVE  /\ UNCHANGED <<pc, to, made, calls, conn, open, botinst>> /\ checks' \in Nat
         /\ \/ UNCHANGED <<outqueue, given, failed>>
            \/ /\ botinst \in Conn /\ Len(outqueue) \in Nat
               /\ \E n \in 0..Len(outqueue) :
                    /\ given' = [given EXCEPT ![botinst] = @ \o Handed(n)]
                    /\ Handed(n) \in Seq(SentLine) /\ Len(Handed(n)) = n
                    /\ \A i \in 1..n : Handed(n)[i] = [msg |-> outqueue[i], by |-> "queued"]
                    /\ outqueue' = SubSeq(outqueue, n + 2, Len(outqueue))
                    /\ \/ n = Len(outqueue) /\ UNCHANGED failed
                       \/ n < Len(outqueue) /\ failed' = failed \cup {outqueue[n + 1]}
<1>1. UNCHANGED <<pc, to, made, calls, conn, open, botinst>> /\ checks' \in Nat
  BY DEF CheckQueue, handlerVars, connVars, Typed, OutboundTypeOK
<1>2. ASSUME botinst # None, NEW n \in 0..Len(outqueue)
      PROVE  /\ botinst \in Conn /\ Len(outqueue) \in Nat
             /\ Handed(n) \in Seq(SentLine) /\ Len(Handed(n)) = n
             /\ \A i \in 1..n : Handed(n)[i] = [msg |-> outqueue[i], by |-> "queued"]
  <2>1. outqueue \in Seq(Msg) /\ botinst \in Conn
    BY <1>2 DEF Typed, OutboundTypeOK
  <2>2. \A i \in 1..n : outqueue[i] \in Msg
    BY <2>1
  <2>3. \A i \in 1..n : AsLine(outqueue[i], "queued") \in SentLine
    BY <2>2 DEF AsLine, SentLine
  <2>. QED  BY <2>1, <2>3 DEF Handed, AsLine
<1>3. ASSUME botinst # None, NEW n \in 0..Len(outqueue),
             IF n = Len(outqueue) THEN UNCHANGED <<checks, failed>>
             ELSE checks' = checks - 1 /\ failed' = failed \cup {outqueue[n + 1]}
      PROVE  \/ n = Len(outqueue) /\ UNCHANGED failed
             \/ n < Len(outqueue) /\ failed' = failed \cup {outqueue[n + 1]}
  BY <1>2, <1>3
<1>. QED  BY <1>1, <1>2, <1>3 DEF CheckQueue

LEMMA CheckTyped ==
  ASSUME Typed, CheckQueue
  PROVE  Typed'
<1>1. UNCHANGED <<pc, to, made, calls, conn, open, botinst>> /\ checks' \in Nat
  BY Checks
<1>2. CASE UNCHANGED <<outqueue, given, failed>>
  BY <1>1, <1>2 DEF Typed, OutboundTypeOK, Room
<1>3. ASSUME botinst \in Conn, Len(outqueue) \in Nat, NEW n \in 0..Len(outqueue),
             given' = [given EXCEPT ![botinst] = @ \o Handed(n)], Handed(n) \in Seq(SentLine),
             outqueue' = SubSeq(outqueue, n + 2, Len(outqueue)),
             \/ n = Len(outqueue) /\ UNCHANGED failed
             \/ n < Len(outqueue) /\ failed' = failed \cup {outqueue[n + 1]}
      PROVE  Typed'
  <2>1. outqueue \in Seq(Msg) /\ given \in [Conn -> Seq(SentLine)] /\ failed \subseteq Msg
    BY DEF Typed, OutboundTypeOK, SentLine
  <2>2. outqueue' \in Seq(Msg)
    BY <1>3, <2>1
  <2>3. given[botinst] \o Handed(n) \in Seq(SentLine)
    BY <1>3, <2>1
  <2>4. given' \in [Conn -> Seq(SentLine)]
    BY <1>3, <2>1, <2>3
  <2>5. failed' \subseteq Msg
    <3>1. n < Len(outqueue) => outqueue[n + 1] \in Msg
      BY <1>3, <2>1
    <3>. QED  BY <1>3, <2>1, <3>1
  <2>. QED  BY <1>1, <2>2, <2>4, <2>5 DEF Typed, OutboundTypeOK, Room, SentLine
<1>. QED  BY <1>2, <1>3, Checks

LEMMA NetworkTyped ==
  ASSUME Typed, Connect \/ SignedOn \/ ConnectionLost
  PROVE  Typed'
<1>1. UNCHANGED <<pc, to, made, calls, outqueue, given, failed>>
  BY DEF Connect, SignedOn, ConnectionLost, handlerVars
<1>2. /\ conn' \in Conn \cup {None} /\ open' \in BOOLEAN
      /\ botinst' \in {None, conn'} /\ (botinst' # None => open') /\ checks' \in Nat
  <2>1. /\ conn \in Conn \cup {None} /\ open \in BOOLEAN /\ checks \in Nat
        /\ botinst \in {None, conn} /\ (botinst # None => open)
    BY DEF Typed, OutboundTypeOK
  <2>2. CASE Connect
    <3>1. conn + 1 \in Conn
      BY <2>1, <2>2, OutboundAssumption DEF Connect, Conn, None
    <3>. QED  BY <2>1, <2>2, <3>1 DEF Connect
  <2>3. CASE SignedOn
    BY <2>1, <2>3 DEF SignedOn
  <2>4. CASE ConnectionLost
    <3>1. conn' = conn /\ open' = FALSE /\ botinst' = None /\ checks' = checks + 1
      BY <2>4 DEF ConnectionLost
    <3>2. conn' \in Conn \cup {None} /\ checks' \in Nat
      BY <2>1, <3>1
    <3>3. open' \in BOOLEAN /\ botinst' \in {None, conn'} /\ (botinst' # None => open')
      BY <3>1, Zenon
    <3>. QED  BY <3>2, <3>3
  <2>. QED  BY <2>2, <2>3, <2>4
<1>. QED  BY <1>1, <1>2 DEF Typed, OutboundTypeOK, Room

LEMMA NextTyped ==
  Typed /\ [OutboundNext]_outboundVars => Typed'
<1>. SUFFICES ASSUME Typed, [OutboundNext]_outboundVars PROVE Typed'
  OBVIOUS
<1>1. CASE UNCHANGED outboundVars
  BY <1>1 DEF outboundVars, handlerVars, connVars, Typed, OutboundTypeOK, Room
<1>. QED  BY <1>1, HandlersTyped, RunCallTyped, CheckTyped, NetworkTyped DEF OutboundNext

LEMMA InitTyped == OutboundInit => Typed
<1>. SUFFICES ASSUME OutboundInit PROVE Typed
  OBVIOUS
<1>1. Room /\ made \in [Handlers -> 0..MaxCalls]
  BY OutboundAssumption DEF OutboundInit, Room
<1>2. calls = <<>> /\ outqueue = <<>> /\ given \in [Conn -> Seq(SentLine)] /\ checks \in Nat
  BY DEF OutboundInit
<1>3. /\ pc \in [Handlers -> {"idle", "looked", "taken"}] /\ to \in [Handlers -> Conn \cup {None}]
      /\ conn = None /\ open = FALSE /\ botinst = None /\ failed = {}
  BY DEF OutboundInit
<1>4. open \in BOOLEAN /\ botinst \in {None, conn} /\ (botinst # None => open)
  BY <1>3, Zenon
<1>5. conn \in Conn \cup {None} /\ failed \subseteq Msg
  BY <1>3
<1>6. calls \in Seq(Request) /\ outqueue \in Seq(Msg)
  BY <1>2
<1>. QED  BY <1>1, <1>2, <1>3, <1>4, <1>5, <1>6 DEF Typed, OutboundTypeOK, SentLine, Request

----------------------------------------------------------------------------
(* One place.                                                              *)

Held(k, c, i, m) ==
  \/ k = "calls" /\ c = None /\ i \in 1..Len(calls) /\ calls[i].msg = m
  \/ k = "outqueue" /\ c = None /\ i \in 1..Len(outqueue) /\ outqueue[i] = m
  \/ k = "given" /\ c \in Conn /\ i \in 1..Len(given[c]) /\ given[c][i].msg = m
  \/ k = "failed" /\ c = None /\ i = 0 /\ m \in failed

Homes == {"calls", "outqueue", "given", "failed"}

\* A call is somewhere if it was made, and in no two places.
Placed ==
  \A m \in Msg :
    /\ m[2] <= made[m[1]] <=> \E k, c, i : Held(k, c, i, m)
    /\ \A k, c, i, k2, c2, i2 :
         Held(k, c, i, m) /\ Held(k2, c2, i2, m) => k = k2 /\ c = c2 /\ i = i2

LEMMA PlacesAreHeld ==
  ASSUME NEW m \in Msg
  PROVE  \A p : p \in Places(m) <=> \E k, c, i : Held(k, c, i, m) /\ p = <<k, c, i>>
<1>. SUFFICES ASSUME NEW p
              PROVE  p \in Places(m) <=> \E k, c, i : Held(k, c, i, m) /\ p = <<k, c, i>>
  OBVIOUS
<1>. DEFINE InCalls == {<<"calls", None, i>> : i \in {j \in 1..Len(calls) : calls[j].msg = m}}
            InQueue == {<<"outqueue", None, i>> : i \in {j \in 1..Len(outqueue) : outqueue[j] = m}}
            InAsked(c) == {<<"given", c, i>> : i \in {j \in 1..Len(given[c]) : given[c][j].msg = m}}
            InFailed == {<<"failed", None, 0>> : f \in failed \cap {m}}
<1>1. p \in InCalls <=> \E i : Held("calls", None, i, m) /\ p = <<"calls", None, i>>
  BY DEF Held
<1>2. p \in InQueue <=> \E i : Held("outqueue", None, i, m) /\ p = <<"outqueue", None, i>>
  BY DEF Held
<1>3. \A c \in Conn : p \in InAsked(c) <=> \E i : Held("given", c, i, m) /\ p = <<"given", c, i>>
  BY DEF Held
<1>4. p \in InFailed <=> Held("failed", None, 0, m) /\ p = <<"failed", None, 0>>
  BY DEF Held
<1>5. p \in Places(m) <=> p \in InCalls \/ p \in InQueue \/ (\E c \in Conn : p \in InAsked(c)) \/ p \in InFailed
  <2>. DEFINE Every == UNION {InAsked(c) : c \in Conn}
  <2>1. Places(m) = InCalls \cup InQueue \cup InFailed \cup Every
    BY DEF Places
  <2>. HIDE DEF InCalls, InQueue, InAsked, InFailed
  <2>2. p \in Every <=> \E c \in Conn : p \in InAsked(c)
    OBVIOUS
  <2>. HIDE DEF Every
  <2>. QED  BY <2>1, <2>2
<1>. HIDE DEF InCalls, InQueue, InAsked, InFailed
<1>6. \A k, c, i : Held(k, c, i, m) =>
        \/ k \in {"calls", "outqueue"} /\ c = None
        \/ k = "given" /\ c \in Conn
        \/ k = "failed" /\ c = None /\ i = 0
  BY DEF Held
<1>7. p \in Places(m) => \E k, c, i : Held(k, c, i, m) /\ p = <<k, c, i>>
  BY <1>1, <1>2, <1>3, <1>4, <1>5, Zenon
<1>8. ASSUME NEW k, NEW c, NEW i, Held(k, c, i, m), p = <<k, c, i>> PROVE p \in Places(m)
  <2>1. CASE k = "calls" /\ c = None
    BY <1>1, <1>5, <1>8, <2>1, Zenon
  <2>2. CASE k = "outqueue" /\ c = None
    BY <1>2, <1>5, <1>8, <2>2, Zenon
  <2>3. CASE k = "given" /\ c \in Conn
    BY <1>3, <1>5, <1>8, <2>3, Zenon
  <2>4. CASE k = "failed" /\ c = None /\ i = 0
    BY <1>4, <1>5, <1>8, <2>4, Zenon
  <2>. QED  BY <1>6, <1>8, <2>1, <2>2, <2>3, <2>4
<1>. QED  BY <1>7, <1>8

LEMMA PlacedIsOnePlace == ASSUME Placed PROVE InOnePlace
<1>. SUFFICES ASSUME NEW m \in Msg
              PROVE  IF m[2] <= made[m[1]] THEN \E p \in Places(m) : Places(m) = {p}
                                           ELSE Places(m) = {}
  BY DEF InOnePlace
<1>1. CASE m[2] <= made[m[1]]
  <2>1. PICK k, c, i : Held(k, c, i, m)
    BY <1>1 DEF Placed
  <2>2. \A p : p \in Places(m) <=> p = <<k, c, i>>
    BY <2>1, PlacesAreHeld DEF Placed
  <2>3. Places(m) = {<<k, c, i>>}
    BY <2>2
  <2>. QED  BY <1>1, <2>3
<1>2. CASE ~(m[2] <= made[m[1]])
  BY <1>2, PlacesAreHeld DEF Placed
<1>. QED  BY <1>1, <1>2

\* A step that makes one call more, which is at one place.
LEMMA OneMore ==
  ASSUME Typed, Placed, NEW h \in Handlers, NEW k0 \in Homes, NEW i0 \in Nat,
         made[h] < MaxCalls,
         made' = [made EXCEPT ![h] = made[h] + 1],
         \A m \in Msg : \A k, c, i :
           Held(k, c, i, m)' <=> Held(k, c, i, m) \/ (k = k0 /\ c = None /\ i = i0 /\ m = <<h, made[h] + 1>>)
  PROVE  Placed'
<1>. SUFFICES ASSUME NEW m \in Msg
              PROVE  /\ m[2] <= made'[m[1]] <=> \E k, c, i : Held(k, c, i, m)'
                     /\ \A k, c, i, k2, c2, i2 :
                          Held(k, c, i, m)' /\ Held(k2, c2, i2, m)' => k = k2 /\ c = c2 /\ i = i2
  BY DEF Placed
<1>1. PICK g \in Handlers, n \in 1..MaxCalls : m = <<g, n>>
  BY DEF Msg
<1>2. /\ made[g] \in Nat /\ made'[g] = IF g = h THEN made[g] + 1 ELSE made[g]
      /\ m[1] = g /\ m[2] = n
  BY <1>1 DEF Typed, OutboundTypeOK
<1>3. /\ n <= made[g] <=> \E k, c, i : Held(k, c, i, m)
      /\ \A k, c, i, k2, c2, i2 :
           Held(k, c, i, m) /\ Held(k2, c2, i2, m) => k = k2 /\ c = c2 /\ i = i2
  BY <1>2 DEF Placed
<1>4. CASE m = <<h, made[h] + 1>>
  <2>1. g = h /\ n = made[h] + 1
    BY <1>1, <1>4
  <2>2. \A k, c, i : Held(k, c, i, m)' <=> k = k0 /\ c = None /\ i = i0
    BY <1>2, <1>3, <1>4, <2>1
  <2>3. Held(k0, None, i0, m)' /\ m[2] <= made'[m[1]]
    BY <1>2, <2>1, <2>2
  <2>. QED  BY <2>2, <2>3
<1>5. CASE m # <<h, made[h] + 1>>
  <2>1. \A k, c, i : Held(k, c, i, m)' <=> Held(k, c, i, m)
    BY <1>5
  <2>2. n <= made[g] <=> n <= made'[g]
    <3>1. ~(g = h /\ n = made[h] + 1)
      BY <1>1, <1>5
    <3>. QED  BY <1>2, <3>1
  <2>. QED  BY <1>2, <1>3, <2>1, <2>2
<1>. QED  BY <1>4, <1>5

LEMMA HandlersPlace ==
  ASSUME Typed, Placed, NEW h \in Handlers, Look(h) \/ Bind(h) \/ Invoke(h)
  PROVE  Placed'
<1>. DEFINE m0 == <<h, made[h] + 1>>
<1>1. /\ pc[h] # "idle" => made[h] < MaxCalls
      /\ calls \in Seq(Request) /\ UNCHANGED <<outqueue, given>>
  BY DEF Typed, OutboundTypeOK, Room, Request, Look, Bind, Invoke
<1>2. CASE UNCHANGED <<made, calls, failed>>
  <2>1. \A k, c, i, m : Held(k, c, i, m)' <=> Held(k, c, i, m)
    BY <1>1, <1>2 DEF Held
  <2>. QED  BY <1>2, <2>1 DEF Placed
<1>3. CASE pc[h] # "idle" /\ made' = [made EXCEPT ![h] = made[h] + 1] /\ failed' = failed \cup {m0} /\ UNCHANGED calls
  <2>1. \A m \in Msg : \A k, c, i :
          Held(k, c, i, m)' <=> Held(k, c, i, m) \/ (k = "failed" /\ c = None /\ i = 0 /\ m = m0)
    BY <1>1, <1>3 DEF Held
  <2>2. "failed" \in Homes /\ 0 \in Nat
    BY DEF Homes
  <2>. QED  BY <1>1, <1>3, <2>1, <2>2, OneMore
<1>4. CASE /\ pc[h] # "idle" /\ made' = [made EXCEPT ![h] = made[h] + 1] /\ UNCHANGED failed
           /\ calls' = Append(calls, [to |-> to[h], msg |-> m0])
  <2>1. /\ Len(calls) \in Nat /\ Len(calls') = Len(calls) + 1 /\ calls'[Len(calls) + 1].msg = m0
        /\ \A i \in 1..Len(calls) : calls'[i] = calls[i]
    BY <1>1, <1>4
  <2>. HIDE DEF m0
  <2>2. \A m \in Msg : \A k, c, i :
          Held(k, c, i, m)' <=> Held(k, c, i, m) \/ (k = "calls" /\ c = None /\ i = Len(calls) + 1 /\ m = m0)
    BY <1>1, <1>4, <2>1 DEF Held
  <2>3. "calls" \in Homes /\ Len(calls) + 1 \in Nat
    BY <2>1 DEF Homes
  <2>. QED  BY <1>1, <1>4, <2>2, <2>3, OneMore DEF m0
<1>5. \/ UNCHANGED <<made, calls, failed>>
      \/ pc[h] # "idle" /\ made' = [made EXCEPT ![h] = made[h] + 1] /\ failed' = failed \cup {m0} /\ UNCHANGED calls
      \/ /\ pc[h] # "idle" /\ made' = [made EXCEPT ![h] = made[h] + 1] /\ UNCHANGED failed
         /\ calls' = Append(calls, [to |-> to[h], msg |-> m0])
  BY DEF Look, Bind, Invoke, Typed, OutboundTypeOK
<1>. QED  BY <1>2, <1>3, <1>4, <1>5

\* The first of the reactor's calls goes to one place, and the others move up.
LEMMA RunCallPlaces ==
  ASSUME Typed, Placed, RunCall
  PROVE  Placed'
<1>1. /\ calls \in Seq(Request) /\ calls # <<>> /\ calls' = Tail(calls) /\ UNCHANGED made
      /\ outqueue \in Seq(Msg) /\ given \in [Conn -> Seq(SentLine)]
  BY CallRuns DEF Typed, OutboundTypeOK, SentLine
<1>2. PICK c0 \in Conn \cup {None}, m0 \in Msg :
        /\ Head(calls) = [to |-> c0, msg |-> m0]
        /\ \/ c0 # None /\ Perform(c0, m0, "direct") /\ UNCHANGED outqueue
           \/ c0 = None /\ outqueue' = Append(outqueue, m0) /\ UNCHANGED <<given, failed>>
  BY CallRuns
<1>3. /\ Len(calls) \in Nat \ {0} /\ Len(calls') = Len(calls) - 1 /\ calls[1].msg = m0
      /\ \A i \in 1..Len(calls) - 1 : calls'[i] = calls[i + 1]
  BY <1>1, <1>2
<1>4. Held("calls", None, 1, m0)
  BY <1>3 DEF Held
<1>5. \A i, m : Held("calls", None, i, m)' <=> i \in Nat /\ i # 0 /\ Held("calls", None, i + 1, m)
  BY <1>1, <1>3 DEF Held
<1>6. \A k, c, i, m : Held(k, c, i, m) \/ Held(k, c, i, m)' =>
        (k = "calls" /\ c = None /\ i \in Nat) \/ k \in {"outqueue", "given", "failed"}
  BY DEF Held
\* where the call goes, nothing was
<1>7. \E k0 \in {"outqueue", "given", "failed"} : \E cc, i0 :
        /\ \A k \in {"outqueue", "given", "failed"} : \A c, i : \A m \in Msg :
             Held(k, c, i, m)' <=> Held(k, c, i, m) \/ (k = k0 /\ c = cc /\ i = i0 /\ m = m0)
  <2>1. CASE c0 = None
    <3>1. outqueue' = Append(outqueue, m0) /\ UNCHANGED <<given, failed>>
      BY <1>2, <2>1
    <3>2. /\ Len(outqueue) \in Nat /\ Len(outqueue') = Len(outqueue) + 1
          /\ outqueue'[Len(outqueue) + 1] = m0 /\ \A i \in 1..Len(outqueue) : outqueue'[i] = outqueue[i]
      BY <1>1, <3>1
    <3>3. \A k \in {"outqueue", "given", "failed"} : \A c, i : \A m \in Msg :
            Held(k, c, i, m)' <=> Held(k, c, i, m) \/ (k = "outqueue" /\ c = None /\ i = Len(outqueue) + 1 /\ m = m0)
      BY <1>1, <3>1, <3>2 DEF Held
    <3>4. PICK last \in Nat : last = Len(outqueue) + 1
      BY <3>2
    <3>. WITNESS "outqueue" \in {"outqueue", "given", "failed"}
    <3>. WITNESS None, last
    <3>. QED  BY <3>3, <3>4
  <2>2. CASE c0 # None /\ m0 \in Raising
    <3>1. failed' = failed \cup {m0} /\ UNCHANGED <<given, outqueue>>
      BY <1>2, <2>2 DEF Perform
    <3>2. \A k \in {"outqueue", "given", "failed"} : \A c, i : \A m \in Msg :
            Held(k, c, i, m)' <=> Held(k, c, i, m) \/ (k = "failed" /\ c = None /\ i = 0 /\ m = m0)
      BY <3>1 DEF Held
    <3>. WITNESS "failed" \in {"outqueue", "given", "failed"}
    <3>. WITNESS None, 0
    <3>. QED  BY <3>2
  <2>3. CASE c0 # None /\ m0 \notin Raising
    <3>1. given' = [given EXCEPT ![c0] = Append(@, AsLine(m0, "direct"))] /\ UNCHANGED <<failed, outqueue>>
      BY <1>2, <2>3 DEF Perform
    <3>2. /\ c0 \in Conn /\ given[c0] \in Seq(SentLine) /\ Len(given[c0]) \in Nat
          /\ given'[c0] = Append(given[c0], AsLine(m0, "direct"))
          /\ \A c \in Conn : c # c0 => given'[c] = given[c]
      BY <1>1, <1>2, <2>3, <3>1
    <3>3. /\ Len(given'[c0]) = Len(given[c0]) + 1 /\ given'[c0][Len(given[c0]) + 1].msg = m0
          /\ \A i \in 1..Len(given[c0]) : given'[c0][i] = given[c0][i]
      BY <3>2 DEF AsLine
    <3>4. \A k \in {"outqueue", "given", "failed"} : \A c, i : \A m \in Msg :
            Held(k, c, i, m)' <=> Held(k, c, i, m) \/ (k = "given" /\ c = c0 /\ i = Len(given[c0]) + 1 /\ m = m0)
      <4>1. \A i, m : Held("given", c0, i, m)' <=> Held("given", c0, i, m) \/ (i = Len(given[c0]) + 1 /\ m = m0)
        BY <3>2, <3>3 DEF Held
      <4>2. \A c, i, m : c # c0 => (Held("given", c, i, m)' <=> Held("given", c, i, m))
        BY <3>2 DEF Held
      <4>3. \A k \in {"outqueue", "failed"} : \A c, i, m : Held(k, c, i, m)' <=> Held(k, c, i, m)
        BY <3>1 DEF Held
      <4>. QED  BY <4>1, <4>2, <4>3
    <3>5. PICK last \in Nat : last = Len(given[c0]) + 1
      BY <3>2
    <3>. WITNESS "given" \in {"outqueue", "given", "failed"}
    <3>. WITNESS c0, last
    <3>. QED  BY <3>4, <3>5
  <2>. QED  BY <2>1, <2>2, <2>3
<1>14. PICK k0 \in {"outqueue", "given", "failed"} : \E cc, i0 :
         \A k \in {"outqueue", "given", "failed"} : \A c, i : \A m \in Msg :
           Held(k, c, i, m)' <=> Held(k, c, i, m) \/ (k = k0 /\ c = cc /\ i = i0 /\ m = m0)
  BY <1>7
<1>8. PICK cc, i0 :
        \A k \in {"outqueue", "given", "failed"} : \A c, i : \A m \in Msg :
          Held(k, c, i, m)' <=> Held(k, c, i, m) \/ (k = k0 /\ c = cc /\ i = i0 /\ m = m0)
  BY <1>14
<1>. SUFFICES ASSUME NEW m \in Msg
              PROVE  /\ m[2] <= made'[m[1]] <=> \E k, c, i : Held(k, c, i, m)'
                     /\ \A k, c, i, k2, c2, i2 :
                          Held(k, c, i, m)' /\ Held(k2, c2, i2, m)' => k = k2 /\ c = c2 /\ i = i2
  BY DEF Placed
<1>9. /\ m[2] <= made[m[1]] <=> \E k, c, i : Held(k, c, i, m)
      /\ \A k, c, i, k2, c2, i2 :
           Held(k, c, i, m) /\ Held(k2, c2, i2, m) => k = k2 /\ c = c2 /\ i = i2
  BY DEF Placed
<1>10. CASE m = m0
  <2>1. \A k, c, i : Held(k, c, i, m)' <=> k = k0 /\ c = cc /\ i = i0
    <3>1. ASSUME NEW k, NEW c, NEW i, Held(k, c, i, m)' PROVE k = k0 /\ c = cc /\ i = i0
      <4>1. CASE k = "calls"
        <5>1. i \in Nat /\ i # 0 /\ Held("calls", None, i + 1, m)
          BY <1>5, <1>6, <3>1, <4>1
        <5>2. i + 1 = 1
          BY <1>4, <1>9, <1>10, <5>1
        <5>. QED  BY <5>1, <5>2
      <4>2. CASE k # "calls"
        <5>1. ~Held(k, c, i, m)
          BY <1>4, <1>9, <1>10, <4>2
        <5>. QED  BY <1>6, <1>8, <3>1, <4>2, <5>1
      <4>. QED  BY <4>1, <4>2
    <3>. QED  BY <1>8, <1>10, <3>1
  <2>2. m[2] <= made'[m[1]]
    BY <1>1, <1>4, <1>9, <1>10
  <2>. QED  BY <2>1, <2>2
<1>11. CASE m # m0
  <2>1. ~Held("calls", None, 1, m)
    BY <1>3, <1>11 DEF Held
  <2>2. \A k, c, i : k # "calls" => (Held(k, c, i, m)' <=> Held(k, c, i, m))
    BY <1>6, <1>8, <1>11
  <2>3. \A k, c, i, k2, c2, i2 :
          Held(k, c, i, m)' /\ Held(k2, c2, i2, m)' => k = k2 /\ c = c2 /\ i = i2
    <3>. SUFFICES ASSUME NEW k, NEW c, NEW i, NEW k2, NEW c2, NEW i2,
                         Held(k, c, i, m)', Held(k2, c2, i2, m)'
                  PROVE  k = k2 /\ c = c2 /\ i = i2
      OBVIOUS
    <3>1. CASE k = "calls" /\ k2 = "calls"
      <4>1. c = None /\ i \in Nat /\ c2 = None /\ i2 \in Nat
        BY <1>6, <3>1
      <4>2. Held("calls", None, i + 1, m) /\ Held("calls", None, i2 + 1, m)
        BY <1>5, <3>1, <4>1
      <4>3. i + 1 = i2 + 1
        BY <1>9, <4>2
      <4>. QED  BY <3>1, <4>1, <4>3
    <3>2. CASE k # "calls" /\ k2 # "calls"
      BY <1>9, <2>2, <3>2
    <3>3. CASE k = "calls" /\ k2 # "calls"
      <4>1. Held("calls", None, i + 1, m) /\ Held(k2, c2, i2, m)
        BY <1>5, <1>6, <2>2, <3>3
      <4>. QED  BY <1>9, <3>3, <4>1
    <3>4. CASE k # "calls" /\ k2 = "calls"
      <4>1. Held("calls", None, i2 + 1, m) /\ Held(k, c, i, m)
        BY <1>5, <1>6, <2>2, <3>4
      <4>. QED  BY <1>9, <3>4, <4>1
    <3>. QED  BY <3>1, <3>2, <3>3, <3>4
  <2>4. (\E k, c, i : Held(k, c, i, m)) => \E k, c, i : Held(k, c, i, m)'
    <3>. SUFFICES ASSUME NEW k, NEW c, NEW i, Held(k, c, i, m)
                  PROVE  \E kk, c2, i2 : Held(kk, c2, i2, m)'
      OBVIOUS
    <3>1. CASE k = "calls"
      <4>1. i \in Nat /\ i # 0 /\ i # 1 /\ c = None
        BY <1>6, <2>1, <3>1 DEF Held
      <4>2. i - 1 \in Nat /\ i - 1 # 0 /\ (i - 1) + 1 = i
        BY <4>1
      <4>3. Held("calls", None, i - 1, m)'
        BY <1>5, <3>1, <4>1, <4>2
      <4>. QED  BY <4>3
    <3>. QED  BY <2>2, <3>1
  <2>5. (\E k, c, i : Held(k, c, i, m)') => \E k, c, i : Held(k, c, i, m)
    BY <1>5, <1>6, <2>2
  <2>. QED  BY <1>1, <1>9, <2>3, <2>4, <2>5
<1>. QED  BY <1>10, <1>11

\* A check moves the first calls of the outqueue to the connection, the next one, if
\* it raises, out of it, and the others up.
LEMMA CheckPlaces ==
  ASSUME Typed, Placed, CheckQueue
  PROVE  Placed'
<1>1. UNCHANGED <<made, calls>>
  BY Checks
<1>2. CASE UNCHANGED <<outqueue, given, failed>>
  <2>1. \A k, c, i, m : Held(k, c, i, m)' <=> Held(k, c, i, m)
    BY <1>1, <1>2 DEF Held
  <2>. QED  BY <1>1, <2>1 DEF Placed
<1>3. ASSUME NEW b \in Conn, b = botinst, NEW L \in Nat, L = Len(given[b]), Len(outqueue) \in Nat, NEW n \in 0..Len(outqueue),
             given' = [given EXCEPT ![botinst] = @ \o Handed(n)],
             Handed(n) \in Seq(SentLine), Len(Handed(n)) = n,
             \A i \in 1..n : Handed(n)[i] = [msg |-> outqueue[i], by |-> "queued"],
             outqueue' = SubSeq(outqueue, n + 2, Len(outqueue)),
             \/ n = Len(outqueue) /\ UNCHANGED failed
             \/ n < Len(outqueue) /\ failed' = failed \cup {outqueue[n + 1]}
      PROVE  Placed'
  <2>1. outqueue \in Seq(Msg) /\ given \in [Conn -> Seq(SentLine)] /\ L \in Nat
    BY <1>3 DEF Typed, OutboundTypeOK, SentLine
  <2>2. /\ \A i : i \in 1..Len(outqueue') <=> i \in Nat /\ i # 0 /\ i + n + 1 \in 1..Len(outqueue)
        /\ \A i \in 1..Len(outqueue') : outqueue'[i] = outqueue[i + n + 1]
    BY <1>3, <2>1
  <2>3. /\ given'[b] = given[b] \o Handed(n) /\ given[b] \in Seq(SentLine) /\ Len(given'[b]) = L + n
        /\ \A c \in Conn : c # b => given'[c] = given[c]
    <3>1. given' = [given EXCEPT ![b] = given[b] \o Handed(n)] /\ given[b] \in Seq(SentLine)
      BY <1>3, <2>1
    <3>2. Handed(n) \in Seq(SentLine) /\ Len(Handed(n)) = n /\ Len(given[b]) = L
      BY <1>3
    <3>3. Len(given[b] \o Handed(n)) = L + n
      BY <3>1, <3>2, Joined
    <3>. QED  BY <2>1, <3>1, <3>3
  <2>4. /\ \A i \in 1..L : given'[b][i] = given[b][i]
        /\ \A i \in 1..(L + n) : i > L => i - L \in 1..n /\ given'[b][i].msg = outqueue[i - L]
    <3>1. \A i \in 1..(L + n) : given'[b][i] = IF i <= L THEN given[b][i] ELSE Handed(n)[i - L]
      <4>1. /\ Handed(n) \in Seq(SentLine) /\ Len(Handed(n)) = n /\ Len(given[b]) = L
            /\ given[b] \in Seq(SentLine) /\ given'[b] = given[b] \o Handed(n)
        BY <1>3, <2>3
      <4>2. \A i \in 1..(Len(given[b]) + Len(Handed(n))) :
              (given[b] \o Handed(n))[i]
                = IF i <= Len(given[b]) THEN given[b][i] ELSE Handed(n)[i - Len(given[b])]
        BY <4>1, Joined
      <4>. QED  BY <4>1, <4>2
    <3>2. \A i \in 1..(L + n) : i > L => i - L \in 1..n
      <4>1. n \in Nat
        BY <1>3
      <4>. QED  BY <4>1
    <3>3. \A i \in 1..L : i \in 1..(L + n) /\ i <= L
      BY <1>3
    <3>4. \A j \in 1..n : Handed(n)[j].msg = outqueue[j]
      BY <1>3
    <3>5. \A i \in 1..(L + n) : i > L => ~(i <= L)
      BY <1>3
    <3>. QED  BY <3>1, <3>2, <3>3, <3>4, <3>5
  <2>5. \A i, m : Held("outqueue", None, i, m)' <=> i \in Nat /\ i # 0 /\ Held("outqueue", None, i + n + 1, m)
    BY <2>2 DEF Held
  <2>6. \A i, m : Held("given", b, i, m)' <=>
          Held("given", b, i, m) \/ (i \in 1..(L + n) /\ i > L /\ Held("outqueue", None, i - L, m))
    <3>1. \A i, m : Held("given", b, i, m)' <=> i \in 1..(L + n) /\ given'[b][i].msg = m
      BY <1>3, <2>3 DEF Held
    <3>2. \A i, m : Held("given", b, i, m) <=> i \in 1..L /\ given[b][i].msg = m
      BY <1>3 DEF Held
    <3>3. \A i \in 1..(L + n) : i > L => i - L \in 1..Len(outqueue)
      BY <1>3, <2>1
    <3>4. \A i, m : i \in 1..(L + n) /\ i > L => (Held("outqueue", None, i - L, m) <=> outqueue[i - L] = m)
      BY <3>3 DEF Held
    <3>5. \A i : i \in 1..L <=> i \in 1..(L + n) /\ ~(i > L)
      BY <1>3, <2>1
    <3>. QED  BY <2>4, <3>1, <3>2, <3>4, <3>5
  <2>7. \A c, i, m : c # b => (Held("given", c, i, m)' <=> Held("given", c, i, m))
    BY <2>3 DEF Held
  <2>8. \A m : Held("failed", None, 0, m)' <=>
          Held("failed", None, 0, m) \/ (n + 1 \in 1..Len(outqueue) /\ Held("outqueue", None, n + 1, m))
    BY <1>3, <2>1 DEF Held
  <2>9. \A c, i, m : Held("calls", c, i, m)' <=> Held("calls", c, i, m)
    BY <1>1 DEF Held
  <2>10. \A k, c, i, m : Held(k, c, i, m) \/ Held(k, c, i, m)' =>
           \/ k = "calls"
           \/ k = "outqueue" /\ c = None /\ i \in Nat /\ i # 0
           \/ k = "given" /\ i \in Nat
           \/ k = "failed" /\ c = None /\ i = 0
    BY DEF Held
  <2>. SUFFICES ASSUME NEW m \in Msg
                PROVE  /\ m[2] <= made[m[1]] <=> \E k, c, i : Held(k, c, i, m)'
                       /\ \A k, c, i, k2, c2, i2 :
                            Held(k, c, i, m)' /\ Held(k2, c2, i2, m)' => k = k2 /\ c = c2 /\ i = i2
    BY <1>1 DEF Placed
  <2>11. /\ m[2] <= made[m[1]] <=> \E k, c, i : Held(k, c, i, m)
         /\ \A k, c, i, k2, c2, i2 :
              Held(k, c, i, m) /\ Held(k2, c2, i2, m) => k = k2 /\ c = c2 /\ i = i2
    BY DEF Placed
  \* the place each call was at
  <2>12. \A k, c, i : Held(k, c, i, m)' =>
           \/ Held(k, c, i, m) /\ k # "outqueue"
           \/ k = "outqueue" /\ c = None /\ i \in Nat /\ i # 0 /\ Held("outqueue", None, i + n + 1, m)
           \/ k = "given" /\ c = b /\ i \in Nat /\ i > L /\ i <= L + n /\ Held("outqueue", None, i - L, m)
           \/ k = "failed" /\ c = None /\ i = 0 /\ Held("outqueue", None, n + 1, m)
    BY <2>5, <2>6, <2>7, <2>8, <2>9, <2>10
  <2>13. ASSUME NEW k, NEW c, NEW i, NEW k2, NEW c2, NEW i2,
                Held(k, c, i, m)', Held(k2, c2, i2, m)'
         PROVE  k = k2 /\ c = c2 /\ i = i2
    <3>1. ASSUME NEW j \in Nat, Held("outqueue", None, j, m)
          PROVE  /\ \A k3, c3, i3 : ~(Held(k3, c3, i3, m) /\ k3 # "outqueue")
                 /\ \A j2 : Held("outqueue", None, j2, m) => j = j2
      BY <2>11, <3>1
    <3>2. CASE Held(k, c, i, m) /\ k # "outqueue"
      BY <2>10, <2>11, <2>12, <2>13, <3>2
    <3>3. CASE k = "outqueue" /\ c = None /\ i \in Nat /\ i # 0 /\ Held("outqueue", None, i + n + 1, m)
      <4>1. \A j2 : Held("outqueue", None, j2, m) => i + n + 1 = j2
        BY <3>1, <3>3
      <4>2. ~(Held(k2, c2, i2, m) /\ k2 # "outqueue")
        BY <2>11, <3>3
      <4>. QED  BY <2>1, <2>12, <2>13, <3>3, <4>1, <4>2
    <3>4. CASE k = "given" /\ c = b /\ i \in Nat /\ i > L /\ i <= L + n /\ Held("outqueue", None, i - L, m)
      <4>1. \A j2 : Held("outqueue", None, j2, m) => i - L = j2
        BY <2>11, <3>4
      <4>2. ~(Held(k2, c2, i2, m) /\ k2 # "outqueue")
        BY <2>11, <3>4
      <4>. QED  BY <2>1, <2>12, <2>13, <3>4, <4>1, <4>2
    <3>5. CASE k = "failed" /\ c = None /\ i = 0 /\ Held("outqueue", None, n + 1, m)
      <4>1. \A j2 : Held("outqueue", None, j2, m) => n + 1 = j2
        BY <2>11, <3>5
      <4>2. ~(Held(k2, c2, i2, m) /\ k2 # "outqueue")
        BY <2>11, <3>5
      <4>. QED  BY <2>1, <2>12, <2>13, <3>5, <4>1, <4>2
    <3>. QED  BY <2>12, <2>13, <3>2, <3>3, <3>4, <3>5
  <2>14. ASSUME NEW k, NEW c, NEW i, Held(k, c, i, m)
         PROVE  \E k2, c2, i2 : Held(k2, c2, i2, m)'
    <3>1. CASE k = "calls" \/ k = "given" \/ k = "failed"
      BY <2>6, <2>7, <2>8, <2>9, <2>10, <2>14, <3>1
    <3>2. CASE k = "outqueue" /\ i \in 1..n
      <4>1. L + i \in 1..(L + n) /\ L + i > L /\ (L + i) - L = i /\ c = None
        BY <2>1, <2>10, <2>14, <3>2
      <4>2. Held("given", b, L + i, m)'
        BY <2>6, <2>14, <3>2, <4>1
      <4>. QED  BY <4>2
    <3>3. CASE k = "outqueue" /\ i = n + 1
      <4>1. Held("failed", None, 0, m)'
        BY <2>8, <2>10, <2>14, <3>3 DEF Held
      <4>. QED  BY <4>1
    <3>4. CASE k = "outqueue" /\ i \notin 1..n /\ i # n + 1
      <4>1. c = None /\ i - n - 1 \in Nat /\ i - n - 1 # 0 /\ (i - n - 1) + n + 1 = i
        BY <2>10, <2>14, <3>4
      <4>2. Held("outqueue", None, i - n - 1, m)'
        BY <2>5, <2>14, <3>4, <4>1
      <4>. QED  BY <4>2
    <3>. QED  BY <2>10, <2>14, <3>1, <3>2, <3>3, <3>4
  <2>15. (\E k, c, i : Held(k, c, i, m)') => \E k, c, i : Held(k, c, i, m)
    BY <2>12
  <2>. QED  BY <2>11, <2>13, <2>14, <2>15
<1>4. botinst \in Conn => Len(given[botinst]) \in Nat
  BY DEF Typed, OutboundTypeOK, SentLine
<1>. QED  BY <1>2, <1>3, <1>4, Checks

LEMMA NextPlaced ==
  Typed /\ Placed /\ [OutboundNext]_outboundVars => Placed'
<1>. SUFFICES ASSUME Typed, Placed, [OutboundNext]_outboundVars PROVE Placed'
  OBVIOUS
<1>1. CASE UNCHANGED <<made, calls, outqueue, given, failed>>
  <2>1. \A k, c, i, m : Held(k, c, i, m)' <=> Held(k, c, i, m)
    BY <1>1 DEF Held
  <2>. QED  BY <1>1, <2>1 DEF Placed
<1>2. CASE Connect \/ SignedOn \/ ConnectionLost \/ UNCHANGED outboundVars
  BY <1>1, <1>2 DEF Connect, SignedOn, ConnectionLost, handlerVars, outboundVars
<1>. QED  BY <1>2, HandlersPlace, RunCallPlaces, CheckPlaces DEF OutboundNext

LEMMA InitPlaced == OutboundInit => Placed
BY DEF OutboundInit, Placed, Held, Msg

----------------------------------------------------------------------------
(* Order.                                                                  *)

Before(x, y) == x[1] = y[1] => x[2] < y[2]

\* What has been made and not run is in order and after everything that was run; and
\* what waits in the outqueue is in order and after everything that came through it.
Orderly ==
  /\ \A i, j \in 1..Len(calls) : i < j => Before(calls[i].msg, calls[j].msg)
  /\ \A j \in 1..Len(calls) : \A i \in 1..Len(outqueue) : Before(outqueue[i], calls[j].msg)
  /\ \A j \in 1..Len(calls), c \in Conn : \A i \in 1..Len(given[c]) :
       Before(given[c][i].msg, calls[j].msg)
  /\ \A i, j \in 1..Len(outqueue) : i < j => Before(outqueue[i], outqueue[j])
  /\ \A j \in 1..Len(outqueue), c \in Conn : \A i \in 1..Len(given[c]) :
       given[c][i].by = "queued" => Before(given[c][i].msg, outqueue[j])
  /\ \A c \in Conn : \A i, j \in 1..Len(given[c]) :
       i < j /\ given[c][i].by = given[c][j].by => Before(given[c][i].msg, given[c][j].msg)

LEMMA OrderlyIsInOrder == Orderly => SameRouteInOrder
BY DEF Orderly, SameRouteInOrder, Before

LEMMA InitOrderly == OutboundInit => Orderly
BY DEF OutboundInit, Orderly

\* A call that is made comes after all its handler made.
LEMMA HandlersOrder ==
  ASSUME Typed, Placed, Orderly, NEW h \in Handlers, Look(h) \/ Bind(h) \/ Invoke(h)
  PROVE  Orderly'
<1>1. UNCHANGED <<outqueue, given>> /\ calls \in Seq(Request) /\ made[h] \in Nat
      /\ outqueue \in Seq(Msg) /\ given \in [Conn -> Seq(SentLine)]
  <2>1. UNCHANGED <<outqueue, given>>
    BY DEF Look, Bind, Invoke
  <2>2. /\ calls \in Seq(Request) /\ made \in [Handlers -> 0..MaxCalls]
        /\ outqueue \in Seq(Msg) /\ given \in [Conn -> Seq(SentLine)]
    BY DEF Typed, OutboundTypeOK, Request, SentLine
  <2>3. made[h] \in 0..MaxCalls
    BY <2>2
  <2>. QED  BY <2>1, <2>2, <2>3
<1>2. CASE UNCHANGED calls
  BY <1>1, <1>2 DEF Orderly
<1>3. CASE calls' = Append(calls, [to |-> to[h], msg |-> <<h, made[h] + 1>>])
  <2>1. /\ Len(calls) \in Nat /\ Len(calls') = Len(calls) + 1
        /\ calls'[Len(calls) + 1].msg = <<h, made[h] + 1>>
        /\ \A i \in 1..Len(calls) : calls'[i] = calls[i]
    BY <1>1, <1>3
  <2>2. \A m \in Msg : (\E k, c, i : Held(k, c, i, m)) => Before(m, <<h, made[h] + 1>>)
    <3>1. ASSUME NEW m \in Msg, m[2] <= made[m[1]] PROVE Before(m, <<h, made[h] + 1>>)
      <4>1. m[2] \in Nat
        BY DEF Msg
      <4>. QED  BY <1>1, <3>1, <4>1 DEF Before
    <3>. QED  BY <3>1 DEF Placed
  <2>3. \A i \in 1..Len(calls) : calls[i].msg \in Msg /\ Held("calls", None, i, calls[i].msg)
    <3>1. \A i \in 1..Len(calls) : calls[i] \in Request
      BY <1>1
    <3>2. \A i \in 1..Len(calls) : Held("calls", None, i, calls[i].msg)
      BY DEF Held
    <3>. QED  BY <3>1, <3>2 DEF Request
  <2>4. \A i \in 1..Len(outqueue) : outqueue[i] \in Msg /\ Held("outqueue", None, i, outqueue[i])
    BY <1>1 DEF Held
  <2>5. \A c \in Conn : \A i \in 1..Len(given[c]) :
          given[c][i].msg \in Msg /\ Held("given", c, i, given[c][i].msg)
    <3>. SUFFICES ASSUME NEW c \in Conn, NEW i \in 1..Len(given[c])
                  PROVE  given[c][i].msg \in Msg /\ Held("given", c, i, given[c][i].msg)
      OBVIOUS
    <3>1. given[c] \in Seq(SentLine)
      BY <1>1
    <3>2. given[c][i] \in SentLine
      BY <3>1
    <3>. QED  BY <3>2 DEF Held, SentLine
  <2>6. \A j \in 1..Len(calls') : j \in 1..Len(calls) \/ j = Len(calls) + 1
    BY <2>1
  <2>7. \A i, j \in 1..Len(calls') : i < j => Before(calls'[i].msg, calls'[j].msg)
    <3>. SUFFICES ASSUME NEW i \in 1..Len(calls'), NEW j \in 1..Len(calls'), i < j
                  PROVE  Before(calls'[i].msg, calls'[j].msg)
      OBVIOUS
    <3>1. i \in 1..Len(calls)
      BY <2>1
    <3>2. CASE j = Len(calls) + 1
      BY <2>1, <2>2, <2>3, <3>1, <3>2
    <3>3. CASE j # Len(calls) + 1
      BY <2>1, <2>6, <3>1, <3>3 DEF Orderly
    <3>. QED  BY <3>2, <3>3
  <2>8. \A j \in 1..Len(calls') : \A i \in 1..Len(outqueue) : Before(outqueue[i], calls'[j].msg)
    BY <2>1, <2>2, <2>4, <2>6 DEF Orderly
  <2>9. \A j \in 1..Len(calls'), c \in Conn : \A i \in 1..Len(given[c]) :
          Before(given[c][i].msg, calls'[j].msg)
    BY <2>1, <2>2, <2>5, <2>6 DEF Orderly
  <2>. QED  BY <1>1, <2>7, <2>8, <2>9 DEF Orderly
<1>. QED  BY <1>2, <1>3 DEF Look, Bind, Invoke

\* The first of the calls is before the others and after what was run.
LEMMA RunCallOrder ==
  ASSUME Typed, Orderly, RunCall
  PROVE  Orderly'
<1>1. /\ calls \in Seq(Request) /\ calls # <<>> /\ calls' = Tail(calls)
      /\ outqueue \in Seq(Msg) /\ given \in [Conn -> Seq(SentLine)]
  BY CallRuns DEF Typed, OutboundTypeOK, SentLine
<1>2. PICK c0 \in Conn \cup {None}, m0 \in Msg :
        /\ Head(calls) = [to |-> c0, msg |-> m0]
        /\ \/ c0 # None /\ Perform(c0, m0, "direct") /\ UNCHANGED outqueue
           \/ c0 = None /\ outqueue' = Append(outqueue, m0) /\ UNCHANGED <<given, failed>>
  BY CallRuns
<1>3. /\ Len(calls) \in Nat \ {0} /\ Len(calls') = Len(calls) - 1 /\ calls[1].msg = m0
      /\ \A i \in 1..Len(calls') : calls'[i] = calls[i + 1] /\ i + 1 \in 1..Len(calls) /\ 1 < i + 1
      /\ 1 \in 1..Len(calls)
  BY <1>1, <1>2
<1>4. /\ \A i, j \in 1..Len(calls') : i < j => Before(calls'[i].msg, calls'[j].msg)
      /\ \A j \in 1..Len(calls') : Before(m0, calls'[j].msg)
      /\ \A j \in 1..Len(calls') : \A i \in 1..Len(outqueue) : Before(outqueue[i], calls'[j].msg)
      /\ \A j \in 1..Len(calls'), c \in Conn : \A i \in 1..Len(given[c]) :
           Before(given[c][i].msg, calls'[j].msg)
  <2>1. \A i, j \in 1..Len(calls') : i < j => i + 1 < j + 1
    BY <1>3
  <2>. QED  BY <1>3, <2>1 DEF Orderly
<1>5. /\ \A i \in 1..Len(outqueue) : Before(outqueue[i], m0)
      /\ \A c \in Conn : \A i \in 1..Len(given[c]) : Before(given[c][i].msg, m0)
  BY <1>3 DEF Orderly
<1>6. CASE UNCHANGED <<outqueue, given>>
  BY <1>4, <1>6 DEF Orderly
<1>7. CASE c0 = None
  <2>1. outqueue' = Append(outqueue, m0) /\ UNCHANGED given
    BY <1>2, <1>7
  <2>2. /\ Len(outqueue) \in Nat /\ Len(outqueue') = Len(outqueue) + 1
        /\ outqueue'[Len(outqueue) + 1] = m0 /\ \A i \in 1..Len(outqueue) : outqueue'[i] = outqueue[i]
        /\ \A i \in 1..Len(outqueue') : i \in 1..Len(outqueue) \/ i = Len(outqueue) + 1
    BY <1>1, <2>1
  <2>3. \A i, j \in 1..Len(outqueue') : i < j => i \in 1..Len(outqueue)
    BY <2>2
  <2>4. \A i, j \in 1..Len(outqueue') : i < j => Before(outqueue'[i], outqueue'[j])
    BY <1>5, <2>2, <2>3 DEF Orderly
  <2>5. \A j \in 1..Len(calls') : \A i \in 1..Len(outqueue') : Before(outqueue'[i], calls'[j].msg)
    BY <1>4, <2>2
  <2>6. \A j \in 1..Len(outqueue'), c \in Conn : \A i \in 1..Len(given[c]) :
          given[c][i].by = "queued" => Before(given[c][i].msg, outqueue'[j])
    BY <1>5, <2>2 DEF Orderly
  <2>. QED  BY <1>4, <2>1, <2>4, <2>5, <2>6 DEF Orderly
<1>8. CASE given' = [given EXCEPT ![c0] = Append(@, AsLine(m0, "direct"))] /\ c0 \in Conn /\ UNCHANGED outqueue
  <2>1. /\ given[c0] \in Seq(SentLine) /\ given'[c0] = Append(given[c0], AsLine(m0, "direct"))
        /\ \A c \in Conn : c # c0 => given'[c] = given[c]
    BY <1>1, <1>8
  <2>2. /\ Len(given[c0]) \in Nat /\ Len(given'[c0]) = Len(given[c0]) + 1
        /\ given'[c0][Len(given[c0]) + 1].msg = m0 /\ given'[c0][Len(given[c0]) + 1].by = "direct"
        /\ \A i \in 1..Len(given[c0]) : given'[c0][i] = given[c0][i]
        /\ \A i \in 1..Len(given'[c0]) : i \in 1..Len(given[c0]) \/ i = Len(given[c0]) + 1
    BY <2>1 DEF AsLine
  <2>3. \A i, j \in 1..Len(given'[c0]) : i < j => i \in 1..Len(given[c0])
    BY <2>2
  <2>4. \A j \in 1..Len(calls'), c \in Conn : \A i \in 1..Len(given'[c]) :
          Before(given'[c][i].msg, calls'[j].msg)
    BY <1>4, <2>1, <2>2
  <2>5. \A j \in 1..Len(outqueue), c \in Conn : \A i \in 1..Len(given'[c]) :
          given'[c][i].by = "queued" => Before(given'[c][i].msg, outqueue[j])
    BY <2>1, <2>2 DEF Orderly
  <2>6. \A c \in Conn : \A i, j \in 1..Len(given'[c]) :
          i < j /\ given'[c][i].by = given'[c][j].by => Before(given'[c][i].msg, given'[c][j].msg)
    <3>. SUFFICES ASSUME NEW c \in Conn, NEW i \in 1..Len(given'[c]), NEW j \in 1..Len(given'[c]),
                         i < j, given'[c][i].by = given'[c][j].by
                  PROVE  Before(given'[c][i].msg, given'[c][j].msg)
      OBVIOUS
    <3>1. CASE c # c0
      BY <2>1, <3>1 DEF Orderly
    <3>2. CASE c = c0 /\ j \in 1..Len(given[c0])
      <4>1. i \in 1..Len(given[c0]) /\ given'[c0][i] = given[c0][i] /\ given'[c0][j] = given[c0][j]
        BY <2>2, <2>3, <3>2
      <4>. QED  BY <1>8, <3>2, <4>1 DEF Orderly
    <3>3. CASE c = c0 /\ j \notin 1..Len(given[c0])
      <4>1. j = Len(given[c0]) + 1 /\ i \in 1..Len(given[c0]) /\ given'[c0][i] = given[c0][i]
        BY <2>2, <2>3, <3>3
      <4>. QED  BY <1>5, <1>8, <2>2, <3>3, <4>1
    <3>. QED  BY <3>1, <3>2, <3>3
  <2>. QED  BY <1>4, <1>8, <2>4, <2>5, <2>6 DEF Orderly
<1>. QED  BY <1>2, <1>6, <1>7, <1>8 DEF Perform

\* What a check hands to a connection is the beginning of the outqueue.
LEMMA CheckOrder ==
  ASSUME Typed, Orderly, CheckQueue
  PROVE  Orderly'
<1>1. UNCHANGED calls
  BY Checks
<1>2. CASE UNCHANGED <<outqueue, given>>
  BY <1>1, <1>2 DEF Orderly
<1>3. ASSUME NEW b \in Conn, b = botinst, NEW L \in Nat, L = Len(given[b]),
             Len(outqueue) \in Nat, NEW n \in 0..Len(outqueue),
             given' = [given EXCEPT ![botinst] = @ \o Handed(n)],
             Handed(n) \in Seq(SentLine), Len(Handed(n)) = n,
             \A i \in 1..n : Handed(n)[i] = [msg |-> outqueue[i], by |-> "queued"],
             outqueue' = SubSeq(outqueue, n + 2, Len(outqueue))
      PROVE  Orderly'
  <2>1. outqueue \in Seq(Msg) /\ given \in [Conn -> Seq(SentLine)] /\ L \in Nat
    BY <1>3 DEF Typed, OutboundTypeOK, SentLine
  <2>2. \A i \in 1..Len(outqueue') : /\ i + n + 1 \in 1..Len(outqueue)
                                     /\ outqueue'[i] = outqueue[i + n + 1]
    BY <1>3, <2>1
  <2>3. /\ given'[b] = given[b] \o Handed(n) /\ given[b] \in Seq(SentLine) /\ Len(given'[b]) = L + n
        /\ \A c \in Conn : c # b => given'[c] = given[c]
    <3>1. given' = [given EXCEPT ![b] = given[b] \o Handed(n)] /\ given[b] \in Seq(SentLine)
      BY <1>3, <2>1
    <3>2. Handed(n) \in Seq(SentLine) /\ Len(Handed(n)) = n /\ Len(given[b]) = L
      BY <1>3
    <3>3. Len(given[b] \o Handed(n)) = L + n
      BY <3>1, <3>2, Joined
    <3>. QED  BY <2>1, <3>1, <3>3
  <2>4. \A i \in 1..(L + n) : given'[b][i] = IF i <= L THEN given[b][i] ELSE Handed(n)[i - L]
    <3>1. Handed(n) \in Seq(SentLine) /\ Len(Handed(n)) = n /\ Len(given[b]) = L
      BY <1>3
    <3>2. given[b] \in Seq(SentLine) /\ given'[b] = given[b] \o Handed(n)
      BY <2>3
    <3>3. \A i \in 1..(Len(given[b]) + Len(Handed(n))) :
            (given[b] \o Handed(n))[i]
              = IF i <= Len(given[b]) THEN given[b][i] ELSE Handed(n)[i - Len(given[b])]
      BY <3>1, <3>2, Joined
    <3>. QED  BY <3>1, <3>2, <3>3
  <2>5. \A i \in 1..(L + n) : \/ i \in 1..L /\ given'[b][i] = given[b][i]
                              \/ /\ i > L /\ i - L \in 1..n /\ i - L \in 1..Len(outqueue)
                                 /\ given'[b][i].msg = outqueue[i - L] /\ given'[b][i].by = "queued"
    <3>1. ASSUME NEW i \in 1..(L + n), i <= L
          PROVE  i \in 1..L /\ given'[b][i] = given[b][i]
      BY <2>1, <2>4, <3>1
    <3>2. ASSUME NEW i \in 1..(L + n), ~(i <= L)
          PROVE  /\ i > L /\ i - L \in 1..n /\ i - L \in 1..Len(outqueue)
                 /\ given'[b][i].msg = outqueue[i - L] /\ given'[b][i].by = "queued"
      <4>1. i > L /\ i - L \in 1..n /\ i - L \in 1..Len(outqueue)
        BY <1>3, <3>2
      <4>2. given'[b][i] = Handed(n)[i - L]
        BY <2>4, <3>2
      <4>3. Handed(n)[i - L] = [msg |-> outqueue[i - L], by |-> "queued"]
        BY <1>3, <4>1
      <4>. QED  BY <4>1, <4>2, <4>3
    <3>. QED  BY <3>1, <3>2, Zenon
  <2>12. \A i \in 1..L : given'[b][i] = given[b][i]
    <3>1. \A i \in 1..L : i \in 1..(L + n) /\ i <= L
      BY <1>3
    <3>. QED  BY <2>4, <3>1
  <2>6. \A j \in 1..Len(calls), c \in Conn : \A i \in 1..Len(given'[c]) :
          Before(given'[c][i].msg, calls[j].msg)
    <3>. SUFFICES ASSUME NEW j \in 1..Len(calls), NEW c \in Conn, NEW i \in 1..Len(given'[c])
                  PROVE  Before(given'[c][i].msg, calls[j].msg)
      OBVIOUS
    <3>1. CASE c # b
      BY <2>3, <3>1 DEF Orderly
    <3>2. CASE c = b /\ i \in 1..L /\ given'[b][i] = given[b][i]
      BY <1>3, <3>2 DEF Orderly
    <3>3. CASE c = b /\ i - L \in 1..Len(outqueue) /\ given'[b][i].msg = outqueue[i - L]
      BY <3>3 DEF Orderly
    <3>. QED  BY <2>3, <2>5, <3>1, <3>2, <3>3
  <2>7. \A i, j \in 1..Len(outqueue') : i < j => Before(outqueue'[i], outqueue'[j])
    <3>1. \A i, j \in 1..Len(outqueue') : i < j => i + n + 1 < j + n + 1
      BY <1>3, <2>2
    <3>. QED  BY <2>2, <3>1 DEF Orderly
  <2>8. \A j \in 1..Len(outqueue'), c \in Conn : \A i \in 1..Len(given'[c]) :
          given'[c][i].by = "queued" => Before(given'[c][i].msg, outqueue'[j])
    <3>. SUFFICES ASSUME NEW j \in 1..Len(outqueue'), NEW c \in Conn, NEW i \in 1..Len(given'[c]),
                         given'[c][i].by = "queued"
                  PROVE  Before(given'[c][i].msg, outqueue'[j])
      OBVIOUS
    <3>1. CASE c # b
      BY <2>2, <2>3, <3>1 DEF Orderly
    <3>3. CASE c = b /\ i \in 1..L
      <4>1. given'[b][i] = given[b][i]
        BY <2>12, <3>3
      <4>. QED  BY <1>3, <2>2, <3>3, <4>1 DEF Orderly
    <3>2. CASE c = b /\ i \notin 1..L
      <4>1. i - L \in 1..n /\ i - L \in 1..Len(outqueue) /\ given'[b][i].msg = outqueue[i - L]
        BY <2>3, <2>5, <3>2
      <4>2. i - L < j + n + 1
        BY <2>1, <4>1
      <4>. QED  BY <2>2, <3>2, <4>1, <4>2 DEF Orderly
    <3>. QED  BY <3>1, <3>2, <3>3
  <2>9. \A c \in Conn : \A i, j \in 1..Len(given'[c]) :
          i < j /\ given'[c][i].by = given'[c][j].by => Before(given'[c][i].msg, given'[c][j].msg)
    <3>. SUFFICES ASSUME NEW c \in Conn, NEW i \in 1..Len(given'[c]), NEW j \in 1..Len(given'[c]),
                         i < j, given'[c][i].by = given'[c][j].by
                  PROVE  Before(given'[c][i].msg, given'[c][j].msg)
      OBVIOUS
    <3>1. CASE c # b
      BY <2>3, <3>1 DEF Orderly
    <3>2. CASE c = b /\ j \in 1..L
      <4>1. i \in 1..L
        BY <3>2
      <4>2. given'[b][i] = given[b][i] /\ given'[b][j] = given[b][j]
        BY <2>12, <3>2, <4>1
      <4>. QED  BY <1>3, <3>2, <4>1, <4>2 DEF Orderly
    <3>3. CASE c = b /\ j \notin 1..L /\ i \in 1..L
      <4>1. j - L \in 1..Len(outqueue) /\ given'[b][j].msg = outqueue[j - L] /\ given'[b][j].by = "queued"
        BY <2>3, <2>5, <3>3
      <4>2. given'[b][i] = given[b][i] /\ given[b][i].by = "queued"
        BY <2>12, <3>3, <4>1
      <4>3. Before(given[b][i].msg, outqueue[j - L])
        BY <1>3, <3>3, <4>1, <4>2 DEF Orderly
      <4>. QED  BY <3>3, <4>1, <4>2, <4>3
    <3>4. CASE c = b /\ j \notin 1..L /\ i \notin 1..L
      <4>1. /\ j - L \in 1..Len(outqueue) /\ given'[b][j].msg = outqueue[j - L]
            /\ i - L \in 1..Len(outqueue) /\ given'[b][i].msg = outqueue[i - L]
        BY <2>3, <2>5, <3>4
      <4>2. i - L < j - L
        BY <2>1, <2>3, <3>4
      <4>. QED  BY <3>4, <4>1, <4>2 DEF Orderly
    <3>. QED  BY <3>1, <3>2, <3>3, <3>4
  <2>10. \A j \in 1..Len(calls) : \A i \in 1..Len(outqueue') : Before(outqueue'[i], calls[j].msg)
    BY <2>2 DEF Orderly
  <2>11. \A i, j \in 1..Len(calls) : i < j => Before(calls[i].msg, calls[j].msg)
    BY DEF Orderly
  <2>. QED  BY <1>1, <2>6, <2>7, <2>8, <2>9, <2>10, <2>11 DEF Orderly
<1>4. botinst \in Conn => Len(given[botinst]) \in Nat
  BY DEF Typed, OutboundTypeOK, SentLine
<1>. QED  BY <1>2, <1>3, <1>4, Checks

LEMMA NextOrderly ==
  Typed /\ Placed /\ Orderly /\ [OutboundNext]_outboundVars => Orderly'
<1>. SUFFICES ASSUME Typed, Placed, Orderly, [OutboundNext]_outboundVars PROVE Orderly'
  OBVIOUS
<1>1. CASE Connect \/ SignedOn \/ ConnectionLost \/ UNCHANGED outboundVars
  <2>1. UNCHANGED <<calls, outqueue, given>>
    BY <1>1 DEF Connect, SignedOn, ConnectionLost, outboundVars
  <2>. QED  BY <2>1 DEF Orderly
<1>. QED  BY <1>1, HandlersOrder, RunCallOrder, CheckOrder DEF OutboundNext

----------------------------------------------------------------------------
(* The theorem.                                                            *)

\* However connections come and go and whatever the checks of the queue find, each call
\* of a bot method that was made is in one place only, and the calls of a handler that
\* went the same way reach the connection in the order it made them.
THEOREM CallsAreKept == OutboundSpec => []CallsKeepOrder
<1>. DEFINE Inv == Typed /\ Placed /\ Orderly
<1>1. OutboundInit => Inv
  BY InitTyped, InitPlaced, InitOrderly
<1>2. Inv /\ [OutboundNext]_outboundVars => Inv'
  BY NextTyped, NextPlaced, NextOrderly
<1>3. Inv => CallsKeepOrder
  BY PlacedIsOnePlace, OrderlyIsInOrder DEF CallsKeepOrder, Typed
<1>. QED  BY <1>1, <1>2, <1>3, PTL DEF OutboundSpec
==============================================================================
