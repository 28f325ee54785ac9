------------------------------ MODULE Throttle ------------------------------
(***************************************************************************)
(* BurlyBot.sendLine and _sendLine (util/client.py): the throttle of the    *)
(* lines one connection sends.  Lines leave at once until linethrottle of   *)
(* them came close together, and then one a second.                         *)
(***************************************************************************)
EXTENDS Naturals, Sequences

CONSTANTS Line,           \* the lines callers send
          linethrottle,
          Second,         \* ticks of the clock in a second
          Late,           \* bound: how late the reactor makes a delayed call
          MaxLines,       \* bound: lines asked for
          LastAsk,        \* bound: no line is asked for later
          MaxTime         \* bound: the clock

ASSUME ThrottleAssumption ==
  /\ linethrottle \in Nat \ {0} /\ Second \in Nat \ {0}
  /\ Late \in Nat /\ MaxLines \in Nat /\ LastAsk \in Nat /\ MaxTime \in Nat

VARIABLES
  now,        \* time()
  dqueue,     \* _dqueue
  lines,      \* _lines
  lastmsg,    \* _lastmsg
  held,       \* _lastCL is not None
  due,        \* when a delayed _sendLine is due, or NoCall
  asked,      \* the lines sendLine was given (history)
  out, sentAt \* the lines written, and when (history)

vars == <<now, dqueue, lines, lastmsg, held, due, asked, out, sentAt>>

NoCall == 0               \* a call is due one second from now at the earliest

Init ==
  /\ now \in (2 * Second + 1)..(2 * Second + 2)   \* long after _lastmsg = 0
  /\ dqueue = <<>> /\ lines = 0 /\ lastmsg = 0
  /\ held = FALSE /\ due = NoCall
  /\ asked = <<>> /\ out = <<>> /\ sentAt = <<>>

\* _reallySendLine
Write(l) == out' = Append(out, l) /\ sentAt' = Append(sentAt, now)

\* self._dqueue.append(line); if not self._lastCL: ...
Enqueue(l) == /\ dqueue' = Append(dqueue, l)
              /\ held' = TRUE
              /\ due' = IF held THEN due ELSE now + Second
              /\ UNCHANGED <<lines, out, sentAt>>

SendNow(l, n) == Write(l) /\ lines' = n /\ UNCHANGED <<dqueue, held, due>>

\* no line for a second; none for two restarts the count
AfterPause(l) ==
  /\ dqueue = <<>> /\ lastmsg + Second < now
  /\ SendNow(l, IF lastmsg + 2 * Second < now THEN 1 ELSE lines + 1)

\* Mutant: one line too many.
OneTooMany(l) ==
  /\ dqueue = <<>> /\ ~(lastmsg + Second < now) /\ lines <= linethrottle
  /\ SendNow(l, lines + 1)

UnderThreshold(l) ==
  /\ dqueue = <<>> /\ ~(lastmsg + Second < now) /\ lines < linethrottle
  /\ SendNow(l, lines + 1)

Throttled(l) ==
  /\ \/ dqueue # <<>>
     \/ ~(lastmsg + Second < now) /\ lines >= linethrottle
  /\ Enqueue(l)

sendLine(l) ==
  /\ Len(asked) < MaxLines /\ now <= LastAsk
  /\ AfterPause(l) \/ UnderThreshold(l) \/ Throttled(l)
  /\ lastmsg' = now
  /\ asked' = Append(asked, l)
  /\ UNCHANGED now

\* Mutant: the timer is not set again, and _lastCL is kept.
DrainOnce ==
  /\ due # NoCall /\ due <= now /\ dqueue # <<>>
  /\ Write(Head(dqueue)) /\ dqueue' = Tail(dqueue)
  /\ lastmsg' = now
  /\ due' = NoCall
  /\ UNCHANGED <<now, lines, held, asked>>

\* _sendLine, the delayed call: one line, and another call while lines wait
DrainLine ==
  /\ due # NoCall /\ due <= now
  /\ IF dqueue = <<>>
     THEN due' = NoCall /\ held' = FALSE /\ UNCHANGED <<dqueue, lastmsg, out, sentAt>>
     ELSE /\ Write(Head(dqueue)) /\ dqueue' = Tail(dqueue)
          /\ lastmsg' = now
          /\ held' = (Len(dqueue) > 1)
          /\ due' = IF Len(dqueue) > 1 THEN now + Second ELSE NoCall
  /\ UNCHANGED <<now, lines, asked>>

Tick == /\ now < MaxTime /\ now' = now + 1
        /\ due # NoCall => now < due + Late
        /\ UNCHANGED <<dqueue, lines, lastmsg, held, due, asked, out, sentAt>>

Next == (\E l \in Line : sendLine(l)) \/ DrainLine \/ Tick

\* The reactor makes its delayed calls; time passes.  Nobody need send.
Fairness == WF_vars(DrainLine) /\ WF_vars(Tick)
Spec == Init /\ [][Next]_vars /\ Fairness

----------------------------------------------------------------------------
(* Properties.                                                             *)

\* The values the variables range over.
TypeOK ==
  /\ now \in Nat /\ lines \in Nat /\ lastmsg \in Nat /\ due \in Nat
  /\ held \in BOOLEAN
  /\ dqueue \in Seq(Line) /\ asked \in Seq(Line) /\ out \in Seq(Line)
  /\ sentAt \in Seq(Nat) /\ Len(sentAt) = Len(out)

\* Lines wait exactly as long as a call of _sendLine is pending, and _lastCL is
\* kept exactly as long: neither a queue nobody drains, nor a call that finds
\* nothing, nor a _lastCL that is set to a call already made and holds back the next.
QueueIsArmed == (dqueue # <<>> <=> due # NoCall) /\ (dqueue # <<>> <=> held)

\* What callers gave sendLine is what left and then what waits, in that order.
InOrder == asked = out \o dqueue

\* The server's flood limit: of any linethrottle + 1 lines in a row the first
\* and the last are written a second or more apart, queued or not.
NoFlood ==
  \A i \in 1..Len(sentAt) :
    i + linethrottle <= Len(sentAt) => sentAt[i] + Second <= sentAt[i + linethrottle]

\* The throttle is a queue of lines: each leaves once, in its turn, at last.
Queue == INSTANCE LineQueue
ImplementsLineQueue == Queue!Spec
============================================================================
