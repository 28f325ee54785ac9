---------------------------- MODULE MCDBManager ----------------------------
(* Instance of DBManager for TLC: two handlers, the reactor, two networks.  *)
EXTENDS DBManager

CONSTANTS c1, c2, l1, l2, f1, f2, f3

TwoClients == {c1, c2}
TwoLabels == {l1, l2}
ThreeFiles == {f1, f2, f3}
BadFile == {f3}
OneFile == {f1}

Call(op, l, f) == [op |-> op, label |-> l, file |-> f]

\* l1 is added, moved, shared with l2, dropped and added again; one handler
\* writes a batch to l1, the other queries it or is the hourly checkpoint.
MCCalls == [c \in TwoClients \cup {Reactor} |->
  CASE c = c1 -> {Call("batch", l1, MainFile)}
    [] c = c2 -> {Call("query", l1, MainFile), Call("commit", l1, MainFile)}
    [] OTHER  -> {Call("add", l1, f1), Call("add", l1, f2), Call("add", l2, f1), Call("add", l2, f3), Call("add", l1, f3),
                  Call("add", l1, MainFile), Call("del", l1, MainFile),
                  Call("shutdown", l1, MainFile)}]

\* for the run of the liveness properties: one handler of every kind of call
OneClient == {c1}
LiveCalls == [c \in {c1, Reactor} |-> IF c = c1 THEN MCCalls[c1] \cup MCCalls[c2]
                                                ELSE MCCalls[Reactor]]

MCMaxOps == [c \in Callers |-> IF c = Reactor THEN 3 ELSE 1]
============================================================================
