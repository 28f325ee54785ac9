----------------------------- MODULE MCConnect -----------------------------
(* Instance of SmokeTest, and with it of Relay and Registration, for TLC:    *)
(* a bot that registers with a network, one whose users act, and smoke tests. *)
EXTENDS SmokeTest

CONSTANTS bot_, tester, u1, u2, n1, n2

MCClients == {bot_, tester}
MCOwner == (n1 :> u1) @@ (n2 :> "nobody")
MCUsers == {u1, u2}

Base(name, k) == <<name, k>>
Net(cap, caps, plain, lines, grants, login) ==
  [cap |-> cap, caps |-> caps, plain |-> plain, lines |-> lines, grants |-> grants, login |-> login]
Home == (u1 :> n1) @@ (u2 :> n2)
Plain == Net(TRUE, {}, TRUE, 1, "all", TRUE)
Conf ==
  [kind |-> "network", sasl |-> FALSE, payload |-> 3, nicks |-> <<Base("bot", 0), Base("alt", 0)>>,
   net |-> Plain, taken |-> {}, start |-> {Home}, admin |-> {}, events |-> 0,
   tests |-> <<>>, testnick |-> NoNick, crash |-> FALSE]

\* what a server may offer, grant and answer, where it makes a difference
Networks ==
  {Net(TRUE, c, p, l, g, a) : c \in SUBSET {"account", "sasl"}, p \in BOOLEAN, l \in {1, 2},
                              g \in {"all", "none", "split"}, a \in BOOLEAN}
Sensible(s, n) ==
  /\ n.caps # {"account", "sasl"} => n.grants # "split"
  /\ n.caps = {} => n.grants = "all" /\ n.lines = 1
  /\ ("sasl" \notin n.caps \/ ~s) => n.plain /\ n.login
InUse == {{}, {Base("bot", 0), Base("alt", 0), Base("alt", 1)}}

Registering ==
  {[Conf EXCEPT !.sasl = s, !.payload = p, !.net = n, !.taken = k] :
     s \in BOOLEAN, p \in {3, 4}, k \in InUse, n \in Networks \cup {Net(FALSE, {}, TRUE, 1, "all", TRUE)}}
Crowd(caps, start, admin, most) ==
  [Conf EXCEPT !.net.caps = caps, !.start = {start}, !.admin = admin, !.events = most]
Busying == {Crowd({}, Home, BOOLEAN, 3), Crowd({"account"}, Home, BOOLEAN, 2),
            Crowd({}, (u1 :> n1) @@ (u2 :> Off), {TRUE}, 4)}

Smoke(tests, nick, crash) ==
  [Conf EXCEPT !.kind = "relay", !.tests = tests, !.testnick = nick, !.crash = crash]
Smoking == {Smoke(<<TRUE, FALSE>>, Base("botTest", 0), FALSE), Smoke(<<FALSE>>, Base("bot", 0), TRUE)}

MCConfs == {c \in Registering : Sensible(c.sasl, c.net) /\ (~c.sasl => c.payload = 3)} \cup Busying \cup Smoking
============================================================================
