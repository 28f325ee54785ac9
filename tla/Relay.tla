------------------------------- MODULE Relay -------------------------------
(***************************************************************************)
(* microirc_server.py, the relay of the smoke test, as the server a bot's    *)
(* connection (Registration) and another client's may have: a thread for     *)
(* each client, which reads its lines, changes the clients' state under       *)
(* state_lock and sends afterwards, a line at a time, without it.             *)
(* There is one channel; PART, PING, MODE and NAMES, which the test does not   *)
(* turn on, are left out.                                                   *)
(***************************************************************************)
EXTENDS Registration

VARIABLES
  rel,      \* ClientState of each client
  todo      \* what the thread of each client has yet to send: [to, line]

relayVars == <<rel, todo>>

NoNick == <<"none", 0>>
RelayInit ==
  /\ rel = [c \in Clients |-> [nick |-> NoNick, user |-> FALSE, registered |-> FALSE,
                               joined |-> FALSE, closed |-> FALSE]]
  /\ todo = [c \in Clients |-> <<>>]

Members == {c \in Clients : rel[c].registered /\ ~rel[c].closed /\ rel[c].joined}
Peers(c) == IF rel[c].joined THEN Members \ {c} ELSE {}

ToAll(S, line) == SetToSeq({[to |-> r, line |-> line] : r \in S})
To(c, line) == <<[to |-> c, line |-> line]>>
From(c, cmd) == [cmd |-> cmd, nick |-> rel[c].nick]

\* The thread of c takes a line once it has sent what the last one made it send.
Reads(c, S) == /\ todo[c] = <<>> /\ ~rel[c].closed /\ up[c] # <<>> /\ Head(up[c]).cmd \in S
               /\ up' = [up EXCEPT ![c] = Tail(@)] /\ UNCHANGED down
Read(c) == Head(up[c])
Does(c, r, sends) == rel' = [rel EXCEPT ![c] = r] /\ todo' = [todo EXCEPT ![c] = sends]

\* _complete_registration, after NICK or USER
Completed(r) == [r EXCEPT !.registered = @ \/ (r.nick # NoNick /\ r.user)]
Welcome(c, r) == IF ~rel[c].registered /\ Completed(r).registered THEN To(c, Msg("001")) ELSE <<>>

Collides(c, n) == \E d \in Clients \ {c} : ~rel[d].closed /\ rel[d].nick = n

\* The name is set under state_lock and registered just after it; the two are one step, since
\* of a client not yet registered the other threads ask only the name.
RelayNick(c) ==
  /\ Reads(c, {"NICK"})
  /\ LET n == Read(c).nick  r == [rel[c] EXCEPT !.nick = n] IN
     IF Collides(c, n) THEN Does(c, rel[c], To(c, Msg("433")))
     ELSE Does(c, Completed(r),
               (IF rel[c].registered THEN ToAll(Peers(c) \cup {c}, From(c, "NICK")) ELSE <<>>)
               \o Welcome(c, r))

RelayUser(c) ==
  /\ Reads(c, {"USER"})
  /\ LET r == [rel[c] EXCEPT !.user = TRUE] IN
     Does(c, Completed(r), IF rel[c].registered THEN To(c, Msg("462")) ELSE Welcome(c, r))

\* what only a registered client may
Registered(c, r, sends) ==
  IF rel[c].registered THEN Does(c, r, sends) ELSE Does(c, rel[c], To(c, Msg("451")))

RelayJoin(c) ==
  /\ Reads(c, {"JOIN"})
  /\ LET now == Members \cup {c} IN
     Registered(c, [rel[c] EXCEPT !.joined = TRUE],
                ToAll(now, From(c, "JOIN"))
                \o To(c, [cmd |-> "353", names |-> {rel[d].nick : d \in now}]))

\* _relay_message, to the channel
RelaySay(c) ==
  /\ Reads(c, {"SAY"})
  /\ Registered(c, rel[c], IF \A d \in Clients : ~rel[d].joined THEN To(c, Msg("403"))
                           ELSE ToAll(Members \ {c}, [cmd |-> "SAY", nick |-> rel[c].nick, re |-> Read(c).re]))

RelayUnknown(c) == Reads(c, {"CAP LS"}) /\ Does(c, rel[c], To(c, Msg("421")))

\* disconnect: QUIT, or the end of what the client sends
RelayQuit(c, gone) ==
  /\ ~rel[c].closed /\ todo[c] = <<>>
  /\ \/ Reads(c, {"QUIT"})
     \/ gone /\ up[c] = <<>> /\ UNCHANGED <<up, down>>
  /\ Does(c, [rel[c] EXCEPT !.closed = TRUE, !.joined = FALSE],
          IF rel[c].registered THEN ToAll(Peers(c), From(c, "QUIT")) ELSE <<>>)

Handles(c) == RelayNick(c) \/ RelayUser(c) \/ RelayJoin(c) \/ RelaySay(c) \/ RelayUnknown(c)

\* send_line: nothing to a client that is gone; listens tells whose socket is open,
\* and line is what arrives there
RelaySend(c, listens, line) ==
  /\ todo[c] # <<>> /\ todo' = [todo EXCEPT ![c] = Tail(@)]
  /\ LET r == Head(todo[c]).to IN
     down' = IF rel[r].closed \/ r \notin listens THEN down
             ELSE [down EXCEPT ![r] = Append(@, line)]
  /\ UNCHANGED <<up, rel>>

\* client_joined
ClientJoined(c, n) == rel[c].registered /\ ~rel[c].closed /\ rel[c].nick = n /\ rel[c].joined

\* No two clients that are there have one nick, registered or not (_irc_NICK).
NicksDiffer ==
  \A c, d \in Clients : c # d /\ ~rel[c].closed /\ ~rel[d].closed /\ rel[c].nick # NoNick
                        => rel[c].nick # rel[d].nick
============================================================================
