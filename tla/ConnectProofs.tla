--------------------------- MODULE ConnectProofs ---------------------------
(***************************************************************************)
(* Proofs about SmokeTest, and with it Registration and Relay, for every    *)
(* server, set of users and list of commands: a command is decided once,     *)
(* with the identity its sender had; a bot that is to use SASL logs in       *)
(* before it registers; and a smoke test's verdict is honest.               *)
(***************************************************************************)
EXTENDS SmokeTest, FiniteSetTheorems, FunctionTheorems, SequenceTheorems, TLAPS

----------------------------------------------------------------------------
(* Types.                                                                  *)

Who == {"owner", "none"}
Phases == {"off", "registering", "on", "closing", "lost"}

Plainly == [cmd : {"CAP LS", "USER", "CAP END", "QUIT", "JOIN", "AUTHENTICATE PLAIN"}]
UpLine == Plainly \cup [cmd : {"NICK"}, nick : Name] \cup [cmd : {"CAP REQ"}, caps : SUBSET Cap]
          \cup [cmd : {"PAYLOAD"}, len : Nat] \cup [cmd : {"STATUS"}, nick : Nicks]
          \cup [cmd : {"SAY"}, re : Nat]

\* what the relay sends, and a reply as it is stamped on arrival
QuietLine == [cmd : {"001", "403", "421", "433", "451", "462"}]
             \cup [cmd : {"NICK", "JOIN", "QUIT"}, nick : Name] \cup [cmd : {"353"}, names : SUBSET Name]
SayLine == [cmd : {"SAY"}, nick : Name, re : Nat]
StampedLine == [cmd : {"SAY"}, nick : Name, re : Nat, at : Nat]

\* what the server of a network sends as it registers a connection
ServerLine == [cmd : {"001", "421", "433", "903", "904", "AUTHENTICATE"}]
              \cup [cmd : {"LS"}, caps : SUBSET Cap, plain : BOOLEAN, more : BOOLEAN]
              \cup [cmd : {"ACK", "NAK"}, caps : SUBSET Cap]
Answer == [cmd : {"STATUS"}, nick : Nicks, who : Who]
Privmsg == [cmd : {"PRIVMSG"}, id : Nat, nick : Nicks, admin : BOOLEAN, account : Who]
Renaming == [cmd : {"NICK"}, nick : Nicks, new : Nicks \cup {Off}]
DownLine == QuietLine \cup StampedLine \cup ServerLine \cup Answer \cup Privmsg \cup Renaming

BotRec == [phase : Phases, nick : Name, alt : Nat, ls : SUBSET Cap, plain : BOOLEAN,
           caps : SUBSET Cap, ended : BOOLEAN, paid : BOOLEAN, legacy : BOOLEAN]
ServerRec == [cap : BOOLEAN, nick : BOOLEAN, user : BOOLEAN, welcomed : BOOLEAN, login : BOOLEAN]
Command == [who : Users, nick : Nicks, admin : BOOLEAN, is : Who]

Typed ==
  /\ conf \in Confs /\ b \in BotRec /\ srv \in ServerRec
  /\ up \in [Clients -> Seq(UpLine)] /\ down \in [Clients -> Seq(DownLine)]
  /\ nickOf \in [Users -> Nicks \cup {Off}]
  /\ asked \subseteq Nicks /\ answers \in Seq(Answer)
  /\ cache \in [Nicks -> Who \cup {"absent"}] /\ waiting \in [Nicks -> Seq(Nat)] /\ timers \subseteq Nicks
  /\ cmds \in Seq(Command) /\ decided \in Seq(Seq(Who)) /\ Len(decided) = Len(cmds)

----------------------------------------------------------------------------
(* Where a command is.                                                     *)

Sent(q) == {k \in DOMAIN q : q[k].cmd = "PRIVMSG"}
Wire(q) == {q[k].id : k \in Sent(q)}
Distinct(q) == \A j, k \in Sent(q) : q[j].id = q[k].id => j = k

InLookup == UNION {{waiting[n][k] : k \in DOMAIN waiting[n]} : n \in Nicks}
Apart == \A m, n \in Nicks : \A j \in DOMAIN waiting[m], k \in DOMAIN waiting[n] :
           waiting[m][j] = waiting[n][k] => m = n /\ j = k
Pending == {i \in DOMAIN cmds : decided[i] = <<>>}
Held == Wire(down[Bot]) \cup asking \cup InLookup

\* What is not decided is in one place, and what is in a place is not decided.
Kept ==
  /\ \A i \in DOMAIN decided : Len(decided[i]) <= 1
  /\ Distinct(down[Bot]) /\ Apart
  /\ Wire(down[Bot]) \cap asking = {} /\ Wire(down[Bot]) \cap InLookup = {} /\ asking \cap InLookup = {}
  /\ Held \subseteq Pending /\ (b.phase # "lost" => Pending \subseteq Held)
  /\ \A n \in Nicks : waiting[n] # <<>> <=> n \in timers

----------------------------------------------------------------------------
(* Who a command is from.                                                  *)

\* A place that holds a command has the nick it came from.
Sourced ==
  /\ \A k \in Sent(down[Bot]) : LET l == down[Bot][k] IN
       l.nick = cmds[l.id].nick /\ (l.account = "owner" => cmds[l.id].is = "owner")
  /\ \A n \in Nicks : \A k \in DOMAIN waiting[n] : cmds[waiting[n][k]].nick = n

\* An undecided command and an answer on its way still tell the truth, unless the
\* nick moved meanwhile.
StatusOf(q) == {k \in DOMAIN q : q[k].cmd = "STATUS"}
Truthful(q) == \A k \in StatusOf(q) : q[k].nick \notin moved => q[k].who = Identified(q[k].nick)
Fresh ==
  /\ \A i \in Pending : cmds[i].nick \notin moved => cmds[i].is = Identified(cmds[i].nick)
  /\ Truthful(answers) /\ Truthful(down[Bot])

\* What is cached of a nick that did not move in question is true, or there is the
\* NICK on its way that clears it, before any command that it is not true of.
Renames(l, n) == l.cmd = "NICK" /\ (l.nick = n \/ l.new = n)
Announced(q, n) == {k \in DOMAIN q : Renames(q[k], n)}
Follows(q, n, i) == \E k \in Sent(q) : q[k].id = i /\ \E j \in Announced(q, n) : j < k
CacheIsSafe(n) ==
  /\ Identified(n) = "owner" \/ Announced(down[Bot], n) # {}
  /\ \A i \in Pending : cmds[i].nick = n /\ cmds[i].is # "owner" => Follows(down[Bot], n, i)
Cautious == b.phase # "lost" =>
              \A n \in Nicks : cache[n] = "owner" /\ n \notin moved => CacheIsSafe(n)

Identity == Sourced /\ Fresh /\ Cautious /\ IdentityIsCurrent

----------------------------------------------------------------------------
(* Who the bot is.                                                         *)

Guarded == conf.kind = "network" /\ conf.sasl /\ conf.net.cap /\ conf.net.grants # "split"
LoggedInOn(l) == (l.cmd \in {"001", "903"} => srv.login) /\ (l.cmd \in {"ACK", "NAK"} => "sasl" \in l.caps)
AsksLoggedIn(l) == (l.cmd = "CAP END" => srv.login) /\ (l.cmd = "CAP REQ" => "sasl" \in l.caps)

\* Until it logs in the server holds the registration open, from the first line on.
HeldOpen ==
  \/ srv.login \/ srv.cap
  \/ /\ ~srv.nick /\ ~srv.user
     /\ IF up[Bot] = <<>> THEN b.phase \in {"off", "lost"} ELSE Head(up[Bot]).cmd = "CAP LS"
LoginFirst ==
  /\ srv.login => conf.net.login
  /\ b.ended \/ b.phase = "on" => srv.login
  /\ \A k \in DOMAIN down[Bot] : LoggedInOn(down[Bot][k])
  /\ \A k \in DOMAIN up[Bot] : AsksLoggedIn(up[Bot][k])
  /\ HeldOpen
Authentication == Guarded => LoginFirst

----------------------------------------------------------------------------
(* The smoke test.                                                         *)

ClientRec == [nick : Name, user : BOOLEAN, registered : BOOLEAN, joined : BOOLEAN, closed : BOOLEAN]
TesterRec == [phase : {"none", "registering", "joining", "drain", "send", "wait", "closing", "exited"},
              nick : Name, collisions : Nat, cmd : Nat, drains : Nat, replies : Nat, timeouts : Nat,
              status : Nat]
HarnessRec == [phase : {"start", "waitbot", "client", "stopclient", "stopbot", "done"},
               signal : {"none", "INT", "TERM", "KILL"}, status : Nat, interrupted : BOOLEAN]
SmokeTyped ==
  /\ rel \in [Clients -> ClientRec]
  /\ todo \in [Clients -> Seq([to : Clients, line : QuietLine \cup SayLine])]
  /\ t \in TesterRec /\ h \in HarnessRec /\ DOMAIN work \subseteq Nat
  /\ \A r \in counted : r.at \in Nat /\ r.for \in Nat

\* The harness starts and stops one process after the other.
Ordered ==
  /\ h.phase = "start" => bot = "none"
  /\ h.phase \in {"start", "waitbot"} => t.phase = "none"
  /\ h.phase \in {"stopbot", "done"} => t.phase \in {"none", "exited"}
  /\ h.phase = "done" => bot # "running"

\* The client discards what is old before each command, and passes over none.
Answered(i) == \E r \in counted : r.for = i
AllAnswered == \A i \in 1..Tests : Answered(i)
Honest ==
  /\ \A r \in counted : r.at >= r.for
  /\ t.phase = "drain" => t.drains + 1 >= t.cmd
  /\ t.phase \in {"send", "wait"} =>
       /\ t.drains >= t.cmd
       /\ \A k \in DOMAIN down[Tester] : down[Tester][k].cmd = "SAY" => down[Tester][k].at >= t.cmd
  /\ t.phase \in {"drain", "send", "wait"} /\ t.timeouts = 0 => \A i \in 1..(t.cmd - 1) : Answered(i)
  /\ t.phase = "wait" /\ t.replies # 0 => Answered(t.cmd)
  /\ h.phase = "client" /\ t.phase \in {"closing", "exited"} /\ t.status = 0 => AllAnswered
  /\ h.phase \in {"stopclient", "stopbot", "done"} /\ h.status = 0 => AllAnswered

----------------------------------------------------------------------------
(* All of it: of a network, and of a smoke test.                           *)

NetworkInv == Kept /\ Identity /\ Authentication
SmokeInv == SmokeTyped /\ NicksDiffer /\ Ordered /\ Honest
Idle == cmds = <<>> /\ timers = {} /\ \A n \in Nicks : waiting[n] = <<>>
Idling == rel = [c \in Clients |-> [nick |-> NoNick, user |-> FALSE, registered |-> FALSE, joined |-> FALSE,
                                     closed |-> FALSE]]
          /\ counted = {} /\ h.phase = "start" /\ t.phase = "none"
Inv == /\ Typed
       /\ IF Testing THEN SmokeInv /\ Idle ELSE NetworkInv /\ Idling

----------------------------------------------------------------------------
(* Lines and queues of them.                                               *)

LEMMA UpFacts ==
  \A l \in UpLine : /\ l.cmd = "NICK" => l.nick \in Name
                    /\ l.cmd = "CAP REQ" => l.caps \subseteq Cap
                    /\ l.cmd = "STATUS" => l.nick \in Nicks
                    /\ l.cmd = "SAY" => l.re \in Nat
BY Zenon DEF UpLine, Plainly

LEMMA UpShapes ==
  /\ \A c \in {"CAP LS", "USER", "CAP END", "QUIT", "JOIN", "AUTHENTICATE PLAIN"} : Msg(c) \in UpLine
  /\ \A n \in Name : [cmd |-> "NICK", nick |-> n] \in UpLine
  /\ \A s \in SUBSET Cap : [cmd |-> "CAP REQ", caps |-> s] \in UpLine
  /\ \A k \in Nat : [cmd |-> "PAYLOAD", len |-> k] \in UpLine
  /\ \A n \in Nicks : [cmd |-> "STATUS", nick |-> n] \in UpLine
  /\ \A k \in Nat : [cmd |-> "SAY", re |-> k] \in UpLine
BY Zenon DEF UpLine, Plainly, Msg

LEMMA DownFacts ==
  \A l \in DownLine : /\ l.cmd = "PRIVMSG" => l \in Privmsg
                      /\ l.cmd = "STATUS" => l \in Answer
                      /\ l.cmd = "SAY" => l \in StampedLine
                      /\ l.cmd \in {"LS", "ACK", "NAK"} => l.caps \in SUBSET Cap
                      /\ l.cmd = "LS" => l.plain \in BOOLEAN /\ l.more \in BOOLEAN
BY DEF DownLine, Privmsg, Answer, StampedLine, QuietLine, ServerLine, Renaming

LEMMA ServerLines ==
  /\ \A c \in {"001", "421", "433", "903", "904", "AUTHENTICATE"} : Msg(c) \in ServerLine
  /\ \A s \in SUBSET Cap : [cmd |-> "ACK", caps |-> s] \in ServerLine /\ [cmd |-> "NAK", caps |-> s] \in ServerLine
  /\ \A s \in SUBSET Cap, p, m \in BOOLEAN : [cmd |-> "LS", caps |-> s, plain |-> p, more |-> m] \in ServerLine
  /\ ServerLine \subseteq DownLine
  /\ \A l \in ServerLine : l.cmd \notin {"PRIVMSG", "STATUS", "NICK", "SAY"}
BY DEF ServerLine, DownLine, Msg

LEMMA OneLine == \A S : <<>> \in Seq(S) /\ \A x \in S : <<x>> \in Seq(S)
OBVIOUS

LEMMA OneUpLine ==
  /\ \A c \in {"CAP LS", "USER", "CAP END", "QUIT", "JOIN", "AUTHENTICATE PLAIN"} : <<Msg(c)>> \in Seq(UpLine)
  /\ \A n \in Name : <<[cmd |-> "NICK", nick |-> n]>> \in Seq(UpLine)
  /\ \A s \in SUBSET Cap : <<[cmd |-> "CAP REQ", caps |-> s]>> \in Seq(UpLine)
  /\ \A n \in Nicks : <<[cmd |-> "STATUS", nick |-> n]>> \in Seq(UpLine)
  /\ \A k \in Nat : <<[cmd |-> "SAY", re |-> k]>> \in Seq(UpLine)
  /\ <<>> \in Seq(UpLine)
BY UpShapes, OneLine, Zenon

LEMMA Tailed ==
  ASSUME NEW S, NEW q \in Seq(S), q # <<>>
  PROVE  /\ Head(q) = q[1] /\ Head(q) \in S /\ 1 \in DOMAIN q /\ Tail(q) \in Seq(S)
         /\ \A k \in DOMAIN Tail(q) : k \in Nat /\ k + 1 \in DOMAIN q /\ Tail(q)[k] = q[k + 1]
         /\ \A k \in DOMAIN q : k = 1 \/ (k - 1 \in DOMAIN Tail(q) /\ Tail(q)[k - 1] = q[k])
         /\ \A k \in DOMAIN q : k \in Nat
<1>1. Len(q) \in Nat \ {0} /\ DOMAIN q = 1..Len(q)
  OBVIOUS
<1>2. /\ Head(q) = q[1] /\ Tail(q) \in Seq(S) /\ DOMAIN Tail(q) = 1..(Len(q) - 1)
      /\ \A k \in 1..(Len(q) - 1) : Tail(q)[k] = q[k + 1]
  OBVIOUS
<1>3. q[1] \in S
  BY <1>1
<1>. QED  BY <1>1, <1>2, <1>3

LEMMA Joined ==
  ASSUME NEW S, NEW q \in Seq(S), NEW r \in Seq(S)
  PROVE  /\ q \o r \in Seq(S)
         /\ \A k \in DOMAIN q : k \in DOMAIN (q \o r) /\ (q \o r)[k] = q[k] /\ k \in Nat
         /\ \A k \in DOMAIN r : k \in Nat /\ Len(q) + k \in DOMAIN (q \o r) /\ (q \o r)[Len(q) + k] = r[k]
         /\ \A k \in DOMAIN (q \o r) : k \in DOMAIN q \/ \E j \in DOMAIN r : k = Len(q) + j /\ (q \o r)[k] = r[j]
         /\ \A k \in DOMAIN q, j \in DOMAIN r : k < Len(q) + j
<1>1. Len(q) \in Nat /\ DOMAIN q = 1..Len(q) /\ Len(r) \in Nat /\ DOMAIN r = 1..Len(r)
  OBVIOUS
<1>2. /\ q \o r \in Seq(S) /\ DOMAIN (q \o r) = 1..(Len(q) + Len(r))
      /\ \A k \in 1..(Len(q) + Len(r)) : (q \o r)[k] = IF k <= Len(q) THEN q[k] ELSE r[k - Len(q)]
  BY ConcatProperties
<1>3. \A k \in DOMAIN (q \o r) : k \in DOMAIN q \/ \E j \in DOMAIN r : k = Len(q) + j /\ (q \o r)[k] = r[j]
  <2>. TAKE k \in DOMAIN (q \o r)
  <2>1. CASE k <= Len(q)
    BY <1>1, <1>2, <2>1
  <2>2. CASE ~(k <= Len(q))
    <3>1. k - Len(q) \in DOMAIN r /\ k = Len(q) + (k - Len(q)) /\ (q \o r)[k] = r[k - Len(q)]
      BY <1>1, <1>2, <2>2
    <3>. QED  BY <3>1
  <2>. QED  BY <2>1, <2>2
<1>4. \A k \in DOMAIN r : k \in Nat /\ Len(q) + k \in DOMAIN (q \o r) /\ (q \o r)[Len(q) + k] = r[k]
  <2>. TAKE k \in DOMAIN r
  <2>1. Len(q) + k \in 1..(Len(q) + Len(r)) /\ ~(Len(q) + k <= Len(q)) /\ (Len(q) + k) - Len(q) = k
    BY <1>1
  <2>. QED  BY <1>1, <1>2, <2>1
<1>. QED  BY <1>1, <1>2, <1>3, <1>4

\* SetToSeq lists the members of a finite set.
LEMMA ListedSeq == ASSUME NEW S, IsFiniteSet(S) PROVE SetToSeq(S) \in Seq(S)
<1>. DEFINE n == Cardinality(S)
<1>1. n \in Nat /\ ExistsBijection(1..n, S)
  BY FS_CardinalityType
<1>2. \E f \in [1..n -> S] : IsInjective(f)
  BY <1>1 DEF ExistsBijection, Bijection, Injection
<1>3. SetToSeq(S) \in [1..n -> S]
  BY <1>2 DEF SetToSeq
<1>. QED  BY <1>1, <1>3

----------------------------------------------------------------------------
(* What the steps of the bot and of the server do to the lines.            *)

\* The bot says some lines, and may take one no command or account is in.
Negotiated ==
  /\ \E ls \in Seq(UpLine) : up' = [up EXCEPT ![Bot] = @ \o ls]
  /\ b' \in BotRec /\ b.phase # "lost"
  /\ \/ down' = down
     \/ /\ down[Bot] # <<>> /\ Head(down[Bot]).cmd \notin {"PRIVMSG", "STATUS", "NICK"}
        /\ down' = [down EXCEPT ![Bot] = Tail(@)]
  /\ UNCHANGED <<conf, srv, lookupVars, serviceVars, userVars>>

\* The server takes a line and says some.
Served ==
  /\ up[Bot] # <<>> /\ up' = [up EXCEPT ![Bot] = Tail(@)]
  /\ \E ls \in Seq(ServerLine) : down' = [down EXCEPT ![Bot] = @ \o ls]
  /\ srv' \in ServerRec /\ asked' \subseteq Nicks
  /\ UNCHANGED <<conf, b, lookupVars, answers, userVars>>

LEMMA TypedConf ==
  ASSUME Typed
  PROVE  /\ conf.kind \in {"network", "relay"} /\ conf.payload \in Nat
         /\ conf.nicks \in Seq(Name) /\ conf.nicks # <<>> /\ conf.tests \in Seq(BOOLEAN)
         /\ conf.testnick \in Name /\ conf.net.caps \subseteq Cap
         /\ conf.net.plain \in BOOLEAN /\ conf.net.login \in BOOLEAN
         /\ conf.net.grants \in {"all", "none", "split"}
         /\ conf.start \subseteq [Users -> Nicks \cup {Off}]
         /\ Bot \in Clients /\ Chunk \in Nat \ {0} /\ Off \notin Nicks
BY ConfsAssumption, SmokeTestAssumption, RegistrationAssumption DEF Typed, Nicks

\* What a handler leaves of the record of the connection.
LEMMA BotFields ==
  ASSUME NEW r \in BotRec
  PROVE  /\ r.phase \in Phases /\ r.nick \in Name /\ r.alt \in Nat /\ r.ls \in SUBSET Cap
         /\ r.caps \in SUBSET Cap
         /\ \A p \in Phases : [r EXCEPT !.phase = p] \in BotRec
         /\ \A c \in SUBSET Cap : [r EXCEPT !.caps = @ \cup c] \in BotRec
         /\ \A c \in SUBSET Cap, p \in BOOLEAN : [r EXCEPT !.ls = @ \cup c, !.plain = p] \in BotRec
         /\ \A c \in SUBSET Cap : [r EXCEPT !.ls = @ \cup c, !.plain = r.plain] \in BotRec
         /\ [r EXCEPT !.paid = TRUE] \in BotRec
         /\ \A n \in Name, k \in Nat : [r EXCEPT !.nick = n, !.alt = k] \in BotRec
         /\ Ended(r) \in BotRec
<1>1. \A l \in BOOLEAN : [r EXCEPT !.ended = TRUE, !.legacy = l] \in BotRec
  BY DEF BotRec
<1>2. r.legacy \in BOOLEAN
  BY DEF BotRec
<1>3. Ended(r) \in BotRec
  <2>1. (r.legacy \/ r.caps \cap AccountCaps = {}) \in BOOLEAN
    OBVIOUS
  <2>2. [r EXCEPT !.ended = TRUE, !.legacy = r.legacy \/ r.caps \cap AccountCaps = {}] \in BotRec
    BY <1>1, <2>1, Zenon
  <2>. QED  BY <2>2 DEF Ended
<1>4. /\ r.phase \in Phases /\ r.nick \in Name /\ r.alt \in Nat /\ r.ls \in SUBSET Cap
      /\ r.caps \in SUBSET Cap
  BY DEF BotRec
<1>5. \A c \in SUBSET Cap, p \in BOOLEAN : [r EXCEPT !.ls = @ \cup c, !.plain = p] \in BotRec
  BY DEF BotRec
<1>6. r.plain \in BOOLEAN
  BY DEF BotRec
<1>. QED  BY <1>3, <1>4, <1>5, <1>6, Zenon DEF BotRec

LEMMA PartsAreLengths ==
  ASSUME NEW len \in Nat, Chunk \in Nat \ {0}
  PROVE  \A i \in DOMAIN Parts(len) : Parts(len)[i] \in Nat
BY DEF Parts

LEMMA PayloadLines ==
  ASSUME Typed
  PROVE  [i \in DOMAIN Parts(conf.payload) |-> [cmd |-> "PAYLOAD", len |-> Parts(conf.payload)[i]]] \in Seq(UpLine)
<1>. DEFINE p == Parts(conf.payload)
            n == conf.payload \div Chunk + 1
<1>1. conf.payload \in Nat /\ Chunk \in Nat \ {0}
  BY TypedConf
<1>2. \A i \in DOMAIN p : p[i] \in Nat
  BY <1>1, PartsAreLengths
<1>3. DOMAIN p = 1..n /\ n \in Nat
  BY <1>1 DEF Parts
<1>. HIDE DEF p, n
<1>4. \A i \in 1..n : [cmd |-> "PAYLOAD", len |-> p[i]] \in UpLine
  BY <1>2, <1>3, UpShapes, Zenon
<1>5. [i \in DOMAIN p |-> [cmd |-> "PAYLOAD", len |-> p[i]]] \in [1..n -> UpLine]
  BY <1>3, <1>4
<1>. QED  BY <1>3, <1>5 DEF p

LEMMA HeardShape ==
  ASSUME Typed, NEW c, Hears(c)
  PROVE  /\ down[Bot] \in Seq(DownLine) /\ down[Bot] # <<>> /\ Heard.cmd = c /\ Heard = Head(down[Bot])
         /\ Heard \in DownLine /\ b.phase \in {"registering", "on"} /\ b.phase # "lost"
<1>1. down[Bot] \in Seq(DownLine)
  BY TypedConf DEF Typed
<1>. QED  BY <1>1, Tailed DEF Hears, Heard, Open

LEMMA SaysShape ==
  ASSUME NEW ls \in Seq(UpLine), down[Bot] # <<>>, Head(down[Bot]).cmd \notin {"PRIVMSG", "STATUS", "NICK"},
         b.phase # "lost", b' \in BotRec, Says(ls), NoLookup
  PROVE  Negotiated
BY DEF Negotiated, Says, Sends, NoLookup

LEMMA EndLinesShape == \A r : EndLines(r) \in Seq(UpLine)
BY OneUpLine, Zenon DEF EndLines

LEMMA EndCapShape ==
  ASSUME NEW r \in BotRec, down[Bot] # <<>>, Head(down[Bot]).cmd \notin {"PRIVMSG", "STATUS", "NICK"},
         b.phase # "lost", EndCap(r), NoLookup
  PROVE  Negotiated
<1>1. b' \in BotRec /\ Says(EndLines(r))
  BY BotFields, Zenon DEF EndCap
<1>. QED  BY <1>1, SaysShape, EndLinesShape

LEMMA FailSaslShape ==
  ASSUME b \in BotRec, down[Bot] # <<>>, Head(down[Bot]).cmd \notin {"PRIVMSG", "STATUS", "NICK"},
         b.phase # "lost", FailSasl, NoLookup
  PROVE  Negotiated
<1>1. b' \in BotRec
  BY BotFields, Zenon DEF FailSasl, Phases
<1>2. <<Msg("QUIT")>> \in Seq(UpLine) /\ Says(<<Msg("QUIT")>>)
  BY OneUpLine, Zenon DEF FailSasl
<1>. QED  BY <1>1, <1>2, SaysShape

LEMMA RequestShape ==
  ASSUME NEW r \in BotRec, down[Bot] # <<>>, Head(down[Bot]).cmd \notin {"PRIVMSG", "STATUS", "NICK"},
         b.phase # "lost", Request(r), NoLookup
  PROVE  Negotiated
<1>. DEFINE want == r.ls \cap (AccountCaps \cup IF conf.sasl THEN {"sasl"} ELSE {})
<1>1. want \in SUBSET Cap
  BY BotFields, Zenon
<1>2. IF want = {} THEN EndCap(r) ELSE b' = r /\ Says(<<[cmd |-> "CAP REQ", caps |-> want]>>)
  BY Zenon DEF Request
<1>. HIDE DEF want
<1>3. <<[cmd |-> "CAP REQ", caps |-> want]>> \in Seq(UpLine)
  BY <1>1, OneUpLine, Zenon
<1>. QED  BY <1>2, <1>3, EndCapShape, SaysShape, Zenon

\* Each handler of the registration is such a step.
LEMMA NegotiationShape == ASSUME Typed, Register \/ Negotiates PROVE Negotiated
<1>1. b \in BotRec /\ conf.nicks \in Seq(Name) /\ conf.nicks # <<>>
  BY TypedConf DEF Typed
<1>2. CASE Register
  <2>1. conf.nicks[1] \in Name
    BY <1>1
  <2>2. /\ Msg("CAP LS") \in UpLine /\ Msg("USER") \in UpLine
        /\ [cmd |-> "NICK", nick |-> conf.nicks[1]] \in UpLine
    BY <2>1, UpShapes, Zenon
  <2>3. <<Msg("CAP LS"), [cmd |-> "NICK", nick |-> conf.nicks[1]], Msg("USER")>> \in Seq(UpLine)
    <3>1. \A S : \A x, y, z \in S : <<x, y, z>> \in Seq(S)
      OBVIOUS
    <3>. QED  BY <2>2, <3>1, Zenon
  <2>4. b' \in BotRec
    <3>1. [NewBot EXCEPT !.phase = "registering", !.nick = conf.nicks[1]] \in BotRec
      BY <2>1 DEF NewBot, BotRec, Phases, Name
    <3>. QED  BY <1>2, <3>1, Zenon DEF Register
  <2>. QED  BY <1>2, <2>3, <2>4, Zenon DEF Register, Negotiated, Sends, NoLookup
<1>3. CASE irc_CAP_LS
  <2>1. Hears("LS") /\ NoLookup
    BY <1>3 DEF irc_CAP_LS
  <2>2. Heard.caps \in SUBSET Cap /\ Heard.plain \in BOOLEAN /\ down[Bot] # <<>> /\ Head(down[Bot]).cmd = "LS"
        /\ b.phase # "lost"
    BY <2>1, HeardShape, DownFacts
  <2>. DEFINE r == [b EXCEPT !.ls = @ \cup Heard.caps,
                             !.plain = IF "sasl" \in Heard.caps THEN Heard.plain ELSE @]
  <2>3. r \in BotRec
    <3>1. CASE "sasl" \in Heard.caps
      BY <1>1, <2>2, <3>1, BotFields, Zenon
    <3>2. CASE "sasl" \notin Heard.caps
      BY <1>1, <2>2, <3>2, BotFields, Zenon
    <3>. QED  BY <3>1, <3>2
  <2>4. IF Heard.more THEN b' = r /\ Says(<<>>)
        ELSE IF conf.sasl /\ ("sasl" \notin r.ls \/ ~r.plain) THEN FailSasl
        ELSE Request(r)
    BY <1>3 DEF irc_CAP_LS
  <2>. HIDE DEF r
  <2>5. (b' = r /\ Says(<<>>)) \/ FailSasl \/ Request(r)
    BY <2>4
  <2>. QED  BY <1>1, <2>1, <2>2, <2>3, <2>5, OneUpLine, SaysShape, FailSaslShape, RequestShape, Zenon
<1>4. CASE irc_CAP_ACK
  <2>1. Hears("ACK") /\ NoLookup
    BY <1>4, Zenon DEF irc_CAP_ACK
  <2>2. Heard.caps \in SUBSET Cap /\ down[Bot] # <<>> /\ Head(down[Bot]).cmd = "ACK" /\ b.phase # "lost"
    BY <2>1, HeardShape, DownFacts
  <2>. DEFINE r == [b EXCEPT !.caps = @ \cup Heard.caps]
  <2>3. r \in BotRec
    BY <1>1, <2>2, BotFields, Zenon
  <2>4. (b' = r /\ Says(<<Msg("AUTHENTICATE PLAIN")>>)) \/ EndCap(r)
    BY <1>4, Zenon DEF irc_CAP_ACK
  <2>. HIDE DEF r
  <2>. QED  BY <1>1, <2>1, <2>2, <2>3, <2>4, OneUpLine, SaysShape, EndCapShape, Zenon
<1>5. CASE irc_CAP_NAK
  <2>1. Hears("NAK") /\ NoLookup /\ (FailSasl \/ EndCap(b))
    BY <1>5 DEF irc_CAP_NAK
  <2>. QED  BY <1>1, <2>1, HeardShape, FailSaslShape, EndCapShape
<1>6. CASE irc_AUTHENTICATE
  <2>. DEFINE ls == [i \in DOMAIN Parts(conf.payload) |-> [cmd |-> "PAYLOAD", len |-> Parts(conf.payload)[i]]]
  <2>1. Hears("AUTHENTICATE") /\ NoLookup
        /\ ((Says(<<>>) /\ UNCHANGED b) \/ (b' = [b EXCEPT !.paid = TRUE] /\ Says(ls)))
    BY <1>6 DEF irc_AUTHENTICATE
  <2>2. ls \in Seq(UpLine) /\ [b EXCEPT !.paid = TRUE] \in BotRec
    BY <1>1, PayloadLines, BotFields, Zenon
  <2>. HIDE DEF ls
  <2>3. <<>> \in Seq(UpLine) /\ b' \in BotRec
    BY <1>1, <2>1, <2>2, OneUpLine, Zenon
  <2>4. down[Bot] # <<>> /\ Head(down[Bot]).cmd = "AUTHENTICATE" /\ b.phase # "lost"
    BY <2>1, HeardShape
  <2>. QED  BY <2>1, <2>2, <2>3, <2>4, SaysShape
<1>7. CASE irc_RPL_SASLSUCCESS
  <2>1. Hears("903") /\ NoLookup /\ EndCap(b)
    BY <1>7 DEF irc_RPL_SASLSUCCESS
  <2>. QED  BY <1>1, <2>1, HeardShape, EndCapShape
<1>8. CASE irc_ERR_SASLFAIL
  <2>1. Hears("904") /\ NoLookup /\ FailSasl
    BY <1>8 DEF irc_ERR_SASLFAIL
  <2>. QED  BY <1>1, <2>1, HeardShape, FailSaslShape
<1>9. CASE irc_ERR_NICKNAMEINUSE
  <2>. DEFINE n == alterCollidedNick(b.nick)
              a == IF b.alt + 1 < Len(conf.nicks) THEN b.alt + 1 ELSE b.alt
  <2>1. b.nick \in Name /\ b.alt \in Nat
    BY <1>1, BotFields, Zenon
  <2>2. n \in Name
    <3>1. CASE b.alt + 1 < Len(conf.nicks)
      <4>1. b.alt + 2 \in 1..Len(conf.nicks)
        BY <1>1, <2>1, <3>1
      <4>. QED  BY <1>1, <3>1, <4>1 DEF alterCollidedNick
    <3>2. CASE ~(b.alt + 1 < Len(conf.nicks))
      BY <2>1, <3>2 DEF alterCollidedNick, Name
    <3>. QED  BY <3>1, <3>2
  <2>3. a \in Nat
    BY <2>1
  <2>4. /\ Hears("433") /\ NoLookup /\ Says(<<[cmd |-> "NICK", nick |-> n]>>)
        /\ b' = [b EXCEPT !.nick = n, !.alt = IF @ + 1 < Len(conf.nicks) THEN @ + 1 ELSE @]
    BY <1>9 DEF irc_ERR_NICKNAMEINUSE
  <2>5. b' = [b EXCEPT !.nick = n, !.alt = a]
    BY <2>4
  <2>. HIDE DEF n, a
  <2>6. b' \in BotRec
    BY <1>1, <2>2, <2>3, <2>5, BotFields, Zenon
  <2>7. <<[cmd |-> "NICK", nick |-> n]>> \in Seq(UpLine)
    BY <2>2, OneUpLine, Zenon
  <2>. QED  BY <2>4, <2>6, <2>7, HeardShape, SaysShape
<1>10. CASE irc_RPL_WELCOME
  <2>1. Hears("001") /\ NoLookup /\ Says(<<Msg("JOIN")>>) /\ b' = [b EXCEPT !.phase = "on"]
    BY <1>10 DEF irc_RPL_WELCOME
  <2>2. b' \in BotRec
    BY <1>1, <2>1, BotFields, Zenon DEF Phases
  <2>3. <<Msg("JOIN")>> \in Seq(UpLine)
    BY OneUpLine, Zenon
  <2>. QED  BY <2>1, <2>2, <2>3, HeardShape, SaysShape
<1>11. CASE irc_unknown
  <2>1. /\ down[Bot] # <<>> /\ Head(down[Bot]).cmd \in {"421", "JOIN", "PART", "353"} /\ b.phase # "lost"
        /\ Says(<<>>) /\ b' = b /\ NoLookup
    BY <1>11 DEF irc_unknown, Open, Heard
  <2>2. Head(down[Bot]).cmd \notin {"PRIVMSG", "STATUS", "NICK"}
    BY <2>1
  <2>. QED  BY <1>1, <2>1, <2>2, OneUpLine, SaysShape, Zenon
<1>. QED  BY <1>2, <1>3, <1>4, <1>5, <1>6, <1>7, <1>8, <1>9, <1>10, <1>11 DEF Negotiates

LEMMA TakesShape ==
  ASSUME Typed, NEW c, Takes(c)
  PROVE  /\ up[Bot] \in Seq(UpLine) /\ up[Bot] # <<>> /\ Taken = Head(up[Bot]) /\ Taken.cmd = c
         /\ Taken \in UpLine /\ up' = [up EXCEPT ![Bot] = Tail(@)] /\ Testing = FALSE
<1>1. up[Bot] \in Seq(UpLine)
  BY TypedConf DEF Typed
<1>. QED  BY <1>1, Tailed DEF Takes, Taken, Testing

LEMMA KnowsShape ==
  ASSUME NEW s \in ServerRec, NEW ls \in Seq(ServerLine), Knows(s, ls)
  PROVE  /\ srv' \in ServerRec
         /\ \E r \in Seq(ServerLine) : down' = [down EXCEPT ![Bot] = @ \o r]
<1>. DEFINE w == s.welcomed \/ Welcomes(s)
            r == ls \o IF Welcomes(s) THEN <<Msg("001")>> ELSE <<>>
<1>1. s.welcomed \in BOOLEAN /\ \A x \in BOOLEAN : [s EXCEPT !.welcomed = x] \in ServerRec
  BY DEF ServerRec
<1>2. w \in BOOLEAN
  BY <1>1
<1>3. srv' = [s EXCEPT !.welcomed = w] /\ down' = [down EXCEPT ![Bot] = @ \o r]
  BY DEF Knows, Answers
<1>4. <<Msg("001")>> \in Seq(ServerLine) /\ <<>> \in Seq(ServerLine)
  BY ServerLines, OneLine
<1>5. r \in Seq(ServerLine)
  BY <1>4, Joined
<1>. HIDE DEF w, r
<1>. QED  BY <1>1, <1>2, <1>3, <1>5

LEMMA ServedShape ==
  ASSUME NEW s \in ServerRec, NEW ls \in Seq(ServerLine), Knows(s, ls), ServerOnly, asked' \subseteq Nicks,
         up[Bot] # <<>>, up' = [up EXCEPT ![Bot] = Tail(@)]
  PROVE  Served
BY KnowsShape DEF Served, ServerOnly

LEMMA ServerFields ==
  ASSUME NEW s \in ServerRec
  PROVE  \A v \in BOOLEAN : /\ [s EXCEPT !.cap = v] \in ServerRec /\ [s EXCEPT !.nick = v] \in ServerRec
                            /\ [s EXCEPT !.user = v] \in ServerRec /\ [s EXCEPT !.login = v] \in ServerRec
BY DEF ServerRec

LEMMA OneServerLine ==
  /\ \A c \in {"001", "421", "433", "903", "904", "AUTHENTICATE"} : <<Msg(c)>> \in Seq(ServerLine)
  /\ \A s \in SUBSET Cap : /\ <<[cmd |-> "ACK", caps |-> s]>> \in Seq(ServerLine)
                           /\ <<[cmd |-> "NAK", caps |-> s]>> \in Seq(ServerLine)
  /\ <<>> \in Seq(ServerLine)
BY ServerLines, OneLine

LEMMA SplitAcks ==
  ASSUME NEW caps \in SUBSET Cap
  PROVE  SetToSeq({[cmd |-> "ACK", caps |-> {c}] : c \in caps}) \in Seq(ServerLine)
<1>. DEFINE S == {[cmd |-> "ACK", caps |-> {c}] : c \in caps}
<1>1. IsFiniteSet(caps)
  <2>1. IsFiniteSet(Cap)
    <3>1. IsFiniteSet({"account"}) /\ IsFiniteSet({"sasl"}) /\ Cap = {"account"} \cup {"sasl"}
      BY FS_Singleton DEF Cap
    <3>. QED  BY <3>1, FS_Union
  <2>. QED  BY <2>1, FS_Subset
<1>2. S \subseteq ServerLine
  <2>. SUFFICES ASSUME NEW c \in caps PROVE [cmd |-> "ACK", caps |-> {c}] \in ServerLine
    OBVIOUS
  <2>1. {c} \in SUBSET Cap
    OBVIOUS
  <2>. QED  BY <2>1, ServerLines
<1>3. IsFiniteSet(S)
  <2>. DEFINE f == [c \in caps |-> [cmd |-> "ACK", caps |-> {c}]]
  <2>1. f \in Surjection(caps, S)
    BY DEF Surjection
  <2>. HIDE DEF f, S
  <2>. QED  BY <1>1, <2>1, FS_Surjection
<1>. HIDE DEF S
<1>4. SetToSeq(S) \in Seq(S)
  BY <1>3, ListedSeq
<1>5. SetToSeq(S) \in Seq(ServerLine)
  BY <1>2, <1>4, SeqMonotonic
<1>. QED  BY <1>5 DEF S

LEMMA OffersShape ==
  ASSUME Typed, NEW caps \in SUBSET Cap, NEW m \in BOOLEAN
  PROVE  Offers(caps, m) \in ServerLine
<1>1. conf.net.plain \in BOOLEAN
  BY TypedConf
<1>. QED  BY <1>1, ServerLines DEF Offers

\* Each step of the server is such a step.
LEMMA ServerShape == ASSUME Typed, Server PROVE Served
<1>1. srv \in ServerRec /\ asked \subseteq Nicks
  BY DEF Typed
<1>2. CASE ServerCapLs
  <2>1. Takes("CAP LS") /\ ServerOnly /\ asked' = asked
    BY <1>2, Zenon DEF ServerCapLs
  <2>. DEFINE a == <<Offers(conf.net.caps, FALSE)>>
              c == <<Offers(conf.net.caps \cap {"sasl"}, TRUE), Offers(conf.net.caps \ {"sasl"}, FALSE)>>
  <2>2. a \in Seq(ServerLine) /\ c \in Seq(ServerLine)
    <3>1. conf.net.caps \in SUBSET Cap /\ conf.net.caps \cap {"sasl"} \in SUBSET Cap
          /\ conf.net.caps \ {"sasl"} \in SUBSET Cap
      BY TypedConf
    <3>2. /\ Offers(conf.net.caps, FALSE) \in ServerLine /\ Offers(conf.net.caps \cap {"sasl"}, TRUE) \in ServerLine
          /\ Offers(conf.net.caps \ {"sasl"}, FALSE) \in ServerLine
      BY <3>1, OffersShape
    <3>3. \A x, y \in ServerLine : <<x>> \in Seq(ServerLine) /\ <<x, y>> \in Seq(ServerLine)
      OBVIOUS
    <3>. QED  BY <3>2, <3>3
  <2>3. Knows(srv, <<Msg("421")>>) \/ Knows([srv EXCEPT !.cap = TRUE], a) \/ Knows([srv EXCEPT !.cap = TRUE], c)
    BY <1>2, Zenon DEF ServerCapLs
  <2>4. [srv EXCEPT !.cap = TRUE] \in ServerRec
    BY <1>1, ServerFields
  <2>5. <<Msg("421")>> \in Seq(ServerLine)
    BY OneServerLine
  <2>6. up[Bot] # <<>> /\ up' = [up EXCEPT ![Bot] = Tail(@)] /\ asked' \subseteq Nicks
    BY <1>1, <2>1, TakesShape, Zenon
  <2>. HIDE DEF a, c
  <2>. QED  BY <1>1, <2>1, <2>2, <2>3, <2>4, <2>5, <2>6, ServedShape, Zenon
<1>3. CASE ServerRegisters
  <2>1. /\ Takes("NICK") \/ Takes("USER") \/ Takes("CAP END") \/ Takes("JOIN")
        /\ ServerOnly /\ asked' = asked
        /\ \/ Knows(srv, <<Msg("433")>>) \/ Knows([srv EXCEPT !.nick = TRUE], <<>>)
           \/ Knows([srv EXCEPT !.user = TRUE], <<>>) \/ Knows([srv EXCEPT !.cap = FALSE], <<>>)
           \/ Knows(srv, <<>>)
    BY <1>3, Zenon DEF ServerRegisters
  <2>2. /\ [srv EXCEPT !.nick = TRUE] \in ServerRec /\ [srv EXCEPT !.user = TRUE] \in ServerRec
        /\ [srv EXCEPT !.cap = FALSE] \in ServerRec
    BY <1>1, ServerFields
  <2>3. <<Msg("433")>> \in Seq(ServerLine) /\ <<>> \in Seq(ServerLine)
    BY OneServerLine
  <2>4. up[Bot] # <<>> /\ up' = [up EXCEPT ![Bot] = Tail(@)] /\ asked' \subseteq Nicks
    BY <1>1, <2>1, TakesShape, Zenon
  <2>. QED  BY <1>1, <2>1, <2>2, <2>3, <2>4, ServedShape, Zenon
<1>4. CASE ServerRequest
  <2>1. Takes("CAP REQ") /\ ServerOnly /\ asked' = asked
    BY <1>4, Zenon DEF ServerRequest
  <2>2. up[Bot] # <<>> /\ up' = [up EXCEPT ![Bot] = Tail(@)] /\ asked' \subseteq Nicks
        /\ Taken.caps \in SUBSET Cap
    BY <1>1, <2>1, TakesShape, UpFacts, Zenon
  <2>. DEFINE s == SetToSeq({[cmd |-> "ACK", caps |-> {c}] : c \in Taken.caps})
  <2>3. \/ Knows(srv, <<[cmd |-> "ACK", caps |-> Taken.caps]>>)
        \/ Knows(srv, <<[cmd |-> "NAK", caps |-> Taken.caps]>>) \/ Knows(srv, s)
    BY <1>4, Zenon DEF ServerRequest
  <2>4. /\ <<[cmd |-> "ACK", caps |-> Taken.caps]>> \in Seq(ServerLine)
        /\ <<[cmd |-> "NAK", caps |-> Taken.caps]>> \in Seq(ServerLine) /\ s \in Seq(ServerLine)
    BY <2>2, OneServerLine, SplitAcks
  <2>. HIDE DEF s
  <2>. QED  BY <1>1, <2>1, <2>2, <2>3, <2>4, ServedShape, Zenon
<1>5. CASE ServerAuthenticate
  <2>. DEFINE l == conf.net.login
  <2>1. /\ Takes("AUTHENTICATE PLAIN") \/ Takes("PAYLOAD")
        /\ ServerOnly /\ asked' = asked
        /\ \/ Knows(srv, <<Msg("AUTHENTICATE")>>) \/ Knows(srv, <<>>)
           \/ Knows([srv EXCEPT !.login = l], <<Msg("903")>>) \/ Knows([srv EXCEPT !.login = l], <<Msg("904")>>)
    BY <1>5, Zenon DEF ServerAuthenticate
  <2>2. [srv EXCEPT !.login = l] \in ServerRec
    BY <1>1, TypedConf, ServerFields
  <2>3. /\ <<Msg("AUTHENTICATE")>> \in Seq(ServerLine) /\ <<Msg("903")>> \in Seq(ServerLine)
        /\ <<Msg("904")>> \in Seq(ServerLine) /\ <<>> \in Seq(ServerLine)
    BY OneServerLine
  <2>4. ServerOnly /\ up[Bot] # <<>> /\ up' = [up EXCEPT ![Bot] = Tail(@)] /\ asked' \subseteq Nicks
    BY <1>1, <1>5, TakesShape, Zenon DEF ServerAuthenticate
  <2>. HIDE DEF l
  <2>. QED  BY <1>1, <2>1, <2>2, <2>3, <2>4, ServedShape, Zenon
<1>6. CASE ServerStatus
  <2>1. Takes("STATUS") /\ ServerOnly /\ asked' = asked \cup {Taken.nick} /\ Knows(srv, <<>>)
    BY <1>6 DEF ServerStatus
  <2>2. Taken \in UpLine /\ Taken.cmd = "STATUS" /\ up[Bot] # <<>> /\ up' = [up EXCEPT ![Bot] = Tail(@)]
    BY <2>1, TakesShape
  <2>3. asked' \subseteq Nicks
    BY <1>1, <2>1, <2>2, UpFacts, Zenon
  <2>. QED  BY <1>1, <2>1, <2>2, <2>3, OneServerLine, ServedShape
<1>7. CASE ServerQuit
  <2>1. Takes("QUIT") /\ ServerOnly /\ asked' = asked /\ Knows(srv, <<>>)
    BY <1>7 DEF ServerQuit
  <2>2. up[Bot] # <<>> /\ up' = [up EXCEPT ![Bot] = Tail(@)] /\ asked' \subseteq Nicks
    BY <1>1, <2>1, TakesShape
  <2>. QED  BY <1>1, <2>1, <2>2, OneServerLine, ServedShape
<1>. QED  BY <1>2, <1>3, <1>4, <1>5, <1>6, <1>7 DEF Server

----------------------------------------------------------------------------
(* The types are kept.                                                     *)

LEMMA NegotiatedTyped == ASSUME Typed, Negotiated PROVE Typed'
<1>1. Bot \in Clients /\ up[Bot] \in Seq(UpLine) /\ down[Bot] \in Seq(DownLine)
  BY TypedConf DEF Typed
<1>2. up' \in [Clients -> Seq(UpLine)]
  <2>1. PICK ls \in Seq(UpLine) : up' = [up EXCEPT ![Bot] = @ \o ls]
    BY DEF Negotiated
  <2>2. up[Bot] \o ls \in Seq(UpLine)
    BY <1>1, Joined
  <2>. QED  BY <2>1, <2>2 DEF Typed
<1>3. down' \in [Clients -> Seq(DownLine)]
  <2>1. CASE down' = down
    BY <2>1 DEF Typed
  <2>2. CASE down[Bot] # <<>> /\ down' = [down EXCEPT ![Bot] = Tail(@)]
    <3>1. Tail(down[Bot]) \in Seq(DownLine)
      BY <1>1, <2>2, Tailed
    <3>. QED  BY <2>2, <3>1 DEF Typed
  <2>. QED  BY <2>1, <2>2 DEF Negotiated
<1>. QED  BY <1>2, <1>3 DEF Typed, Negotiated, lookupVars, serviceVars, userVars

LEMMA ServedTyped == ASSUME Typed, Served PROVE Typed'
<1>1. Bot \in Clients /\ up[Bot] \in Seq(UpLine) /\ down[Bot] \in Seq(DownLine)
  BY TypedConf DEF Typed
<1>2. up' \in [Clients -> Seq(UpLine)]
  <2>1. Tail(up[Bot]) \in Seq(UpLine)
    BY <1>1, Tailed DEF Served
  <2>. QED  BY <2>1 DEF Typed, Served
<1>3. down' \in [Clients -> Seq(DownLine)]
  <2>1. PICK ls \in Seq(ServerLine) : down' = [down EXCEPT ![Bot] = @ \o ls]
    BY DEF Served
  <2>2. ls \in Seq(DownLine)
    BY ServerLines, SeqMonotonic
  <2>3. down[Bot] \o ls \in Seq(DownLine)
    BY <1>1, <2>2, Joined
  <2>. QED  BY <2>1, <2>3 DEF Typed
<1>. QED  BY <1>2, <1>3 DEF Typed, Served, lookupVars, userVars

\* What the bot's lines become when it says some as it takes one, or not.
LEMMA SaysTyped ==
  ASSUME Typed, NEW ls \in Seq(UpLine)
  PROVE  /\ Sends(ls) => up' \in [Clients -> Seq(UpLine)]
         /\ Says(ls) /\ down[Bot] # <<>> => down' \in [Clients -> Seq(DownLine)]
<1>1. Bot \in Clients /\ up[Bot] \in Seq(UpLine) /\ down[Bot] \in Seq(DownLine)
  BY TypedConf DEF Typed
<1>2. up[Bot] \o ls \in Seq(UpLine)
  BY <1>1, Joined
<1>3. down[Bot] # <<>> => Tail(down[Bot]) \in Seq(DownLine)
  BY <1>1, Tailed
<1>. QED  BY <1>2, <1>3 DEF Typed, Says, Sends

\* A caller's identity goes to the commands named, and to no others.
LEMMA GivesShape ==
  ASSUME Typed, NEW ids, NEW who \in Who, Gives(ids, who)
  PROVE  /\ decided' \in Seq(Seq(Who)) /\ Len(decided') = Len(cmds) /\ DOMAIN decided' = DOMAIN decided
         /\ DOMAIN decided = DOMAIN cmds
         /\ \A i \in DOMAIN decided : decided[i] \in Seq(Who) /\ i \in Nat
         /\ \A i \in DOMAIN decided :
              decided'[i] = IF Contains(ids, i) THEN Append(decided[i], who) ELSE decided[i]
<1>1. /\ Len(decided) \in Nat /\ DOMAIN decided = 1..Len(decided) /\ Len(decided) = Len(cmds)
      /\ DOMAIN cmds = 1..Len(cmds) /\ \A i \in DOMAIN decided : decided[i] \in Seq(Who)
  BY DEF Typed
<1>2. \A i \in DOMAIN decided : Append(decided[i], who) \in Seq(Who)
  BY <1>1
<1>3. decided' = [i \in DOMAIN decided |-> IF Contains(ids, i) THEN Append(decided[i], who) ELSE decided[i]]
  BY DEF Gives
<1>4. decided' \in [1..Len(decided) -> Seq(Who)]
  BY <1>1, <1>2, <1>3
<1>. QED  BY <1>1, <1>3, <1>4

\* A place for i among the waiters of n, whether or not the lookup is new.
Enters(n, i) ==
  /\ waiting' = [waiting EXCEPT ![n] = Append(@, i)] /\ timers' = timers \cup {n}
  /\ UNCHANGED <<cache, decided>>

LEMMA ResolveShape ==
  ASSUME Typed, \A m \in Nicks : waiting[m] # <<>> <=> m \in timers, NEW n \in Nicks, NEW i, Resolve(n, i)
  PROVE  \/ /\ cache[n] \in Who /\ Gives(<<i>>, cache[n]) /\ UNCHANGED <<cache, waiting, timers>>
         \/ Enters(n, i)
<1>1. CASE Cached(n, i)
  <2>1. cache[n] \in Who
    BY <1>1 DEF Cached, Typed
  <2>. QED  BY <1>1, <2>1 DEF Cached
<1>2. CASE Joins(n, i)
  <2>1. timers = timers \cup {n}
    BY <1>2 DEF Joins
  <2>. QED  BY <1>2, <2>1 DEF Joins, Enters
<1>3. CASE Asks(n, i)
  <2>1. waiting[n] = <<>> /\ Append(<<>>, i) = <<i>>
    BY <1>3 DEF Asks
  <2>2. [waiting EXCEPT ![n] = Append(@, i)] = [waiting EXCEPT ![n] = <<i>>]
    BY <2>1
  <2>. QED  BY <1>3, <2>2 DEF Asks, Enters
<1>. QED  BY <1>1, <1>2, <1>3 DEF Resolve

LEMMA EntersTyped ==
  ASSUME Typed, NEW n \in Nicks, NEW i \in Nat, Enters(n, i)
  PROVE  /\ waiting' \in [Nicks -> Seq(Nat)] /\ timers' \subseteq Nicks /\ cache' = cache /\ decided' = decided
         /\ \A m \in Nicks : waiting'[m] = IF m = n THEN Append(waiting[n], i) ELSE waiting[m]
<1>1. Append(waiting[n], i) \in Seq(Nat)
  BY DEF Typed
<1>. QED  BY <1>1 DEF Typed, Enters

LEMMA FinishShape ==
  ASSUME Typed, NEW n \in Nicks, NEW who \in Who, NEW keep \in BOOLEAN, Finish(n, who, keep)
  PROVE  /\ waiting' \in [Nicks -> Seq(Nat)] /\ timers' = timers \ {n}
         /\ cache' \in [Nicks -> Who \cup {"absent"}] /\ Gives(waiting[n], who)
         /\ \A m \in Nicks : cache'[m] = cache[m] \/ (keep /\ m = n /\ cache'[m] = who)
         /\ \A m \in Nicks : waiting'[m] = IF m = n THEN <<>> ELSE waiting[m]
BY OneLine DEF Finish, Typed

LEMMA RequestsShape == ASSUME NEW n \in Nicks PROVE Requests(n) \in Seq(UpLine)
BY OneUpLine, Zenon DEF Requests

----------------------------------------------------------------------------
(* The commands on the bot's line, as it takes and gets lines.             *)

LEMMA WireMember ==
  \A q, i : i \in Wire(q) <=> \E k \in Sent(q) : q[k].id = i
BY DEF Wire

LEMMA WireTaken ==
  ASSUME NEW q \in Seq(DownLine), q # <<>>, Distinct(q)
  PROVE  /\ Distinct(Tail(q))
         /\ Head(q).cmd # "PRIVMSG" => Wire(Tail(q)) = Wire(q)
         /\ Head(q).cmd = "PRIVMSG" => Head(q).id \in Wire(q) /\ Wire(Tail(q)) = Wire(q) \ {Head(q).id}
<1>. DEFINE r == Tail(q)
<1>1. /\ Head(q) = q[1] /\ 1 \in DOMAIN q
      /\ \A k \in DOMAIN r : k \in Nat /\ k + 1 \in DOMAIN q /\ r[k] = q[k + 1]
      /\ \A k \in DOMAIN q : k = 1 \/ (k - 1 \in DOMAIN r /\ r[k - 1] = q[k])
      /\ \A k \in DOMAIN q : k \in Nat
  BY Tailed
<1>. HIDE DEF r
<1>2. Distinct(r)
  <2>. SUFFICES ASSUME NEW j \in Sent(r), NEW k \in Sent(r), r[j].id = r[k].id PROVE j = k
    BY DEF Distinct
  <2>1. j + 1 \in Sent(q) /\ k + 1 \in Sent(q) /\ j \in Nat /\ k \in Nat
    BY <1>1 DEF Sent
  <2>2. q[j + 1].id = q[k + 1].id
    BY <1>1 DEF Sent
  <2>3. j + 1 = k + 1
    BY <2>1, <2>2 DEF Distinct
  <2>. QED  BY <2>1, <2>3
<1>3. \A i : i \in Wire(r) => i \in Wire(q)
  <2>. SUFFICES ASSUME NEW i, NEW k \in Sent(r), r[k].id = i PROVE i \in Wire(q)
    BY WireMember
  <2>1. k + 1 \in Sent(q) /\ q[k + 1].id = i
    BY <1>1 DEF Sent
  <2>. QED  BY <2>1, WireMember
<1>4. \A i : i \in Wire(q) => i \in Wire(r) \/ (Head(q).cmd = "PRIVMSG" /\ i = Head(q).id)
  <2>. SUFFICES ASSUME NEW i, NEW k \in Sent(q), q[k].id = i
                PROVE  i \in Wire(r) \/ (Head(q).cmd = "PRIVMSG" /\ i = Head(q).id)
    BY WireMember
  <2>1. CASE k = 1
    BY <1>1, <2>1 DEF Sent
  <2>2. CASE k # 1
    <3>1. k - 1 \in Sent(r) /\ r[k - 1].id = i
      BY <1>1, <2>2 DEF Sent
    <3>. QED  BY <3>1, WireMember
  <2>. QED  BY <2>1, <2>2
<1>5. Head(q).cmd = "PRIVMSG" => Head(q).id \in Wire(q) /\ Head(q).id \notin Wire(r)
  <2>. SUFFICES ASSUME Head(q).cmd = "PRIVMSG" PROVE Head(q).id \in Wire(q) /\ Head(q).id \notin Wire(r)
    OBVIOUS
  <2>1. 1 \in Sent(q)
    BY <1>1 DEF Sent
  <2>2. ASSUME Head(q).id \in Wire(r) PROVE FALSE
    <3>1. PICK k \in Sent(r) : r[k].id = Head(q).id
      BY <2>2, WireMember
    <3>2. k + 1 \in Sent(q) /\ q[k + 1].id = q[1].id /\ k \in Nat /\ k # 0
      <4>1. k \in DOMAIN r /\ DOMAIN r = 1..Len(r)
        BY DEF Sent, r
      <4>. QED  BY <1>1, <3>1, <4>1 DEF Sent
    <3>3. k + 1 = 1
      BY <2>1, <3>2 DEF Distinct
    <3>. QED  BY <3>2, <3>3
  <2>. QED  BY <1>1, <2>1, <2>2, WireMember
<1>. QED  BY <1>2, <1>3, <1>4, <1>5 DEF r

LEMMA WireGot ==
  ASSUME NEW q \in Seq(DownLine), NEW r \in Seq(DownLine), Distinct(q), Distinct(r),
         Wire(q) \cap Wire(r) = {}
  PROVE  Distinct(q \o r) /\ Wire(q \o r) = Wire(q) \cup Wire(r)
<1>. DEFINE s == q \o r
            n == Len(q)
<1>1. /\ n \in Nat
      /\ \A k \in DOMAIN q : k \in DOMAIN s /\ s[k] = q[k] /\ k \in Nat
      /\ \A k \in DOMAIN r : k \in Nat /\ n + k \in DOMAIN s /\ s[n + k] = r[k]
      /\ \A k \in DOMAIN s : k \in DOMAIN q \/ \E j \in DOMAIN r : k = n + j /\ s[k] = r[j]
  BY Joined
<1>. HIDE DEF s, n
<1>2. \A k \in Sent(s) : k \in Sent(q) \/ \E j \in Sent(r) : k = n + j /\ s[k] = r[j]
  BY <1>1 DEF Sent
<1>3. (\A k \in Sent(q) : k \in Sent(s)) /\ (\A k \in Sent(r) : n + k \in Sent(s))
  BY <1>1 DEF Sent
<1>4. \A k \in Sent(q) : s[k] = q[k]
  BY <1>1 DEF Sent
<1>5. Distinct(s)
  <2>. SUFFICES ASSUME NEW j \in Sent(s), NEW k \in Sent(s), s[j].id = s[k].id PROVE j = k
    BY DEF Distinct
  <2>1. CASE j \in Sent(q) /\ k \in Sent(q)
    BY <1>4, <2>1 DEF Distinct
  <2>2. CASE j \in Sent(q) /\ k \notin Sent(q)
    <3>1. PICK l \in Sent(r) : k = n + l /\ s[k] = r[l]
      BY <1>2, <2>2
    <3>2. q[j].id \in Wire(q) /\ r[l].id \in Wire(r) /\ q[j].id = r[l].id
      BY <1>4, <2>2, <3>1, WireMember
    <3>. QED  BY <3>2
  <2>3. CASE j \notin Sent(q) /\ k \in Sent(q)
    <3>1. PICK l \in Sent(r) : j = n + l /\ s[j] = r[l]
      BY <1>2, <2>3
    <3>2. q[k].id \in Wire(q) /\ r[l].id \in Wire(r) /\ q[k].id = r[l].id
      BY <1>4, <2>3, <3>1, WireMember
    <3>. QED  BY <3>2
  <2>4. CASE j \notin Sent(q) /\ k \notin Sent(q)
    <3>1. PICK l \in Sent(r) : j = n + l /\ s[j] = r[l]
      BY <1>2, <2>4
    <3>2. PICK m \in Sent(r) : k = n + m /\ s[k] = r[m]
      BY <1>2, <2>4
    <3>3. l = m
      BY <3>1, <3>2 DEF Distinct
    <3>. QED  BY <3>1, <3>2, <3>3
  <2>. QED  BY <2>1, <2>2, <2>3, <2>4
<1>6. \A i : i \in Wire(s) => i \in Wire(q) \cup Wire(r)
  BY <1>2, <1>4, WireMember
<1>7. \A i : i \in Wire(q) \cup Wire(r) => i \in Wire(s)
  <2>. SUFFICES ASSUME NEW i, i \in Wire(q) \cup Wire(r) PROVE i \in Wire(s)
    OBVIOUS
  <2>1. CASE i \in Wire(q)
    BY <1>3, <1>4, <2>1, WireMember
  <2>2. CASE i \in Wire(r)
    <3>1. PICK k \in Sent(r) : r[k].id = i
      BY <2>2, WireMember
    <3>2. n + k \in Sent(s) /\ s[n + k] = r[k]
      BY <1>1, <1>3 DEF Sent
    <3>. QED  BY <3>1, <3>2, WireMember
  <2>. QED  BY <2>1, <2>2
<1>. QED  BY <1>5, <1>6, <1>7 DEF s

\* Lines get onto the bot's, which has none of the commands in them.
LEMMA WireGrows ==
  ASSUME Typed, Kept, NEW r \in Seq(DownLine), Distinct(r), \A i \in Wire(r) : i \notin Wire(down[Bot]),
         down' = [down EXCEPT ![Bot] = @ \o r]
  PROVE  /\ Distinct(down'[Bot]) /\ Wire(down'[Bot]) = Wire(down[Bot]) \cup Wire(r)
         /\ down'[Bot] = down[Bot] \o r /\ down' \in [Clients -> Seq(DownLine)]
<1>. DEFINE q == down[Bot]
<1>1. q \in Seq(DownLine) /\ Distinct(q) /\ down'[Bot] = q \o r
  BY TypedConf DEF Typed, Kept
<1>2. \A i \in Wire(r) : i \notin Wire(q)
  OBVIOUS
<1>3. Wire(q) \cap Wire(r) = {}
  BY <1>2
<1>. HIDE DEF q
<1>4. Distinct(q \o r) /\ Wire(q \o r) = Wire(q) \cup Wire(r) /\ q \o r \in Seq(DownLine)
  BY <1>1, <1>3, WireGot, Joined
<1>5. down' \in [Clients -> Seq(DownLine)]
  BY <1>4 DEF Typed, q
<1>. QED  BY <1>1, <1>4, <1>5 DEF q

LEMMA NoWire ==
  ASSUME NEW r, \A k \in DOMAIN r : r[k].cmd # "PRIVMSG"
  PROVE  Distinct(r) /\ Wire(r) = {}
<1>1. Sent(r) = {}
  BY DEF Sent
<1>. QED  BY <1>1 DEF Distinct, Wire

----------------------------------------------------------------------------
(* The commands that wait for a lookup.                                    *)

LEMMA InLookupMember ==
  \A i : i \in InLookup <=> \E n \in Nicks : \E k \in DOMAIN waiting[n] : waiting[n][k] = i
BY DEF InLookup

LEMMA ContainsMember ==
  ASSUME Typed, NEW n \in Nicks
  PROVE  \A i : Contains(waiting[n], i) <=> \E k \in DOMAIN waiting[n] : waiting[n][k] = i
<1>1. waiting[n] \in Seq(Nat)
  BY DEF Typed
<1>. QED  BY <1>1 DEF Contains

LEMMA WaitersEnter ==
  ASSUME Typed, Apart, NEW n \in Nicks, NEW i \in Nat, i \notin InLookup, Enters(n, i)
  PROVE  /\ Apart' /\ InLookup' = InLookup \cup {i}
         /\ waiting'[n] # <<>> /\ \A m \in Nicks \ {n} : waiting'[m] = waiting[m]
         /\ \A k \in DOMAIN waiting'[n] : waiting'[n][k] = i \/ (k \in DOMAIN waiting[n] /\ waiting'[n][k] = waiting[n][k])
<1>. DEFINE w == waiting[n]
            c == Append(waiting[n], i)
<1>1. w \in Seq(Nat) /\ \A m \in Nicks : waiting'[m] = IF m = n THEN c ELSE waiting[m]
  BY EntersTyped DEF Typed
<1>2. /\ Len(w) \in Nat /\ DOMAIN w = 1..Len(w) /\ DOMAIN c = 1..(Len(w) + 1) /\ c # <<>>
      /\ \A k \in 1..Len(w) : c[k] = w[k] /\ c[Len(w) + 1] = i
      /\ c[Len(w) + 1] = i
  BY <1>1
<1>3. \A k \in DOMAIN c : (k \in DOMAIN w /\ c[k] = w[k]) \/ (k = Len(w) + 1 /\ c[k] = i)
  BY <1>2
<1>4. \A k \in DOMAIN w : k \in DOMAIN c /\ c[k] = w[k]
  BY <1>2
<1>5. Len(w) + 1 \in DOMAIN c
  BY <1>2
<1>6. w = waiting[n] /\ waiting'[n] = c
  BY <1>1
<1>. HIDE DEF w, c
<1>7. \A j : j \in InLookup' => j \in InLookup \cup {i}
  <2>. SUFFICES ASSUME NEW j, j \in InLookup' PROVE j \in InLookup \cup {i}
    OBVIOUS
  <2>1. PICK m \in Nicks : \E k \in DOMAIN waiting'[m] : waiting'[m][k] = j
    BY InLookupMember DEF InLookup
  <2>2. PICK k \in DOMAIN waiting'[m] : waiting'[m][k] = j
    BY <2>1
  <2>3. j = i \/ (k \in DOMAIN waiting[m] /\ waiting[m][k] = j)
    BY <1>1, <1>3, <1>6, <2>2
  <2>. QED  BY <2>3, InLookupMember
<1>8. \A j : j \in InLookup \cup {i} => j \in InLookup'
  <2>. SUFFICES ASSUME NEW j, j \in InLookup \cup {i} PROVE j \in InLookup'
    OBVIOUS
  <2>1. CASE j = i
    BY <1>2, <1>5, <1>6, <2>1 DEF InLookup
  <2>2. CASE j \in InLookup
    <3>1. PICK m \in Nicks : \E k \in DOMAIN waiting[m] : waiting[m][k] = j
      BY <2>2, InLookupMember
    <3>2. PICK k \in DOMAIN waiting[m] : waiting[m][k] = j
      BY <3>1
    <3>3. k \in DOMAIN waiting'[m] /\ waiting'[m][k] = j
      BY <1>1, <1>4, <1>6, <3>2
    <3>. QED  BY <3>3 DEF InLookup
  <2>. QED  BY <2>1, <2>2
<1>9. Apart'
  <2>. SUFFICES ASSUME NEW l \in Nicks, NEW m \in Nicks, NEW j \in DOMAIN waiting'[l], NEW k \in DOMAIN waiting'[m],
                       waiting'[l][j] = waiting'[m][k]
                PROVE  l = m /\ j = k
    BY DEF Apart
  <2>1. \/ j \in DOMAIN waiting[l] /\ waiting'[l][j] = waiting[l][j]
        \/ l = n /\ j = Len(w) + 1 /\ waiting'[l][j] = i
    BY <1>1, <1>3, <1>6
  <2>2. \/ k \in DOMAIN waiting[m] /\ waiting'[m][k] = waiting[m][k]
        \/ m = n /\ k = Len(w) + 1 /\ waiting'[m][k] = i
    BY <1>1, <1>3, <1>6
  <2>. QED  BY <2>1, <2>2, InLookupMember DEF Apart
<1>. QED  BY <1>1, <1>2, <1>3, <1>6, <1>7, <1>8, <1>9

LEMMA WaitersLeave ==
  ASSUME Typed, Apart, NEW n \in Nicks,
         \A m \in Nicks : waiting'[m] = IF m = n THEN <<>> ELSE waiting[m]
  PROVE  /\ Apart' /\ InLookup' \subseteq InLookup
         /\ \A i \in InLookup : i \in InLookup' <=> ~Contains(waiting[n], i)
         /\ \A i : Contains(waiting[n], i) => i \in InLookup
<1>1. \A m \in Nicks : \A k \in DOMAIN waiting'[m] : m # n /\ k \in DOMAIN waiting[m] /\ waiting'[m][k] = waiting[m][k]
  OBVIOUS
<1>2. \A m \in Nicks \ {n} : waiting'[m] = waiting[m]
  OBVIOUS
<1>3. Apart'
  BY <1>1 DEF Apart
<1>4. InLookup' \subseteq InLookup
  BY <1>1 DEF InLookup
<1>5. ASSUME NEW i \in InLookup PROVE i \in InLookup' <=> ~Contains(waiting[n], i)
  <2>1. PICK m \in Nicks : \E k \in DOMAIN waiting[m] : waiting[m][k] = i
    BY <1>5, InLookupMember
  <2>2. PICK k \in DOMAIN waiting[m] : waiting[m][k] = i
    BY <2>1
  <2>3. CASE m = n
    <3>1. Contains(waiting[n], i)
      BY <2>2, <2>3, ContainsMember
    <3>2. ASSUME i \in InLookup' PROVE FALSE
      <4>1. PICK l \in Nicks : \E j \in DOMAIN waiting'[l] : waiting'[l][j] = i
        BY <3>2 DEF InLookup
      <4>2. PICK j \in DOMAIN waiting'[l] : waiting'[l][j] = i
        BY <4>1
      <4>. QED  BY <1>1, <2>2, <2>3, <4>2 DEF Apart
    <3>. QED  BY <3>1, <3>2
  <2>4. CASE m # n
    <3>1. i \in InLookup'
      BY <1>2, <2>2, <2>4 DEF InLookup
    <3>2. ASSUME Contains(waiting[n], i) PROVE FALSE
      <4>1. PICK j \in DOMAIN waiting[n] : waiting[n][j] = i
        BY <3>2, ContainsMember
      <4>. QED  BY <2>2, <2>4, <4>1 DEF Apart
    <3>. QED  BY <3>1, <3>2
  <2>. QED  BY <2>3, <2>4
<1>. QED  BY <1>3, <1>4, <1>5, ContainsMember, InLookupMember

----------------------------------------------------------------------------
(* A command is in one place.                                              *)

\* A step that moves, decides or adds no command: every place it is looked for in
\* is what it was.
LEMMA KeptAsIs ==
  ASSUME Kept, Distinct(down'[Bot]), Wire(down'[Bot]) = Wire(down[Bot]), asking' = asking,
         waiting' = waiting, timers' = timers, decided' = decided, cmds' = cmds,
         b'.phase # "lost" => b.phase # "lost"
  PROVE  Kept'
<1>1. Apart' /\ InLookup' = InLookup /\ Pending' = Pending
  BY DEF Kept, Apart, InLookup, Pending
<1>2. Held' = Held
  BY <1>1 DEF Held
<1>. QED  BY <1>1, <1>2 DEF Kept

\* A decision, of a command that is taken from where it was.
LEMMA KeptDecided ==
  ASSUME Typed, Kept, NEW ids, NEW who \in Who, Gives(ids, who),
         Distinct(down'[Bot]), Apart', cmds' = cmds, b' = b,
         \A i : Contains(ids, i) => i \in Held,
         Wire(down'[Bot]) \subseteq Wire(down[Bot]), asking' \subseteq asking, InLookup' \subseteq InLookup,
         \A i \in Held : i \in Held' <=> ~Contains(ids, i),
         \A n \in Nicks : waiting'[n] # <<>> <=> n \in timers'
  PROVE  Kept'
<1>1. /\ DOMAIN decided' = DOMAIN decided /\ DOMAIN decided = DOMAIN cmds
      /\ \A i \in DOMAIN decided : decided[i] \in Seq(Who) /\ i \in Nat
      /\ \A i \in DOMAIN decided :
           decided'[i] = IF Contains(ids, i) THEN Append(decided[i], who) ELSE decided[i]
  BY GivesShape
<1>2. \A i \in DOMAIN decided : Contains(ids, i) => decided[i] = <<>>
  BY DEF Kept, Pending
<1>3. \A i \in DOMAIN decided : Contains(ids, i) => decided'[i] = <<who>>
  BY <1>1, <1>2
<1>4. \A i \in DOMAIN decided' : Len(decided'[i]) <= 1
  <2>. TAKE i \in DOMAIN decided'
  <2>1. CASE Contains(ids, i)
    BY <1>1, <1>3, <2>1
  <2>2. CASE ~Contains(ids, i)
    BY <1>1, <2>2 DEF Kept
  <2>. QED  BY <2>1, <2>2
<1>5. \A i : i \in Pending' <=> i \in Pending /\ ~Contains(ids, i)
  BY <1>1, <1>3 DEF Pending
<1>6. Held' \subseteq Held
  BY DEF Held
<1>7. Held' \subseteq Pending' /\ (b'.phase # "lost" => Pending' \subseteq Held')
  BY <1>5, <1>6 DEF Kept
<1>8. /\ Wire(down'[Bot]) \cap asking' = {} /\ Wire(down'[Bot]) \cap InLookup' = {} /\ asking' \cap InLookup' = {}
  BY DEF Kept
<1>. QED  BY <1>4, <1>7, <1>8 DEF Kept

\* A command goes from the wire or from its handler to those that wait.
LEMMA KeptMoved ==
  ASSUME Typed, Kept, NEW i \in Held, Distinct(down'[Bot]), Apart', b' = b,
         cmds' = cmds, decided' = decided,
         \/ /\ i \in Wire(down[Bot]) /\ Wire(down'[Bot]) = Wire(down[Bot]) \ {i}
            /\ \/ asking' = asking /\ InLookup' = InLookup \cup {i}
               \/ asking' = asking \cup {i} /\ InLookup' = InLookup
         \/ /\ i \in asking /\ Wire(down'[Bot]) = Wire(down[Bot]) /\ asking' = asking \ {i}
            /\ InLookup' = InLookup \cup {i},
         \A n \in Nicks : waiting'[n] # <<>> <=> n \in timers'
  PROVE  Kept'
<1>1. Pending' = Pending
  BY DEF Pending
<1>2. Held' = Held
  BY DEF Held
<1>3. Wire(down'[Bot]) \cap asking' = {} /\ Wire(down'[Bot]) \cap InLookup' = {} /\ asking' \cap InLookup' = {}
  BY DEF Kept
<1>. QED  BY <1>1, <1>2, <1>3 DEF Kept

LEMMA EntersTimers ==
  ASSUME Typed, NEW n \in Nicks, NEW i \in Nat, Enters(n, i),
         \A m \in Nicks : waiting[m] # <<>> <=> m \in timers
  PROVE  \A m \in Nicks : waiting'[m] # <<>> <=> m \in timers'
<1>1. \A m \in Nicks : waiting'[m] = IF m = n THEN Append(waiting[n], i) ELSE waiting[m]
  BY EntersTyped
<1>2. Append(waiting[n], i) # <<>>
  <2>1. waiting[n] \in Seq(Nat)
    BY DEF Typed
  <2>. QED  BY <2>1, AppendProperties
<1>. QED  BY <1>1, <1>2 DEF Enters

\* What becomes of a command the bot takes from its line.
LEMMA PrivmsgShape ==
  ASSUME Typed, \A m \in Nicks : waiting[m] # <<>> <=> m \in timers, irc_PRIVMSG
  PROVE  /\ Heard \in Privmsg /\ Heard = Head(down[Bot]) /\ down[Bot] \in Seq(DownLine) /\ down[Bot] # <<>>
         /\ down' = [down EXCEPT ![Bot] = Tail(@)] /\ up' \in [Clients -> Seq(UpLine)]
         /\ UNCHANGED <<conf, b, srv, serviceVars, nickOf, cmds, moved, events>>
         /\ \/ /\ \E who \in Who : (who = cache[Heard.nick] \/ who = Heard.account) /\ Gives(<<Heard.id>>, who)
               /\ UNCHANGED <<cache, waiting, timers, asking>>
            \/ Enters(Heard.nick, Heard.id) /\ asking' = asking
            \/ asking' = asking \cup {Heard.id} /\ UNCHANGED lookupVars
<1>1. Hears("PRIVMSG") /\ BotOnly /\ UNCHANGED <<nickOf, cmds, moved, events>>
  BY DEF irc_PRIVMSG
<1>2. /\ Heard \in Privmsg /\ Heard = Head(down[Bot]) /\ down[Bot] \in Seq(DownLine) /\ down[Bot] # <<>>
      /\ Heard.nick \in Nicks /\ Heard.id \in Nat /\ Heard.account \in Who
  <2>1. Heard \in Privmsg
    BY <1>1, HeardShape, DownFacts
  <2>. QED  BY <1>1, <2>1, HeardShape DEF Privmsg
<1>3. \A ls \in Seq(UpLine) : Says(ls) => down' = [down EXCEPT ![Bot] = Tail(@)] /\ up' \in [Clients -> Seq(UpLine)]
  BY SaysTyped DEF Says
<1>4. CASE AccountFor(Heard) = "none" /\ NeedsLegacyAccount(Heard)
  <2>1. Resolve(Heard.nick, Heard.id) /\ Says(Requests(Heard.nick)) /\ asking' = asking
    BY <1>4 DEF irc_PRIVMSG
  <2>2. Requests(Heard.nick) \in Seq(UpLine)
    BY <1>2, RequestsShape
  <2>3. \/ /\ cache[Heard.nick] \in Who /\ Gives(<<Heard.id>>, cache[Heard.nick]) /\ UNCHANGED <<cache, waiting, timers>>
        \/ Enters(Heard.nick, Heard.id)
    BY <1>2, <2>1, ResolveShape
  <2>. QED  BY <1>1, <1>2, <1>3, <2>1, <2>2, <2>3 DEF BotOnly
<1>5. CASE ~(AccountFor(Heard) = "none" /\ NeedsLegacyAccount(Heard))
  <2>1. /\ Says(<<>>) /\ UNCHANGED <<cache, waiting, timers>>
        /\ \/ Gives(<<Heard.id>>, Heard.account) /\ asking' = asking
           \/ asking' = asking \cup {Heard.id} /\ decided' = decided
    BY <1>5 DEF irc_PRIVMSG, AccountFor
  <2>2. <<>> \in Seq(UpLine)
    BY OneUpLine, Zenon
  <2>. QED  BY <1>1, <1>2, <1>3, <2>1, <2>2 DEF BotOnly, lookupVars
<1>. QED  BY <1>4, <1>5

LEMMA CommandFacts ==
  ASSUME Typed
  PROVE  \A i \in DOMAIN cmds : /\ cmds[i] \in Command /\ cmds[i].nick \in Nicks /\ cmds[i].is \in Who
                                /\ i \in Nat /\ i \in DOMAIN decided /\ decided[i] \in Seq(Who)
<1>1. \A i \in DOMAIN cmds : cmds[i] \in Command /\ i \in Nat /\ i \in DOMAIN decided /\ decided[i] \in Seq(Who)
  BY DEF Typed
<1>. QED  BY <1>1 DEF Command

\* What becomes of a command whose handler asks for its sender.
LEMMA IsAdminShape ==
  ASSUME Typed, \A m \in Nicks : waiting[m] # <<>> <=> m \in timers, asking \subseteq DOMAIN cmds,
         NEW i, i \in asking, IsAdmin(i)
  PROVE  /\ asking' = asking \ {i} /\ down' = down /\ up' \in [Clients -> Seq(UpLine)]
         /\ UNCHANGED <<conf, b, srv, serviceVars, nickOf, cmds, moved, events>>
         /\ \/ /\ \E who \in Who : /\ who = "none" \/ (b.phase = "on" /\ who = cache[cmds[i].nick])
                                   /\ Gives(<<i>>, who)
               /\ UNCHANGED <<cache, waiting, timers>>
            \/ Enters(cmds[i].nick, i)
<1>1. /\ asking' = asking \ {i} /\ BotOnly /\ UNCHANGED <<down, nickOf, cmds, moved, events>>
      /\ i \in DOMAIN cmds /\ cmds[i].nick \in Nicks
  BY CommandFacts DEF IsAdmin
<1>2. CASE b.phase = "on"
  <2>1. Resolve(cmds[i].nick, i) /\ Sends(Requests(cmds[i].nick))
    BY <1>2 DEF IsAdmin
  <2>2. up' \in [Clients -> Seq(UpLine)]
    BY <1>1, <2>1, RequestsShape, SaysTyped
  <2>3. \/ /\ cache[cmds[i].nick] \in Who /\ Gives(<<i>>, cache[cmds[i].nick]) /\ UNCHANGED <<cache, waiting, timers>>
        \/ Enters(cmds[i].nick, i)
    BY <1>1, <2>1, ResolveShape
  <2>. QED  BY <1>1, <1>2, <2>2, <2>3 DEF BotOnly
<1>3. CASE b.phase # "on"
  <2>1. Gives(<<i>>, "none") /\ UNCHANGED <<up, cache, waiting, timers>> /\ "none" \in Who
    BY <1>3 DEF IsAdmin, Who
  <2>2. up' \in [Clients -> Seq(UpLine)]
    BY <2>1 DEF Typed
  <2>. QED  BY <1>1, <2>1, <2>2 DEF BotOnly
<1>. QED  BY <1>2, <1>3

LEMMA OnlyOne == \A i, j : Contains(<<i>>, j) <=> j = i
<1>. TAKE i, j
<1>1. Len(<<i>>) = 1 /\ <<i>>[1] = i
  OBVIOUS
<1>. QED  BY <1>1 DEF Contains

LEMMA HeldCommands ==
  ASSUME Typed, Kept
  PROVE  \A i \in Held : i \in Pending /\ i \in DOMAIN cmds /\ i \in Nat /\ decided[i] = <<>>
BY CommandFacts DEF Kept, Pending

LEMMA PrivmsgKept == ASSUME Typed, Kept, irc_PRIVMSG PROVE Typed' /\ Kept'
<1>. DEFINE q == down[Bot]
            m == Heard
            i == Heard.id
<1>1. /\ m \in Privmsg /\ m = Head(q) /\ q \in Seq(DownLine) /\ q # <<>>
      /\ down' = [down EXCEPT ![Bot] = Tail(@)] /\ up' \in [Clients -> Seq(UpLine)]
      /\ UNCHANGED <<conf, b, srv, serviceVars, nickOf, cmds, moved, events>>
      /\ \/ /\ \E who \in Who : (who = cache[m.nick] \/ who = m.account) /\ Gives(<<i>>, who)
            /\ UNCHANGED <<cache, waiting, timers, asking>>
         \/ Enters(m.nick, i) /\ asking' = asking
         \/ asking' = asking \cup {i} /\ UNCHANGED lookupVars
  BY PrivmsgShape DEF Kept
<1>2. m.cmd = "PRIVMSG" /\ m.nick \in Nicks /\ i \in Nat
  BY <1>1 DEF Privmsg
<1>3. down'[Bot] = Tail(q) /\ down' \in [Clients -> Seq(DownLine)]
  BY <1>1, TypedConf, Tailed DEF Typed
<1>4. Distinct(down'[Bot]) /\ i \in Wire(q) /\ Wire(down'[Bot]) = Wire(q) \ {i}
  BY <1>1, <1>2, <1>3, WireTaken DEF Kept
<1>5. i \in Held /\ i \notin asking /\ i \notin InLookup
  BY <1>4 DEF Held, Kept
<1>. HIDE DEF q, m, i
<1>6. CASE (\E who \in Who : Gives(<<i>>, who)) /\ UNCHANGED <<cache, waiting, timers, asking>>
  <2>1. PICK who \in Who : Gives(<<i>>, who)
    BY <1>6
  <2>2. decided' \in Seq(Seq(Who)) /\ Len(decided') = Len(cmds)
    BY <2>1, GivesShape
  <2>3. Typed'
    BY <1>1, <1>3, <1>6, <2>2 DEF Typed, serviceVars
  <2>4. Apart' /\ InLookup' = InLookup
    BY <1>6 DEF Apart, InLookup, Kept
  <2>5. \A n \in Nicks : waiting'[n] # <<>> <=> n \in timers'
    BY <1>6 DEF Kept
  <2>6. \A j \in Held : j \in Held' <=> ~Contains(<<i>>, j)
    BY <1>4, <1>5, <1>6, <2>4, OnlyOne DEF Held, q
  <2>7. \A j : Contains(<<i>>, j) => j \in Held
    BY <1>5, OnlyOne
  <2>8. cmds' = cmds /\ b' = b /\ asking' \subseteq asking /\ Wire(down'[Bot]) \subseteq Wire(down[Bot])
    BY <1>1, <1>4, <1>6 DEF q
  <2>. QED  BY <1>4, <2>1, <2>3, <2>4, <2>5, <2>6, <2>7, <2>8, KeptDecided
<1>7. CASE Enters(m.nick, i) /\ asking' = asking
  <2>1. /\ waiting' \in [Nicks -> Seq(Nat)] /\ timers' \subseteq Nicks /\ cache' = cache /\ decided' = decided
    BY <1>2, <1>7, EntersTyped
  <2>2. Typed'
    BY <1>1, <1>3, <2>1 DEF Typed, serviceVars
  <2>3. Apart' /\ InLookup' = InLookup \cup {i}
    BY <1>2, <1>5, <1>7, WaitersEnter DEF Kept
  <2>4. \A n \in Nicks : waiting'[n] # <<>> <=> n \in timers'
    BY <1>2, <1>7, EntersTimers DEF Kept
  <2>5. b' = b /\ cmds' = cmds
    BY <1>1
  <2>. QED  BY <1>4, <1>5, <1>7, <2>1, <2>2, <2>3, <2>4, <2>5, KeptMoved DEF q
<1>8. CASE asking' = asking \cup {i} /\ UNCHANGED lookupVars
  <2>1. Typed'
    BY <1>1, <1>3, <1>8 DEF Typed, serviceVars, lookupVars
  <2>2. Apart' /\ InLookup' = InLookup
    BY <1>8 DEF Apart, InLookup, Kept, lookupVars
  <2>3. \A n \in Nicks : waiting'[n] # <<>> <=> n \in timers'
    BY <1>8 DEF Kept, lookupVars
  <2>4. b' = b /\ cmds' = cmds /\ decided' = decided
    BY <1>1, <1>8 DEF lookupVars
  <2>. QED  BY <1>4, <1>5, <1>8, <2>1, <2>2, <2>3, <2>4, KeptMoved DEF q
<1>. QED  BY <1>1, <1>6, <1>7, <1>8

LEMMA IsAdminKept == ASSUME Typed, Kept, NEW i \in asking, IsAdmin(i) PROVE Typed' /\ Kept'
<1>1. i \in Held /\ asking \subseteq DOMAIN cmds /\ i \in DOMAIN cmds /\ i \in Nat /\ cmds[i].nick \in Nicks
  BY HeldCommands, CommandFacts DEF Held
<1>2. /\ asking' = asking \ {i} /\ down' = down /\ up' \in [Clients -> Seq(UpLine)]
      /\ UNCHANGED <<conf, b, srv, serviceVars, nickOf, cmds, moved, events>>
      /\ \/ (\E who \in Who : Gives(<<i>>, who)) /\ UNCHANGED <<cache, waiting, timers>>
         \/ Enters(cmds[i].nick, i)
  BY <1>1, IsAdminShape DEF Kept
<1>3. i \notin Wire(down[Bot]) /\ i \notin InLookup /\ Distinct(down'[Bot]) /\ Wire(down'[Bot]) = Wire(down[Bot])
  BY <1>2 DEF Kept
<1>4. CASE (\E who \in Who : Gives(<<i>>, who)) /\ UNCHANGED <<cache, waiting, timers>>
  <2>1. PICK who \in Who : Gives(<<i>>, who)
    BY <1>4
  <2>2. decided' \in Seq(Seq(Who)) /\ Len(decided') = Len(cmds)
    BY <2>1, GivesShape
  <2>3. Typed'
    BY <1>2, <1>4, <2>2 DEF Typed, serviceVars
  <2>4. Apart' /\ InLookup' = InLookup
    BY <1>4 DEF Apart, InLookup, Kept
  <2>5. \A n \in Nicks : waiting'[n] # <<>> <=> n \in timers'
    BY <1>4 DEF Kept
  <2>6. \A j \in Held : j \in Held' <=> ~Contains(<<i>>, j)
    BY <1>2, <1>3, <2>4, OnlyOne DEF Held
  <2>7. \A j : Contains(<<i>>, j) => j \in Held
    BY <1>1, OnlyOne
  <2>8. cmds' = cmds /\ b' = b /\ asking' \subseteq asking
    BY <1>2
  <2>. QED  BY <1>3, <2>1, <2>3, <2>4, <2>5, <2>6, <2>7, <2>8, KeptDecided
<1>5. CASE Enters(cmds[i].nick, i)
  <2>1. /\ waiting' \in [Nicks -> Seq(Nat)] /\ timers' \subseteq Nicks /\ cache' = cache /\ decided' = decided
    BY <1>1, <1>5, EntersTyped
  <2>2. Typed'
    BY <1>2, <2>1 DEF Typed, serviceVars
  <2>3. Apart' /\ InLookup' = InLookup \cup {i}
    BY <1>1, <1>3, <1>5, WaitersEnter DEF Kept
  <2>4. \A n \in Nicks : waiting'[n] # <<>> <=> n \in timers'
    BY <1>1, <1>5, EntersTimers DEF Kept
  <2>5. b' = b /\ cmds' = cmds
    BY <1>2
  <2>. QED  BY <1>1, <1>2, <1>3, <2>1, <2>2, <2>3, <2>4, <2>5, KeptMoved
<1>. QED  BY <1>2, <1>4, <1>5

\* A lookup ends: those that wait for it are decided.
LEMMA FinishKept ==
  ASSUME Typed, Kept, NEW n \in Nicks, NEW who \in Who, NEW keep \in BOOLEAN, Finish(n, who, keep),
         Distinct(down'[Bot]), Wire(down'[Bot]) = Wire(down[Bot]), asking' = asking, cmds' = cmds, b' = b
  PROVE  Kept'
<1>1. /\ timers' = timers \ {n} /\ Gives(waiting[n], who)
      /\ \A m \in Nicks : waiting'[m] = IF m = n THEN <<>> ELSE waiting[m]
  BY FinishShape
<1>2. /\ Apart' /\ InLookup' \subseteq InLookup
      /\ \A i \in InLookup : i \in InLookup' <=> ~Contains(waiting[n], i)
      /\ \A i : Contains(waiting[n], i) => i \in InLookup
  BY <1>1, WaitersLeave DEF Kept
<1>3. \A m \in Nicks : waiting'[m] # <<>> <=> m \in timers'
  BY <1>1 DEF Kept
<1>4. \A i \in Held : i \in Held' <=> ~Contains(waiting[n], i)
  BY <1>2 DEF Held, Kept
<1>5. \A i : Contains(waiting[n], i) => i \in Held
  BY <1>2 DEF Held
<1>. QED  BY <1>1, <1>2, <1>3, <1>4, <1>5, KeptDecided

LEMMA KeptNext == ASSUME Typed, Kept, RegNext PROVE Typed' /\ Kept'
<1>. DEFINE q == down[Bot]
<1>1. /\ Bot \in Clients /\ q \in Seq(DownLine) /\ Distinct(q)
      /\ \A s : [down EXCEPT ![Bot] = s][Bot] = s
  BY TypedConf DEF Typed, Kept
<1>2. CASE Register \/ Negotiates
  <2>1. Negotiated
    BY <1>2, NegotiationShape
  <2>2. Distinct(down'[Bot]) /\ Wire(down'[Bot]) = Wire(down[Bot])
    <3>1. CASE down' = down
      BY <1>1, <3>1
    <3>2. CASE q # <<>> /\ Head(q).cmd # "PRIVMSG" /\ down' = [down EXCEPT ![Bot] = Tail(@)]
      BY <1>1, <3>2, WireTaken
    <3>. QED  BY <2>1, <3>1, <3>2 DEF Negotiated
  <2>3. /\ asking' = asking /\ waiting' = waiting /\ timers' = timers /\ decided' = decided /\ cmds' = cmds
        /\ b.phase # "lost"
    BY <2>1 DEF Negotiated, lookupVars, userVars
  <2>. QED  BY <2>1, <2>2, <2>3, NegotiatedTyped, KeptAsIs
<1>3. CASE Server
  <2>1. Served
    BY <1>3, ServerShape
  <2>2. PICK ls \in Seq(ServerLine) : down' = [down EXCEPT ![Bot] = @ \o ls]
    BY <2>1 DEF Served
  <2>3. ls \in Seq(DownLine) /\ \A k \in DOMAIN ls : ls[k].cmd # "PRIVMSG"
    BY ServerLines, SeqMonotonic
  <2>4. Distinct(ls) /\ Wire(ls) = {}
    BY <2>3, NoWire
  <2>5. Distinct(down'[Bot]) /\ Wire(down'[Bot]) = Wire(down[Bot])
    BY <2>2, <2>3, <2>4, WireGrows
  <2>6. /\ asking' = asking /\ waiting' = waiting /\ timers' = timers /\ decided' = decided /\ cmds' = cmds
        /\ b' = b
    BY <2>1 DEF Served, lookupVars, userVars
  <2>. QED  BY <1>1, <2>1, <2>2, <2>5, <2>6, ServedTyped, KeptAsIs
<1>4. CASE irc_NOTICE
  <2>1. Hears("STATUS") /\ BotOnly /\ UNCHANGED userVars /\ Says(<<>>)
    BY <1>4 DEF irc_NOTICE
  <2>2. Heard \in Answer /\ q # <<>> /\ Head(q) = Heard /\ Heard.cmd = "STATUS"
    BY <2>1, HeardShape, DownFacts
  <2>3. Heard.nick \in Nicks /\ Heard.who \in Who
    BY <2>2 DEF Answer
  <2>4. Distinct(down'[Bot]) /\ Wire(down'[Bot]) = Wire(down[Bot])
    <3>1. down' = [down EXCEPT ![Bot] = Tail(@)]
      BY <2>1 DEF Says
    <3>2. Head(q).cmd # "PRIVMSG"
      BY <2>2
    <3>. QED  BY <1>1, <2>2, <3>1, <3>2, WireTaken
  <2>5. up' \in [Clients -> Seq(UpLine)] /\ down' \in [Clients -> Seq(DownLine)]
    BY <2>1, <2>2, OneUpLine, SaysTyped, Zenon DEF Says
  <2>6. CASE b.legacy
    <3>1. Finish(Heard.nick, Heard.who, TRUE)
      BY <1>4, <2>6 DEF irc_NOTICE, HandleLegacyStatusReply
    <3>2. waiting' \in [Nicks -> Seq(Nat)] /\ timers' = timers \ {Heard.nick}
          /\ cache' \in [Nicks -> Who \cup {"absent"}] /\ Gives(waiting[Heard.nick], Heard.who)
      BY <2>3, <3>1, FinishShape
    <3>3. decided' \in Seq(Seq(Who)) /\ Len(decided') = Len(cmds) /\ timers' \subseteq Nicks
      BY <2>3, <3>2, GivesShape DEF Typed
    <3>4. Typed'
      BY <2>1, <2>5, <3>2, <3>3 DEF Typed, BotOnly, serviceVars, userVars
    <3>5. asking' = asking /\ cmds' = cmds /\ b' = b
      BY <2>1 DEF userVars, BotOnly
    <3>. QED  BY <2>3, <2>4, <3>1, <3>4, <3>5, FinishKept
  <2>7. CASE ~b.legacy
    <3>1. UNCHANGED lookupVars
      BY <1>4, <2>7 DEF irc_NOTICE
    <3>2. Typed'
      BY <2>1, <2>5, <3>1 DEF Typed, BotOnly, serviceVars, userVars, lookupVars
    <3>3. asking' = asking /\ cmds' = cmds /\ b' = b /\ waiting' = waiting /\ timers' = timers /\ decided' = decided
      BY <2>1, <3>1 DEF userVars, BotOnly, lookupVars
    <3>. QED  BY <2>4, <3>2, <3>3, KeptAsIs
  <2>. QED  BY <2>6, <2>7
<1>5. CASE irc_NICK_QUIT
  <2>1. Hears("NICK") /\ BotOnly /\ UNCHANGED <<waiting, timers, decided, userVars>> /\ Says(<<>>) /\ Forget
    BY <1>5 DEF irc_NICK_QUIT
  <2>2. q # <<>> /\ Head(q).cmd # "PRIVMSG" /\ down' = [down EXCEPT ![Bot] = Tail(@)]
    BY <2>1, HeardShape DEF Says
  <2>3. Distinct(down'[Bot]) /\ Wire(down'[Bot]) = Wire(down[Bot])
    BY <1>1, <2>2, WireTaken
  <2>4. up' \in [Clients -> Seq(UpLine)] /\ down' \in [Clients -> Seq(DownLine)]
    BY <2>1, <2>2, OneUpLine, SaysTyped, Zenon DEF Says
  <2>5. cache' \in [Nicks -> Who \cup {"absent"}]
    BY <2>1 DEF Forget, Typed
  <2>6. Typed'
    BY <2>1, <2>4, <2>5 DEF Typed, BotOnly, serviceVars, userVars
  <2>7. asking' = asking /\ cmds' = cmds /\ b' = b
    BY <2>1 DEF userVars, BotOnly
  <2>. QED  BY <2>1, <2>3, <2>6, <2>7, KeptAsIs
<1>6. CASE ConnectionLost
  <2>. DEFINE told(i) == IF \E n \in Nicks : Contains(waiting[n], i) THEN Append(decided[i], "none") ELSE decided[i]
  <2>1. /\ b' = [b EXCEPT !.phase = "lost"] /\ up' = [up EXCEPT ![Bot] = <<>>] /\ down' = [down EXCEPT ![Bot] = <<>>]
        /\ decided' = [i \in DOMAIN decided |-> told(i)]
        /\ waiting' = [n \in Nicks |-> <<>>] /\ timers' = {} /\ asked' = {} /\ answers' = <<>>
        /\ UNCHANGED <<conf, srv, cache, nickOf, cmds, asking, moved, events>>
    BY <1>6 DEF ConnectionLost, userVars
  <2>2. \A i : (\E n \in Nicks : Contains(waiting[n], i)) <=> i \in InLookup
    BY ContainsMember, InLookupMember
  <2>3. \A i \in DOMAIN cmds : i \in InLookup => decided[i] = <<>>
    BY HeldCommands DEF Held
  <2>4. /\ DOMAIN decided' = DOMAIN cmds /\ DOMAIN cmds = DOMAIN decided
        /\ \A i \in DOMAIN cmds : decided'[i] = IF i \in InLookup THEN <<"none">> ELSE decided[i]
    <3>1. DOMAIN cmds = DOMAIN decided
      BY DEF Typed
    <3>2. Append(<<>>, "none") = <<"none">>
      OBVIOUS
    <3>. QED  BY <2>1, <2>2, <2>3, <3>1, <3>2
  <2>. HIDE DEF told
  <2>5. decided' \in Seq(Seq(Who)) /\ Len(decided') = Len(cmds)
    <3>1. <<"none">> \in Seq(Who)
      BY OneLine DEF Who
    <3>2. \A i \in DOMAIN cmds : decided'[i] \in Seq(Who)
      BY <2>4, <3>1, CommandFacts
    <3>3. DOMAIN cmds = 1..Len(cmds) /\ Len(cmds) \in Nat
      BY DEF Typed
    <3>4. decided' = [i \in 1..Len(cmds) |-> decided'[i]]
      BY <2>1, <2>4, <3>3
    <3>5. decided' \in [1..Len(cmds) -> Seq(Who)]
      BY <3>2, <3>3, <3>4
    <3>. QED  BY <3>3, <3>5
  <2>6. b' \in BotRec
    BY <2>1, BotFields, Zenon DEF Typed, Phases
  <2>7. Typed'
    BY <1>1, <2>1, <2>5, <2>6, OneLine DEF Typed
  <2>8. b'.phase = "lost"
    BY <2>1 DEF Typed, BotRec
  <2>9. down'[Bot] = <<>> /\ Distinct(down'[Bot]) /\ Wire(down'[Bot]) = {}
    <3>1. down'[Bot] = <<>>
      BY <1>1, <2>1
    <3>2. DOMAIN <<>> = {}
      OBVIOUS
    <3>3. Sent(down'[Bot]) = {}
      BY <3>1, <3>2 DEF Sent
    <3>. QED  BY <3>1, <3>3 DEF Distinct, Wire
  <2>10. InLookup' = {} /\ Apart'
    BY <2>1 DEF InLookup, Apart
  <2>11. Held' = asking
    BY <2>1, <2>9, <2>10 DEF Held
  <2>12. asking \subseteq Pending'
    BY <2>1, <2>4, HeldCommands DEF Held, Pending, Kept
  <2>13. \A i \in DOMAIN decided' : Len(decided'[i]) <= 1
    <3>1. \A i \in DOMAIN cmds : Len(decided[i]) <= 1
      BY <2>4 DEF Kept
    <3>2. \A i \in DOMAIN cmds : Len(decided'[i]) <= 1
      <4>. TAKE i \in DOMAIN cmds
      <4>1. CASE decided'[i] = <<"none">>
        BY <4>1
      <4>2. CASE decided'[i] = decided[i]
        BY <3>1, <4>2
      <4>. QED  BY <2>4, <4>1, <4>2
    <3>. QED  BY <2>4, <3>2
  <2>14. \A n \in Nicks : waiting'[n] # <<>> <=> n \in timers'
    BY <2>1
  <2>. QED  BY <2>7, <2>8, <2>9, <2>10, <2>11, <2>12, <2>13, <2>14 DEF Kept
<1>7. CASE \E n \in asked : ServicesLook(n)
  <2>1. PICK n \in asked : ServicesLook(n)
    BY <1>7
  <2>2. /\ answers' = Append(answers, [cmd |-> "STATUS", nick |-> n, who |-> Identified(n)])
        /\ asked' = asked \ {n} /\ UNCHANGED <<conf, b, up, down, srv, lookupVars, userVars>>
    BY <2>1 DEF ServicesLook
  <2>3. [cmd |-> "STATUS", nick |-> n, who |-> Identified(n)] \in Answer
    BY DEF Answer, Identified, Who, Typed
  <2>4. answers' \in Seq(Answer)
    BY <2>2, <2>3 DEF Typed
  <2>5. Typed'
    BY <2>2, <2>4 DEF Typed, lookupVars, userVars
  <2>. QED  BY <1>1, <2>2, <2>5, KeptAsIs DEF lookupVars, userVars
<1>8. CASE ServicesAnswer
  <2>1. /\ answers # <<>> /\ answers' = Tail(answers) /\ down' = [down EXCEPT ![Bot] = @ \o <<Head(answers)>>]
        /\ UNCHANGED <<conf, b, up, srv, lookupVars, asked, userVars>>
    BY <1>8 DEF ServicesAnswer, Answers
  <2>2. answers' \in Seq(Answer) /\ Head(answers) \in Answer
    BY <2>1, Tailed DEF Typed
  <2>3. <<Head(answers)>> \in Seq(DownLine) /\ Head(answers).cmd = "STATUS"
    BY <2>2, OneLine DEF DownLine, Answer
  <2>4. Distinct(<<Head(answers)>>) /\ Wire(<<Head(answers)>>) = {}
    <3>1. \A x : DOMAIN <<x>> = {1} /\ <<x>>[1] = x
      OBVIOUS
    <3>. QED  BY <2>3, <3>1, NoWire
  <2>5. /\ Distinct(down'[Bot]) /\ Wire(down'[Bot]) = Wire(down[Bot])
        /\ down' \in [Clients -> Seq(DownLine)]
    BY <2>1, <2>3, <2>4, WireGrows
  <2>6. Typed'
    BY <2>1, <2>2, <2>5 DEF Typed, lookupVars, userVars
  <2>. QED  BY <2>1, <2>5, <2>6, KeptAsIs DEF lookupVars, userVars
<1>9. CASE \E u \in Users, a \in BOOLEAN : UserSays(u, a)
  <2>1. PICK u \in Users, a \in BOOLEAN : UserSays(u, a)
    BY <1>9
  <2>. DEFINE c == [who |-> u, nick |-> nickOf[u], admin |-> a, is |-> Identified(nickOf[u])]
              i == Len(cmds')
              l == [cmd |-> "PRIVMSG", id |-> i, nick |-> nickOf[u], admin |-> a,
                    account |-> IF "account" \in conf.net.caps THEN Identified(nickOf[u]) ELSE "none"]
  <2>2. /\ cmds' = Append(cmds, c) /\ decided' = Append(decided, <<>>) /\ down' = [down EXCEPT ![Bot] = @ \o <<l>>]
        /\ nickOf[u] # Off
        /\ UNCHANGED <<conf, b, up, srv, cache, waiting, timers, serviceVars, asking, nickOf, moved>>
    BY <2>1 DEF UserSays, UserOnly, Answers
  <2>3. nickOf[u] \in Nicks /\ c \in Command
    BY <2>2 DEF Typed, Command, Identified, Who
  <2>. HIDE DEF c
  <2>4. /\ cmds' \in Seq(Command) /\ decided' \in Seq(Seq(Who)) /\ Len(decided') = Len(cmds') /\ i = Len(cmds) + 1
        /\ Len(cmds) \in Nat
        /\ DOMAIN cmds = 1..Len(cmds) /\ DOMAIN cmds' = 1..(Len(cmds) + 1) /\ DOMAIN decided' = 1..(Len(cmds) + 1)
        /\ DOMAIN decided = DOMAIN cmds
        /\ decided'[i] = <<>> /\ \A j \in DOMAIN cmds : decided'[j] = decided[j]
    <3>1. cmds \in Seq(Command) /\ decided \in Seq(Seq(Who)) /\ Len(decided) = Len(cmds) /\ <<>> \in Seq(Who)
      BY DEF Typed
    <3>. QED  BY <2>2, <2>3, <3>1
  <2>5. l \in Privmsg
    BY <2>3, <2>4 DEF Privmsg, Identified, Who
  <2>6. <<l>> \in Seq(DownLine) /\ l.cmd = "PRIVMSG" /\ l.id = i
    BY <2>5, OneLine DEF DownLine, Privmsg
  <2>. HIDE DEF l, i
  <2>7. Distinct(<<l>>) /\ Wire(<<l>>) = {i}
    <3>1. DOMAIN <<l>> = {1} /\ <<l>>[1] = l
      OBVIOUS
    <3>. QED  BY <2>6, <3>1 DEF Distinct, Wire, Sent
  <2>8. i \notin Held /\ i \notin Wire(q) /\ i \notin asking /\ i \notin InLookup
    <3>1. i \notin DOMAIN cmds
      BY <2>4
    <3>. QED  BY <3>1, HeldCommands DEF Held
  <2>9. /\ Distinct(down'[Bot]) /\ Wire(down'[Bot]) = Wire(down[Bot]) \cup {i}
        /\ down' \in [Clients -> Seq(DownLine)]
    BY <2>2, <2>6, <2>7, <2>8, WireGrows
  <2>10. Typed'
    BY <2>2, <2>4, <2>9 DEF Typed, serviceVars
  <2>11. Apart' /\ InLookup' = InLookup
    BY <2>2 DEF Apart, InLookup, Kept
  <2>12. Pending' = Pending \cup {i}
    BY <2>4, SMTT(20) DEF Pending
  <2>13. Held' = Held \cup {i}
    BY <2>2, <2>9, <2>11 DEF Held
  <2>14. \A j \in DOMAIN decided' : Len(decided'[j]) <= 1
    <3>1. \A j \in DOMAIN decided' : j = i \/ j \in DOMAIN decided
      BY <2>4
    <3>. QED  BY <2>4, <3>1 DEF Kept
  <2>15. Wire(down'[Bot]) \cap asking' = {} /\ Wire(down'[Bot]) \cap InLookup' = {} /\ asking' \cap InLookup' = {}
    BY <2>2, <2>8, <2>9, <2>11 DEF Kept
  <2>16. \A n \in Nicks : waiting'[n] # <<>> <=> n \in timers'
    BY <2>2 DEF Kept
  <2>17. Held' \subseteq Pending' /\ (b'.phase # "lost" => Pending' \subseteq Held')
    BY <2>2, <2>12, <2>13 DEF Kept
  <2>. QED  BY <2>9, <2>10, <2>11, <2>14, <2>15, <2>16, <2>17 DEF Kept
<1>10. CASE \E u \in Users, n \in Nicks \cup {Off}, s \in BOOLEAN : UserMoves(u, n, s)
  <2>1. PICK u \in Users, n \in Nicks \cup {Off}, s \in BOOLEAN : UserMoves(u, n, s)
    BY <1>10
  <2>. DEFINE l == [cmd |-> "NICK", nick |-> nickOf[u], new |-> n]
  <2>2. /\ nickOf' = [nickOf EXCEPT ![u] = n]
        /\ UNCHANGED <<conf, b, up, srv, cache, waiting, timers, serviceVars, asking, cmds, decided>>
        /\ \/ nickOf[u] # Off /\ down' = [down EXCEPT ![Bot] = @ \o <<l>>]
           \/ down' = [down EXCEPT ![Bot] = @ \o <<>>]
    BY <2>1 DEF UserMoves, UserOnly, Answers
  <2>3. nickOf' \in [Users -> Nicks \cup {Off}]
    BY <2>2 DEF Typed
  <2>4. nickOf[u] # Off => l \in DownLine /\ l.cmd # "PRIVMSG"
    BY DEF Typed, DownLine, Renaming
  <2>5. \A x : DOMAIN <<x>> = {1} /\ <<x>>[1] = x
    OBVIOUS
  <2>. HIDE DEF l
  <2>6. \E r \in Seq(DownLine) : down' = [down EXCEPT ![Bot] = @ \o r] /\ \A k \in DOMAIN r : r[k].cmd # "PRIVMSG"
    <3>1. <<>> \in Seq(DownLine) /\ \A k \in DOMAIN <<>> : <<>>[k].cmd # "PRIVMSG"
      OBVIOUS
    <3>2. nickOf[u] # Off => <<l>> \in Seq(DownLine) /\ \A k \in DOMAIN <<l>> : <<l>>[k].cmd # "PRIVMSG"
      BY <2>4, <2>5, OneLine
    <3>. QED  BY <2>2, <3>1, <3>2
  <2>7. PICK r \in Seq(DownLine) : down' = [down EXCEPT ![Bot] = @ \o r] /\ \A k \in DOMAIN r : r[k].cmd # "PRIVMSG"
    BY <2>6
  <2>8. /\ Distinct(down'[Bot]) /\ Wire(down'[Bot]) = Wire(down[Bot])
        /\ down' \in [Clients -> Seq(DownLine)]
    BY <2>7, NoWire, WireGrows, ZenonT(40)
  <2>9. Typed'
    BY <2>2, <2>3, <2>8 DEF Typed, serviceVars
  <2>. QED  BY <2>2, <2>8, <2>9, KeptAsIs
<1>11. CASE \E n \in Nicks : LookupTimeout(n)
  <2>1. PICK n \in Nicks : LookupTimeout(n)
    BY <1>11
  <2>2. Finish(n, "none", FALSE) /\ UNCHANGED <<conf, b, srv, up, down, serviceVars, userVars>> /\ "none" \in Who
    BY <2>1 DEF LookupTimeout, Who
  <2>3. decided' \in Seq(Seq(Who)) /\ Len(decided') = Len(cmds) /\ waiting' \in [Nicks -> Seq(Nat)]
        /\ timers' \subseteq Nicks /\ cache' \in [Nicks -> Who \cup {"absent"}]
    BY <2>2, FinishShape, GivesShape, Zenon DEF Typed
  <2>4. Typed'
    BY <2>2, <2>3 DEF Typed, serviceVars, userVars
  <2>5. asking' = asking /\ cmds' = cmds /\ b' = b /\ Distinct(down'[Bot]) /\ Wire(down'[Bot]) = Wire(down[Bot])
    BY <1>1, <2>2 DEF userVars
  <2>. QED  BY <2>2, <2>4, <2>5, FinishKept
<1>12. CASE \E n \in Nicks : CacheExpires(n)
  <2>1. PICK n \in Nicks : CacheExpires(n)
    BY <1>12
  <2>2. /\ cache' = [cache EXCEPT ![n] = "absent"]
        /\ UNCHANGED <<conf, b, srv, up, down, waiting, timers, decided, serviceVars, userVars>>
    BY <2>1 DEF CacheExpires
  <2>3. Typed'
    BY <2>2 DEF Typed, serviceVars, userVars
  <2>. QED  BY <1>1, <2>2, <2>3, KeptAsIs DEF userVars
<1>. QED  BY <1>2, <1>3, <1>4, <1>5, <1>6, <1>7, <1>8, <1>9, <1>10, <1>11, <1>12, PrivmsgKept, IsAdminKept
          DEF RegNext, Lookups, World

\* What is in one place at most, and in a place until it is decided, is decided once.
LEMMA OnePlace == ASSUME Typed, Kept PROVE DecidedOnce
<1>. DEFINE q == down[Bot]
            W(i) == {j \in DOMAIN q : q[j].cmd = "PRIVMSG" /\ q[j].id = i}
            A(i) == asking \cap {i}
            J(n, i) == {j \in DOMAIN waiting[n] : waiting[n][j] = i}
            D(i) == DOMAIN decided[i]
            L(i) == UNION {{<<n, k>> : k \in J(n, i)} : n \in timers}
<1>1. \A i : Places(i) = {<<"wire", k>> : k \in W(i)} \cup {<<"asking", k>> : k \in A(i)} \cup L(i)
                         \cup {<<"decided", k>> : k \in D(i)}
  <2>. TAKE i
  <2>. QED  BY DEF Places
<1>2. \A i : W(i) = {} <=> i \notin Wire(q)
  BY DEF Wire, Sent
<1>3. \A i, j, k : j \in W(i) /\ k \in W(i) => j = k
  BY DEF Kept, Distinct, Sent
<1>4. \A i, n : n \in Nicks => (J(n, i) # {} => i \in InLookup)
  BY InLookupMember
<1>5. \A i, m, n, j, k : m \in Nicks /\ n \in Nicks /\ j \in J(m, i) /\ k \in J(n, i) => m = n /\ j = k
  BY DEF Kept, Apart
<1>6. timers \subseteq Nicks
  BY DEF Typed
<1>7. \A i : i \in DOMAIN cmds => IF decided[i] = <<>> THEN D(i) = {} ELSE D(i) = {1}
  <2>. SUFFICES ASSUME NEW i \in DOMAIN cmds PROVE IF decided[i] = <<>> THEN D(i) = {} ELSE D(i) = {1}
    OBVIOUS
  <2>1. decided[i] \in Seq(Who) /\ i \in DOMAIN decided /\ Len(decided[i]) <= 1
    BY CommandFacts DEF Kept
  <2>2. Len(decided[i]) \in Nat /\ D(i) = 1..Len(decided[i])
    BY <2>1
  <2>3. CASE Len(decided[i]) = 0
    BY <2>1, <2>2, <2>3
  <2>4. CASE Len(decided[i]) = 1
    <3>1. \A s : s = <<>> => Len(s) # 1
      OBVIOUS
    <3>. QED  BY <2>2, <2>4, <3>1
  <2>. QED  BY <2>1, <2>2, <2>3, <2>4
<1>8. \A i : i \notin InLookup => L(i) = {}
  <2>. SUFFICES ASSUME NEW i, i \notin InLookup PROVE L(i) = {}
    OBVIOUS
  <2>1. \A n \in timers : J(n, i) = {}
    BY <1>4, <1>6
  <2>. QED  BY <2>1
<1>9. \A i : i \in InLookup => \E x : L(i) = {x}
  <2>. SUFFICES ASSUME NEW i, i \in InLookup PROVE \E x : L(i) = {x}
    OBVIOUS
  <2>1. PICK n \in Nicks : \E k \in DOMAIN waiting[n] : waiting[n][k] = i
    BY InLookupMember
  <2>2. PICK k \in DOMAIN waiting[n] : waiting[n][k] = i
    BY <2>1
  <2>3. n \in timers
    <3>1. waiting[n] # <<>>
      BY <2>2
    <3>. QED  BY <3>1 DEF Kept
  <2>4. k \in J(n, i)
    BY <2>2
  <2>5. J(n, i) = {k} /\ \A m \in timers : m # n => J(m, i) = {}
    BY <1>5, <1>6, <2>4, Zenon
  <2>. HIDE DEF J
  <2>6. L(i) = {<<n, k>>}
    BY <2>3, <2>5
  <2>. QED  BY <2>6
<1>10. /\ Wire(q) \cap asking = {} /\ Wire(q) \cap InLookup = {} /\ asking \cap InLookup = {}
       /\ \A i \in Wire(q) \cup asking \cup InLookup : i \in DOMAIN cmds /\ decided[i] = <<>>
       /\ b.phase # "lost" =>
            \A i \in DOMAIN cmds : decided[i] = <<>> => i \in Wire(q) \cup asking \cup InLookup
  BY DEF Kept, Held, Pending
<1>11. \A i : i \notin Wire(q) => W(i) = {}
  BY <1>2
<1>12. \A i : i \in Wire(q) => \E k : W(i) = {k}
  BY <1>2, <1>3
<1>13. \A i : A(i) = IF i \in asking THEN {i} ELSE {}
  OBVIOUS
<1>. HIDE DEF q, W, A, J, D, L
<1>14. ASSUME b.phase # "lost", NEW i \in DOMAIN cmds PROVE Cardinality(Places(i)) = 1
  <2>1. \E x : Places(i) = {x}
    <3>1. CASE decided[i] # <<>>
      <4>1. i \notin Wire(q) /\ i \notin asking /\ i \notin InLookup
        BY <1>10, <3>1
      <4>2. W(i) = {} /\ A(i) = {} /\ L(i) = {} /\ D(i) = {1}
        BY <1>7, <1>8, <1>11, <1>13, <3>1, <4>1
      <4>3. Places(i) = {<<"decided", 1>>}
        BY <1>1, <4>2
      <4>. QED  BY <4>3
    <3>2. CASE decided[i] = <<>> /\ i \in Wire(q)
      <4>1. i \notin asking /\ i \notin InLookup
        BY <1>10, <3>2
      <4>2. PICK k : W(i) = {k}
        BY <1>12, <3>2
      <4>3. A(i) = {} /\ L(i) = {} /\ D(i) = {}
        BY <1>7, <1>8, <1>13, <3>2, <4>1
      <4>4. Places(i) = {<<"wire", k>>}
        BY <1>1, <4>2, <4>3
      <4>. QED  BY <4>4
    <3>3. CASE decided[i] = <<>> /\ i \in asking
      <4>1. i \notin Wire(q) /\ i \notin InLookup
        BY <1>10, <3>3
      <4>2. W(i) = {} /\ A(i) = {i} /\ L(i) = {} /\ D(i) = {}
        BY <1>7, <1>8, <1>11, <1>13, <3>3, <4>1
      <4>3. Places(i) = {<<"asking", i>>}
        BY <1>1, <4>2
      <4>. QED  BY <4>3
    <3>4. CASE decided[i] = <<>> /\ i \in InLookup
      <4>1. i \notin Wire(q) /\ i \notin asking
        BY <1>10, <3>4
      <4>2. W(i) = {} /\ A(i) = {} /\ D(i) = {}
        BY <1>7, <1>11, <1>13, <3>4, <4>1
      <4>3. Places(i) = L(i)
        BY <1>1, <4>2
      <4>. QED  BY <1>9, <3>4, <4>3
    <3>. QED  BY <1>10, <1>14, <3>1, <3>2, <3>3, <3>4
  <2>2. PICK x : Places(i) = {x}
    BY <2>1
  <2>. QED  BY <2>2, FS_Singleton
<1>15. \A i \in DOMAIN cmds : Len(decided[i]) <= 1
  BY CommandFacts DEF Kept
<1>. QED  BY <1>14, <1>15 DEF DecidedOnce, Kept

----------------------------------------------------------------------------
(* The identity a command is given.                                        *)

\* The lines of a queue after the first, and the first.
LEMMA LinesTaken ==
  ASSUME NEW q \in Seq(DownLine), q # <<>>
  PROVE  /\ \A k \in Sent(Tail(q)) : k + 1 \in Sent(q) /\ Tail(q)[k] = q[k + 1]
         /\ \A k \in StatusOf(Tail(q)) : k + 1 \in StatusOf(q) /\ Tail(q)[k] = q[k + 1]
         /\ \A n : ~Renames(Head(q), n) /\ Announced(q, n) # {} => Announced(Tail(q), n) # {}
         /\ \A n, i : ~Renames(Head(q), n) /\ Follows(q, n, i) => Follows(Tail(q), n, i)
         /\ Distinct(q) /\ Head(q).cmd = "PRIVMSG" => \A n : ~Follows(q, n, Head(q).id)
<1>. DEFINE r == Tail(q)
<1>1. /\ Head(q) = q[1] /\ 1 \in DOMAIN q
      /\ \A k \in DOMAIN r : k \in Nat /\ k + 1 \in DOMAIN q /\ r[k] = q[k + 1]
      /\ \A k \in DOMAIN q : k = 1 \/ (k - 1 \in DOMAIN r /\ r[k - 1] = q[k])
      /\ \A k \in DOMAIN q : k \in Nat
  BY Tailed
<1>2. \A k \in DOMAIN q : k >= 1
  <2>1. DOMAIN q = 1..Len(q)
    OBVIOUS
  <2>. QED  BY <2>1
<1>. HIDE DEF r
<1>3. \A n : \A k \in Announced(q, n) : ~Renames(Head(q), n) => k - 1 \in Announced(r, n)
  BY <1>1 DEF Announced
<1>4. \A n : ~Renames(Head(q), n) /\ Announced(q, n) # {} => Announced(r, n) # {}
  BY <1>3
<1>5. ASSUME NEW n, NEW i, ~Renames(Head(q), n), Follows(q, n, i) PROVE Follows(r, n, i)
  <2>1. PICK k \in Sent(q) : q[k].id = i /\ \E j \in Announced(q, n) : j < k
    BY <1>5 DEF Follows
  <2>2. PICK j \in Announced(q, n) : j < k
    BY <2>1
  <2>3. j \in DOMAIN q /\ k \in DOMAIN q /\ q[k].cmd = "PRIVMSG"
    BY DEF Announced, Sent
  <2>4. j \in Nat /\ k \in Nat /\ k # 1
    BY <1>1, <1>2, <2>2, <2>3
  <2>5. k - 1 \in Sent(r) /\ r[k - 1].id = i
    BY <1>1, <2>1, <2>3, <2>4 DEF Sent
  <2>6. j - 1 \in Announced(r, n) /\ j - 1 < k - 1
    BY <1>3, <1>5, <2>2, <2>4
  <2>. QED  BY <2>5, <2>6 DEF Follows
<1>6. ASSUME Distinct(q), Head(q).cmd = "PRIVMSG", NEW n, Follows(q, n, Head(q).id) PROVE FALSE
  <2>1. PICK k \in Sent(q) : q[k].id = Head(q).id /\ \E j \in Announced(q, n) : j < k
    BY <1>6 DEF Follows
  <2>2. 1 \in Sent(q)
    BY <1>1, <1>6 DEF Sent
  <2>3. k = 1
    BY <1>1, <1>6, <2>1, <2>2 DEF Distinct
  <2>4. PICK j \in Announced(q, n) : j < 1
    BY <2>1, <2>3
  <2>. QED  BY <1>1, <1>2, <2>4 DEF Announced
<1>7. \A k \in Sent(r) : k + 1 \in Sent(q) /\ r[k] = q[k + 1]
  BY <1>1 DEF Sent
<1>8. \A k \in StatusOf(r) : k + 1 \in StatusOf(q) /\ r[k] = q[k + 1]
  BY <1>1 DEF StatusOf
<1>. QED  BY <1>4, <1>5, <1>6, <1>7, <1>8 DEF r

\* The lines of a queue that others were added to.
LEMMA LinesGot ==
  ASSUME NEW q \in Seq(DownLine), NEW r \in Seq(DownLine)
  PROVE  /\ \A k \in Sent(q \o r) : (k \in Sent(q) /\ (q \o r)[k] = q[k]) \/ \E j \in Sent(r) : (q \o r)[k] = r[j]
         /\ \A k \in StatusOf(q \o r) :
              (k \in StatusOf(q) /\ (q \o r)[k] = q[k]) \/ \E j \in StatusOf(r) : (q \o r)[k] = r[j]
         /\ \A n : Announced(q, n) # {} \/ Announced(r, n) # {} => Announced(q \o r, n) # {}
         /\ \A n, i : Follows(q, n, i) => Follows(q \o r, n, i)
         /\ \A n : \A j \in Sent(r) : Announced(q, n) # {} => Follows(q \o r, n, r[j].id)
<1>. DEFINE s == q \o r
            l == Len(q)
<1>1. /\ \A k \in DOMAIN q : k \in DOMAIN s /\ s[k] = q[k] /\ k \in Nat
      /\ \A k \in DOMAIN r : k \in Nat /\ l + k \in DOMAIN s /\ s[l + k] = r[k]
      /\ \A k \in DOMAIN s : k \in DOMAIN q \/ \E j \in DOMAIN r : k = l + j /\ s[k] = r[j]
      /\ \A k \in DOMAIN q, j \in DOMAIN r : k < l + j
  BY Joined
<1>. HIDE DEF s, l
<1>2. \A k \in Sent(s) : (k \in Sent(q) /\ s[k] = q[k]) \/ \E j \in Sent(r) : s[k] = r[j]
  BY <1>1 DEF Sent
<1>3. \A k \in StatusOf(s) : (k \in StatusOf(q) /\ s[k] = q[k]) \/ \E j \in StatusOf(r) : s[k] = r[j]
  BY <1>1 DEF StatusOf
<1>4. \A n : \A k \in Announced(q, n) : k \in Announced(s, n)
  BY <1>1 DEF Announced
<1>5. \A n : \A k \in Announced(r, n) : l + k \in Announced(s, n)
  BY <1>1 DEF Announced
<1>6. \A k \in Sent(q) : k \in Sent(s) /\ s[k] = q[k]
  BY <1>1 DEF Sent
<1>7. \A n, i : Follows(q, n, i) => Follows(s, n, i)
  BY <1>4, <1>6 DEF Follows
<1>8. ASSUME NEW n, NEW j \in Sent(r), Announced(q, n) # {} PROVE Follows(s, n, r[j].id)
  <2>1. PICK k \in Announced(q, n) : TRUE
    BY <1>8
  <2>2. l + j \in Sent(s) /\ s[l + j].id = r[j].id /\ j \in DOMAIN r
    BY <1>1 DEF Sent
  <2>3. k < l + j /\ k \in Announced(s, n)
    BY <1>1, <1>4, <2>2 DEF Announced
  <2>. QED  BY <2>2, <2>3 DEF Follows
<1>9. \A n : Announced(q, n) # {} \/ Announced(r, n) # {} => Announced(s, n) # {}
  BY <1>4, <1>5
<1>. QED  BY <1>2, <1>3, <1>7, <1>8, <1>9 DEF s

\* What a step decides is what was decided, or it is of a command whose sender was
\* the owner or whose nick moved.
Vouched(i) == cmds[i].is = "owner" \/ cmds[i].nick \in moved
WasGiven(i, k) == i \in DOMAIN decided /\ k \in DOMAIN decided[i] /\ decided[i][k] = "owner"
Decides == \A i \in DOMAIN decided' : \A k \in DOMAIN decided'[i] :
             decided'[i][k] = "owner" => WasGiven(i, k) \/ Vouched(i)
WaitersSourced == \A n \in Nicks : \A k \in DOMAIN waiting'[n] : cmds[waiting'[n][k]].nick = n

LEMMA IdentityKept ==
  ASSUME Typed, Kept, Identity, UNCHANGED <<cmds, nickOf, moved>>, Pending' \subseteq Pending,
         \A k \in Sent(down'[Bot]) : \E j \in Sent(down[Bot]) : down'[Bot][k] = down[Bot][j],
         \A k \in StatusOf(down'[Bot]) : \/ \E j \in StatusOf(down[Bot]) : down'[Bot][k] = down[Bot][j]
                                        \/ \E j \in StatusOf(answers) : down'[Bot][k] = answers[j],
         \A k \in StatusOf(answers') : \/ \E j \in StatusOf(answers) : answers'[k] = answers[j]
                                       \/ answers'[k].who = Identified(answers'[k].nick),
         Decides, WaitersSourced,
         b'.phase # "lost" => \A n \in Nicks : cache'[n] = "owner" /\ n \notin moved => CacheIsSafe(n)'
  PROVE  Identity'
<1>1. \A n : Identified(n)' = Identified(n)
  BY DEF Identified
<1>2. Sourced'
  <2>1. ASSUME NEW k \in Sent(down'[Bot])
        PROVE  /\ down'[Bot][k].nick = cmds[down'[Bot][k].id].nick
               /\ down'[Bot][k].account = "owner" => cmds[down'[Bot][k].id].is = "owner"
    <3>1. PICK j \in Sent(down[Bot]) : down'[Bot][k] = down[Bot][j]
      OBVIOUS
    <3>2. /\ down[Bot][j].nick = cmds[down[Bot][j].id].nick
          /\ down[Bot][j].account = "owner" => cmds[down[Bot][j].id].is = "owner"
      BY DEF Identity, Sourced
    <3>. QED  BY <3>1, <3>2
  <2>. QED  BY <2>1 DEF Sourced, WaitersSourced, Sent
<1>3. \A k \in StatusOf(answers) : answers[k].nick \notin moved => answers[k].who = Identified(answers[k].nick)
  BY DEF Identity, Fresh, Truthful
<1>4. \A k \in StatusOf(down[Bot]) :
        down[Bot][k].nick \notin moved => down[Bot][k].who = Identified(down[Bot][k].nick)
  BY DEF Identity, Fresh, Truthful
<1>5. \A k \in StatusOf(answers') : answers'[k].nick \notin moved => answers'[k].who = Identified(answers'[k].nick)
  <2>. SUFFICES ASSUME NEW k \in StatusOf(answers'), answers'[k].nick \notin moved
                PROVE  answers'[k].who = Identified(answers'[k].nick)
    OBVIOUS
  <2>1. CASE \E j \in StatusOf(answers) : answers'[k] = answers[j]
    <3>1. PICK j \in StatusOf(answers) : answers'[k] = answers[j]
      BY <2>1
    <3>2. answers[j].nick \notin moved
      BY <3>1
    <3>3. answers[j].who = Identified(answers[j].nick)
      BY <1>3, <3>2
    <3>. QED  BY <3>1, <3>3
  <2>. QED  BY <2>1
<1>6. \A k \in StatusOf(down'[Bot]) :
        down'[Bot][k].nick \notin moved => down'[Bot][k].who = Identified(down'[Bot][k].nick)
  <2>. SUFFICES ASSUME NEW k \in StatusOf(down'[Bot]), down'[Bot][k].nick \notin moved
                PROVE  down'[Bot][k].who = Identified(down'[Bot][k].nick)
    OBVIOUS
  <2>1. CASE \E j \in StatusOf(answers) : down'[Bot][k] = answers[j]
    <3>1. PICK j \in StatusOf(answers) : down'[Bot][k] = answers[j]
      BY <2>1
    <3>2. answers[j].nick \notin moved
      BY <3>1
    <3>3. answers[j].who = Identified(answers[j].nick)
      BY <1>3, <3>2
    <3>. QED  BY <3>1, <3>3
  <2>2. CASE \E j \in StatusOf(down[Bot]) : down'[Bot][k] = down[Bot][j]
    <3>1. PICK j \in StatusOf(down[Bot]) : down'[Bot][k] = down[Bot][j]
      BY <2>2
    <3>2. down[Bot][j].nick \notin moved
      BY <3>1
    <3>3. down[Bot][j].who = Identified(down[Bot][j].nick)
      BY <1>4, <3>2
    <3>. QED  BY <3>1, <3>3
  <2>. QED  BY <2>1, <2>2
<1>7. Fresh'
  <2>1. \A i \in Pending' : cmds[i].nick \notin moved => cmds[i].is = Identified(cmds[i].nick)
    BY DEF Identity, Fresh
  <2>2. Truthful(answers)'
    BY <1>1, <1>5 DEF Truthful, StatusOf
  <2>3. Truthful(down[Bot])'
    BY <1>1, <1>6 DEF Truthful, StatusOf
  <2>. QED  BY <1>1, <2>1, <2>2, <2>3 DEF Fresh
<1>8. Cautious'
  BY DEF Cautious
<1>9. IdentityIsCurrent'
  BY DEF Identity, IdentityIsCurrent, Decides, WasGiven, Vouched
<1>. QED  BY <1>2, <1>7, <1>8, <1>9 DEF Identity

\* A nick of which nothing is known but what is true.
Honoured(n) == Identified(n) = "owner" /\ \A i \in Pending : cmds[i].nick = n => cmds[i].is = "owner"

\* A step that leaves the commands, the users and the bot's line as they are.
LEMMA IdentityStill ==
  ASSUME Typed, Kept, Identity, UNCHANGED <<cmds, nickOf, moved>>, Pending' \subseteq Pending,
         down' = down, b'.phase # "lost" => b.phase # "lost",
         answers' = answers \/ \E n : answers' = Append(answers, [cmd |-> "STATUS", nick |-> n, who |-> Identified(n)]),
         Decides, WaitersSourced,
         \A n \in Nicks : cache'[n] = "owner" => cache[n] = "owner"
  PROVE  Identity'
<1>1. \A n : Identified(n)' = Identified(n)
  BY DEF Identified
<1>2. \A k \in StatusOf(answers') : \/ \E j \in StatusOf(answers) : answers'[k] = answers[j]
                                    \/ answers'[k].who = Identified(answers'[k].nick)
  <2>1. CASE answers' = answers
    BY <2>1
  <2>2. CASE \E n : answers' = Append(answers, [cmd |-> "STATUS", nick |-> n, who |-> Identified(n)])
    <3>1. PICK n : answers' = Append(answers, [cmd |-> "STATUS", nick |-> n, who |-> Identified(n)])
      BY <2>2
    <3>. DEFINE a == [cmd |-> "STATUS", nick |-> n, who |-> Identified(n)]
    <3>2. a.who = Identified(a.nick)
      OBVIOUS
    <3>3. answers \in Seq(Answer)
      BY DEF Typed
    <3>. HIDE DEF a
    <3>4. answers' = Append(answers, a)
      BY <3>1 DEF a
    <3>5. \A k \in DOMAIN answers' : (k \in DOMAIN answers /\ answers'[k] = answers[k]) \/ answers'[k] = a
      BY <3>3, <3>4
    <3>6. \A k \in StatusOf(answers') : (k \in StatusOf(answers) /\ answers'[k] = answers[k]) \/ answers'[k] = a
      BY <3>5 DEF StatusOf
    <3>. QED  BY <3>2, <3>6
  <2>. QED  BY <2>1, <2>2
<1>3. ASSUME b'.phase # "lost", NEW n \in Nicks, cache'[n] = "owner", n \notin moved PROVE CacheIsSafe(n)'
  <2>1. CacheIsSafe(n)
    BY <1>3 DEF Identity, Cautious
  <2>. QED  BY <1>1, <2>1 DEF CacheIsSafe
<1>. QED  BY <1>2, <1>3, IdentityKept

\* The bot takes a line, which is no NICK of what it keeps in its cache.
LEMMA IdentityTaken ==
  ASSUME Typed, Kept, Identity, UNCHANGED <<cmds, nickOf, moved, answers>>, Pending' \subseteq Pending,
         down[Bot] # <<>>, down' = [down EXCEPT ![Bot] = Tail(@)], b'.phase # "lost" => b.phase # "lost",
         Decides, WaitersSourced,
         \A n \in Nicks : cache'[n] = "owner" /\ n \notin moved =>
           Honoured(n) \/ (cache[n] = "owner" /\ ~Renames(Head(down[Bot]), n))
  PROVE  Identity'
<1>. DEFINE q == down[Bot]
<1>1. q \in Seq(DownLine) /\ down'[Bot] = Tail(q)
  BY TypedConf DEF Typed
<1>2. /\ \A k \in Sent(Tail(q)) : k + 1 \in Sent(q) /\ Tail(q)[k] = q[k + 1]
      /\ \A k \in StatusOf(Tail(q)) : k + 1 \in StatusOf(q) /\ Tail(q)[k] = q[k + 1]
      /\ \A n : ~Renames(Head(q), n) /\ Announced(q, n) # {} => Announced(Tail(q), n) # {}
      /\ \A n, i : ~Renames(Head(q), n) /\ Follows(q, n, i) => Follows(Tail(q), n, i)
  BY <1>1, LinesTaken
<1>3. \A n : Identified(n)' = Identified(n)
  BY DEF Identified
<1>4. ASSUME b'.phase # "lost", NEW n \in Nicks, cache'[n] = "owner", n \notin moved PROVE CacheIsSafe(n)'
  <2>1. CASE Honoured(n)
    BY <1>3, <2>1 DEF CacheIsSafe, Honoured
  <2>2. CASE cache[n] = "owner" /\ ~Renames(Head(q), n)
    <3>1. CacheIsSafe(n)
      BY <1>4, <2>2 DEF Identity, Cautious
    <3>2. Identified(n)' = "owner" \/ Announced(down'[Bot], n) # {}
      BY <1>1, <1>2, <1>3, <2>2, <3>1 DEF CacheIsSafe
    <3>3. \A i \in Pending' : cmds[i].nick = n /\ cmds[i].is # "owner" => Follows(down'[Bot], n, i)
      BY <1>1, <1>2, <2>2, <3>1 DEF CacheIsSafe
    <3>. QED  BY <3>2, <3>3, SMTT(20) DEF CacheIsSafe, Announced, Follows, Renames, Sent
  <2>. QED  BY <1>4, <2>1, <2>2
<1>5. \A k \in Sent(down'[Bot]) : \E j \in Sent(down[Bot]) : down'[Bot][k] = down[Bot][j]
  BY <1>1, <1>2
<1>6. \A k \in StatusOf(down'[Bot]) : \E j \in StatusOf(down[Bot]) : down'[Bot][k] = down[Bot][j]
  BY <1>1, <1>2
<1>. HIDE DEF q
<1>. QED  BY <1>4, <1>5, <1>6, IdentityKept

\* Lines get onto the bot's, of the registration or of the services.
LEMMA IdentityGot ==
  ASSUME Typed, Kept, Identity, UNCHANGED <<cmds, nickOf, moved, cache, waiting, decided, b>>,
         NEW r \in Seq(DownLine), down' = [down EXCEPT ![Bot] = @ \o r], Sent(r) = {},
         \A k \in StatusOf(r) : \E j \in StatusOf(answers) : r[k] = answers[j],
         \A k \in StatusOf(answers') : \E j \in StatusOf(answers) : answers'[k] = answers[j]
  PROVE  Identity'
<1>. DEFINE q == down[Bot]
<1>1. q \in Seq(DownLine) /\ down'[Bot] = q \o r
  BY TypedConf DEF Typed
<1>. HIDE DEF q
<1>2. /\ \A k \in Sent(q \o r) : (k \in Sent(q) /\ (q \o r)[k] = q[k]) \/ \E j \in Sent(r) : (q \o r)[k] = r[j]
      /\ \A k \in StatusOf(q \o r) :
           (k \in StatusOf(q) /\ (q \o r)[k] = q[k]) \/ \E j \in StatusOf(r) : (q \o r)[k] = r[j]
      /\ \A n : Announced(q, n) # {} => Announced(q \o r, n) # {}
      /\ \A n, i : Follows(q, n, i) => Follows(q \o r, n, i)
  BY <1>1, LinesGot, ZenonT(40)
<1>3. \A n : Identified(n)' = Identified(n)
  BY DEF Identified
<1>4. Pending' \subseteq Pending /\ WaitersSourced /\ Decides
  BY DEF Pending, WaitersSourced, Decides, WasGiven, Identity, Sourced
<1>5. ASSUME b'.phase # "lost", NEW n \in Nicks, cache'[n] = "owner", n \notin moved PROVE CacheIsSafe(n)'
  <2>1. CacheIsSafe(n)
    BY <1>5 DEF Identity, Cautious
  <2>2. Identified(n)' = "owner" \/ Announced(down'[Bot], n) # {}
    BY <1>1, <1>2, <1>3, <2>1 DEF CacheIsSafe, q
  <2>3. \A i \in Pending' : cmds[i].nick = n /\ cmds[i].is # "owner" => Follows(down'[Bot], n, i)
    BY <1>1, <1>2, <1>4, <2>1 DEF CacheIsSafe, q
  <2>. QED  BY <2>2, <2>3, ZenonT(40) DEF CacheIsSafe, Announced, Follows, Renames, Sent
<1>6. \A k \in Sent(q \o r) : \E j \in Sent(q) : (q \o r)[k] = q[j]
  BY <1>2
<1>7. \A k \in StatusOf(q \o r) : \/ \E j \in StatusOf(q) : (q \o r)[k] = q[j]
                                 \/ \E j \in StatusOf(answers) : (q \o r)[k] = answers[j]
  <2>. TAKE k \in StatusOf(q \o r)
  <2>1. CASE k \in StatusOf(q) /\ (q \o r)[k] = q[k]
    BY <2>1
  <2>2. CASE \E j \in StatusOf(r) : (q \o r)[k] = r[j]
    BY <2>2
  <2>. QED  BY <1>2, <2>1, <2>2
<1>8. \A k \in Sent(down'[Bot]) : \E j \in Sent(down[Bot]) : down'[Bot][k] = down[Bot][j]
  BY <1>1, <1>6, ZenonT(40) DEF q
<1>9. \A k \in StatusOf(down'[Bot]) : \/ \E j \in StatusOf(down[Bot]) : down'[Bot][k] = down[Bot][j]
                                      \/ \E j \in StatusOf(answers) : down'[Bot][k] = answers[j]
  <2>. TAKE k \in StatusOf(down'[Bot])
  <2>1. k \in StatusOf(q \o r) /\ (q \o r)[k] = down'[Bot][k]
    BY <1>1
  <2>2. CASE \E j \in StatusOf(q) : (q \o r)[k] = q[j]
    BY <2>1, <2>2 DEF q
  <2>3. CASE \E j \in StatusOf(answers) : (q \o r)[k] = answers[j]
    BY <2>1, <2>3
  <2>. QED  BY <1>7, <2>1, <2>2, <2>3
<1>. QED  BY <1>4, <1>5, <1>8, <1>9, IdentityKept

\* What Gives decides.
LEMMA GivesDecides ==
  ASSUME Typed, NEW ids, NEW who \in Who, Gives(ids, who), cmds' = cmds,
         who = "owner" => \A i \in DOMAIN cmds : Contains(ids, i) => Vouched(i)
  PROVE  Decides /\ Pending' \subseteq Pending
<1>1. /\ DOMAIN decided' = DOMAIN decided /\ DOMAIN decided = DOMAIN cmds
      /\ \A i \in DOMAIN decided : decided[i] \in Seq(Who)
      /\ \A i \in DOMAIN decided :
           decided'[i] = IF Contains(ids, i) THEN Append(decided[i], who) ELSE decided[i]
  BY GivesShape
<1>2. Decides
  <2>. SUFFICES ASSUME NEW i \in DOMAIN decided', NEW k \in DOMAIN decided'[i], decided'[i][k] = "owner"
                PROVE  WasGiven(i, k) \/ Vouched(i)
    BY DEF Decides
  <2>1. CASE Contains(ids, i)
    <3>1. decided[i] \in Seq(Who) /\ decided'[i] = Append(decided[i], who)
      BY <1>1, <2>1
    <3>2. (k \in DOMAIN decided[i] /\ decided'[i][k] = decided[i][k]) \/ decided'[i][k] = who
      BY <3>1
    <3>. QED  BY <1>1, <2>1, <3>2 DEF WasGiven
  <2>2. CASE ~Contains(ids, i)
    <3>1. decided'[i] = decided[i]
      BY <1>1, <2>2
    <3>. QED  BY <1>1, <3>1 DEF WasGiven
  <2>. QED  BY <2>1, <2>2
<1>3. \A i \in DOMAIN decided : Contains(ids, i) => decided'[i] # <<>>
  BY <1>1, AppendProperties
<1>4. Pending' \subseteq Pending
  BY <1>1, <1>3 DEF Pending
<1>. QED  BY <1>2, <1>4

\* A step that decides nothing and leaves who waits.
LEMMA NothingDecided ==
  ASSUME UNCHANGED <<decided, cmds, waiting>>, Identity
  PROVE  Decides /\ WaitersSourced /\ Pending' \subseteq Pending
BY DEF Decides, WasGiven, WaitersSourced, Pending, Identity, Sourced

\* The bot may rely on its cache for a command it takes, or whose handler asks.
LEMMA CacheServes ==
  ASSUME Typed, Kept, Identity, NEW i \in Pending, cmds[i].nick \in Nicks, cache[cmds[i].nick] = "owner",
         b.phase # "lost", \A n : ~Follows(down[Bot], n, i)
  PROVE  Vouched(i)
BY DEF Identity, Cautious, CacheIsSafe, Vouched

LEMMA EntersSourced ==
  ASSUME Typed, Identity, NEW i \in Nat, NEW n \in Nicks, cmds[i].nick = n, Enters(n, i), cmds' = cmds
  PROVE  WaitersSourced /\ Decides /\ Pending' \subseteq Pending /\ cache' = cache
<1>1. /\ cache' = cache /\ decided' = decided
      /\ \A m \in Nicks : waiting'[m] = IF m = n THEN Append(waiting[n], i) ELSE waiting[m]
  BY EntersTyped
<1>2. waiting[n] \in Seq(Nat)
  BY DEF Typed
<1>3. \A k \in DOMAIN Append(waiting[n], i) :
        Append(waiting[n], i)[k] = i \/ (k \in DOMAIN waiting[n] /\ Append(waiting[n], i)[k] = waiting[n][k])
  BY <1>2
<1>4. \A m \in Nicks : \A k \in DOMAIN waiting[m] : cmds[waiting[m][k]].nick = m
  BY DEF Identity, Sourced
<1>5. WaitersSourced
  <2>. SUFFICES ASSUME NEW m \in Nicks, NEW k \in DOMAIN waiting'[m] PROVE cmds[waiting'[m][k]].nick = m
    BY DEF WaitersSourced
  <2>1. CASE m = n
    <3>1. waiting'[m] = Append(waiting[n], i)
      BY <1>1, <2>1
    <3>. QED  BY <1>3, <1>4, <2>1, <3>1
  <2>2. CASE m # n
    BY <1>1, <1>4, <2>2
  <2>. QED  BY <2>1, <2>2
<1>. QED  BY <1>1, <1>5 DEF Decides, WasGiven, Pending

LEMMA PrivmsgIdentity == ASSUME Typed, Kept, Identity, irc_PRIVMSG PROVE Identity'
<1>. DEFINE q == down[Bot]
            m == Heard
            i == Heard.id
<1>1. /\ m \in Privmsg /\ m = Head(q) /\ q \in Seq(DownLine) /\ q # <<>>
      /\ down' = [down EXCEPT ![Bot] = Tail(@)]
      /\ UNCHANGED <<conf, b, srv, serviceVars, nickOf, cmds, moved, events>>
      /\ \/ /\ \E who \in Who : (who = cache[m.nick] \/ who = m.account) /\ Gives(<<i>>, who)
            /\ UNCHANGED <<cache, waiting, timers, asking>>
         \/ Enters(m.nick, i) /\ asking' = asking
         \/ asking' = asking \cup {i} /\ UNCHANGED lookupVars
  BY PrivmsgShape DEF Kept
<1>2. m.cmd = "PRIVMSG" /\ m.nick \in Nicks /\ i \in Nat /\ Head(q).cmd = "PRIVMSG" /\ Head(q).id = i
  BY <1>1 DEF Privmsg
<1>3. b.phase # "lost"
  BY DEF irc_PRIVMSG, Hears, Open
<1>. HIDE DEF m, i
<1>4. i \in Wire(q) /\ Distinct(q)
  BY <1>1, <1>2, WireTaken DEF Kept
<1>5. i \in Pending
  BY <1>4 DEF Kept, Held
<1>6. \A n : ~Follows(q, n, i)
  BY <1>1, <1>2, <1>4, LinesTaken
<1>7. cmds[i].nick = m.nick /\ (m.account = "owner" => cmds[i].is = "owner")
  <2>1. 1 \in Sent(q) /\ q[1] = m
    <3>1. q[1] = Head(q) /\ 1 \in DOMAIN q
      BY <1>1, Tailed
    <3>. QED  BY <1>1, <1>2, <3>1 DEF Sent
  <2>2. \A k \in Sent(q) : q[k].nick = cmds[q[k].id].nick /\ (q[k].account = "owner" => cmds[q[k].id].is = "owner")
    BY DEF Identity, Sourced
  <2>3. m.id = i
    BY DEF m, i
  <2>. QED  BY <2>1, <2>2, <2>3
<1>8. cache[m.nick] = "owner" => Vouched(i)
  BY <1>2, <1>3, <1>5, <1>6, <1>7, CacheServes
<1>9. Decides /\ WaitersSourced /\ Pending' \subseteq Pending /\ cache' = cache
  <2>1. CASE /\ \E who \in Who : (who = cache[m.nick] \/ who = m.account) /\ Gives(<<i>>, who)
             /\ UNCHANGED <<cache, waiting, timers, asking>>
    <3>1. PICK who \in Who : (who = cache[m.nick] \/ who = m.account) /\ Gives(<<i>>, who)
      BY <2>1
    <3>2. who = "owner" => \A j \in DOMAIN cmds : Contains(<<i>>, j) => Vouched(j)
      BY <1>7, <1>8, <3>1, OnlyOne DEF Vouched
    <3>3. Decides /\ Pending' \subseteq Pending
      BY <1>1, <3>1, <3>2, GivesDecides
    <3>. QED  BY <1>1, <2>1, <3>3 DEF WaitersSourced, Identity, Sourced
  <2>2. CASE Enters(m.nick, i)
    BY <1>1, <1>2, <1>7, <2>2, EntersSourced
  <2>3. CASE UNCHANGED lookupVars
    BY <1>1, <2>3, NothingDecided DEF lookupVars
  <2>. QED  BY <1>1, <2>1, <2>2, <2>3
<1>10. \A n \in Nicks : ~Renames(Head(down[Bot]), n)
  BY <1>2 DEF Renames
<1>. QED  BY <1>1, <1>3, <1>9, <1>10, IdentityTaken DEF serviceVars

LEMMA IsAdminIdentity == ASSUME Typed, Kept, Identity, NEW i \in asking, IsAdmin(i) PROVE Identity'
<1>1. i \in Pending /\ asking \subseteq DOMAIN cmds /\ i \in DOMAIN cmds /\ i \in Nat /\ cmds[i].nick \in Nicks
  BY HeldCommands, CommandFacts DEF Held
<1>2. /\ down' = down
      /\ UNCHANGED <<conf, b, srv, serviceVars, nickOf, cmds, moved, events>>
      /\ \/ /\ \E who \in Who : /\ who = "none" \/ (b.phase = "on" /\ who = cache[cmds[i].nick])
                                /\ Gives(<<i>>, who)
            /\ UNCHANGED <<cache, waiting, timers>>
         \/ Enters(cmds[i].nick, i)
  BY <1>1, IsAdminShape DEF Kept
<1>3. \A n : ~Follows(down[Bot], n, i)
  BY WireMember DEF Kept, Follows
<1>4. b.phase = "on" /\ cache[cmds[i].nick] = "owner" => Vouched(i)
  BY <1>1, <1>3, CacheServes
<1>5. Decides /\ WaitersSourced /\ Pending' \subseteq Pending /\ cache' = cache
  <2>1. CASE /\ \E who \in Who : /\ who = "none" \/ (b.phase = "on" /\ who = cache[cmds[i].nick])
                                 /\ Gives(<<i>>, who)
             /\ UNCHANGED <<cache, waiting, timers>>
    <3>1. PICK who \in Who : (who = "none" \/ (b.phase = "on" /\ who = cache[cmds[i].nick])) /\ Gives(<<i>>, who)
      BY <2>1
    <3>2. who = "owner" => \A j \in DOMAIN cmds : Contains(<<i>>, j) => Vouched(j)
      BY <1>4, <3>1, OnlyOne
    <3>3. Decides /\ Pending' \subseteq Pending
      BY <1>2, <3>1, <3>2, GivesDecides
    <3>. QED  BY <1>2, <2>1, <3>3 DEF WaitersSourced, Identity, Sourced
  <2>2. CASE Enters(cmds[i].nick, i)
    BY <1>1, <1>2, <2>2, EntersSourced
  <2>. QED  BY <1>2, <2>1, <2>2
<1>. QED  BY <1>2, <1>5, IdentityStill DEF serviceVars

\* An answer that a lookup ends with is true of the nick, and of its commands.
LEMMA FinishIdentity ==
  ASSUME Typed, Kept, Identity, NEW n \in Nicks, NEW who \in Who, NEW keep \in BOOLEAN, Finish(n, who, keep),
         cmds' = cmds, who = "owner" => n \in moved \/ Honoured(n)
  PROVE  /\ Decides /\ WaitersSourced /\ Pending' \subseteq Pending
         /\ \A m \in Nicks : cache'[m] = "owner" => cache[m] = "owner" \/ (keep /\ m = n /\ who = "owner")
<1>1. /\ Gives(waiting[n], who)
      /\ \A m \in Nicks : cache'[m] = cache[m] \/ (keep /\ m = n /\ cache'[m] = who)
      /\ \A m \in Nicks : waiting'[m] = IF m = n THEN <<>> ELSE waiting[m]
  BY FinishShape
<1>2. WaitersSourced
  <2>1. \A m \in Nicks : \A k \in DOMAIN waiting[m] : cmds[waiting[m][k]].nick = m
    BY DEF Identity, Sourced
  <2>2. \A m \in Nicks : \A k \in DOMAIN waiting'[m] : m # n /\ waiting'[m] = waiting[m]
    BY <1>1
  <2>. QED  BY <2>1, <2>2 DEF WaitersSourced
<1>3. who = "owner" => \A i \in DOMAIN cmds : Contains(waiting[n], i) => Vouched(i)
  <2>. SUFFICES ASSUME who = "owner", NEW i \in DOMAIN cmds, Contains(waiting[n], i) PROVE Vouched(i)
    OBVIOUS
  <2>1. PICK k \in DOMAIN waiting[n] : waiting[n][k] = i
    BY ContainsMember
  <2>2. cmds[i].nick = n
    BY <2>1 DEF Identity, Sourced
  <2>3. i \in Pending
    BY <2>1, InLookupMember DEF Kept, Held
  <2>. QED  BY <2>2, <2>3 DEF Vouched, Honoured
<1>4. Decides /\ Pending' \subseteq Pending
  BY <1>1, <1>3, GivesDecides
<1>. QED  BY <1>1, <1>2, <1>4

LEMMA NoticeIdentity == ASSUME Typed, Kept, Identity, irc_NOTICE PROVE Identity'
<1>1. Hears("STATUS") /\ BotOnly /\ UNCHANGED userVars /\ Says(<<>>)
  BY DEF irc_NOTICE
<1>2. /\ Heard \in Answer /\ down[Bot] \in Seq(DownLine) /\ down[Bot] # <<>>
      /\ Head(down[Bot]) = Heard /\ Heard.cmd = "STATUS" /\ b.phase # "lost"
  BY <1>1, HeardShape, DownFacts
<1>3. Heard.nick \in Nicks /\ Heard.who \in Who
  BY <1>2 DEF Answer
<1>4. /\ down' = [down EXCEPT ![Bot] = Tail(@)] /\ UNCHANGED <<cmds, nickOf, moved, answers, b>>
  BY <1>1 DEF Says, userVars, BotOnly, serviceVars
<1>5. \A n \in Nicks : ~Renames(Head(down[Bot]), n)
  BY <1>2 DEF Renames
<1>6. Heard.nick \notin moved => Heard.who = Identified(Heard.nick)
  <2>1. 1 \in StatusOf(down[Bot]) /\ down[Bot][1] = Heard
    <3>1. down[Bot][1] = Head(down[Bot]) /\ 1 \in DOMAIN down[Bot]
      BY <1>2, Tailed
    <3>. QED  BY <1>2, <3>1 DEF StatusOf
  <2>2. \A k \in StatusOf(down[Bot]) :
          down[Bot][k].nick \notin moved => down[Bot][k].who = Identified(down[Bot][k].nick)
    BY DEF Identity, Fresh, Truthful
  <2>. QED  BY <2>1, <2>2
<1>7. Heard.who = "owner" => Heard.nick \in moved \/ Honoured(Heard.nick)
  BY <1>6 DEF Honoured, Identity, Fresh
<1>8. CASE b.legacy
  <2>1. Finish(Heard.nick, Heard.who, TRUE)
    BY <1>8 DEF irc_NOTICE, HandleLegacyStatusReply
  <2>2. /\ Decides /\ WaitersSourced /\ Pending' \subseteq Pending
        /\ \A m \in Nicks : cache'[m] = "owner" => cache[m] = "owner" \/ (m = Heard.nick /\ Heard.who = "owner")
    BY <1>3, <1>4, <1>7, <2>1, FinishIdentity
  <2>. QED  BY <1>2, <1>4, <1>5, <1>7, <2>2, IdentityTaken
<1>9. CASE ~b.legacy
  <2>1. UNCHANGED lookupVars
    BY <1>9 DEF irc_NOTICE
  <2>2. Decides /\ WaitersSourced /\ Pending' \subseteq Pending /\ cache' = cache
    BY <1>4, <2>1, NothingDecided DEF lookupVars
  <2>. QED  BY <1>2, <1>4, <1>5, <2>2, IdentityTaken
<1>. QED  BY <1>8, <1>9

LEMMA RenamedIdentity == ASSUME Typed, Kept, Identity, irc_NICK_QUIT PROVE Identity'
<1>1. Hears("NICK") /\ BotOnly /\ UNCHANGED <<waiting, timers, decided, userVars>> /\ Says(<<>>) /\ Forget
  BY DEF irc_NICK_QUIT
<1>2. down[Bot] # <<>> /\ Heard = Head(down[Bot]) /\ b.phase # "lost"
  BY <1>1, HeardShape
<1>3. /\ down' = [down EXCEPT ![Bot] = Tail(@)]
      /\ UNCHANGED <<cmds, nickOf, moved, answers, b, waiting, decided>>
  BY <1>1 DEF Says, userVars, BotOnly, serviceVars
<1>4. \A n \in Nicks : cache'[n] = "owner" => cache[n] = "owner" /\ ~Renames(Head(down[Bot]), n)
  BY <1>1, <1>2 DEF Forget, Renames
<1>5. Decides /\ WaitersSourced /\ Pending' \subseteq Pending
  BY <1>3, NothingDecided
<1>. QED  BY <1>2, <1>3, <1>4, <1>5, IdentityTaken

LEMMA LostIdentity == ASSUME Typed, Kept, Identity, ConnectionLost PROVE Identity'
<1>1. /\ b' = [b EXCEPT !.phase = "lost"] /\ down' = [down EXCEPT ![Bot] = <<>>]
      /\ decided' = [i \in DOMAIN decided |->
                   IF \E n \in Nicks : Contains(waiting[n], i) THEN Append(decided[i], "none") ELSE decided[i]]
      /\ waiting' = [n \in Nicks |-> <<>>] /\ answers' = <<>>
      /\ UNCHANGED <<nickOf, cmds, moved>>
  BY DEF ConnectionLost, userVars
<1>2. b'.phase = "lost"
  BY <1>1 DEF Typed, BotRec
<1>3. down'[Bot] = <<>>
  BY <1>1, TypedConf DEF Typed
<1>4. DOMAIN <<>> = {}
  OBVIOUS
<1>5. Sent(down'[Bot]) = {} /\ StatusOf(down'[Bot]) = {} /\ StatusOf(answers') = {} /\ WaitersSourced
  BY <1>1, <1>3, <1>4 DEF Sent, StatusOf, WaitersSourced
<1>6. DOMAIN decided = DOMAIN cmds /\ DOMAIN decided' = DOMAIN decided /\ \A i \in DOMAIN decided : decided[i] \in Seq(Who)
  BY <1>1 DEF Typed
<1>7. \A i \in DOMAIN decided : decided'[i] = decided[i] \/ decided'[i] = Append(decided[i], "none")
  BY <1>1
<1>8. \A i \in DOMAIN decided : /\ Append(decided[i], "none") # <<>>
                               /\ \A k \in DOMAIN Append(decided[i], "none") :
                                    \/ k \in DOMAIN decided[i] /\ Append(decided[i], "none")[k] = decided[i][k]
                                    \/ Append(decided[i], "none")[k] = "none"
  <2>. TAKE i \in DOMAIN decided
  <2>1. decided[i] \in Seq(Who) /\ "none" \in Who
    BY <1>6 DEF Who
  <2>2. Append(decided[i], "none") # <<>>
    BY <2>1, AppendProperties
  <2>. QED  BY <2>1, <2>2
<1>9. Decides
  <2>. SUFFICES ASSUME NEW i \in DOMAIN decided', NEW k \in DOMAIN decided'[i], decided'[i][k] = "owner"
                PROVE  WasGiven(i, k)
    BY DEF Decides
  <2>1. CASE decided'[i] = decided[i]
    BY <1>6, <2>1 DEF WasGiven
  <2>2. CASE decided'[i] = Append(decided[i], "none")
    BY <1>6, <1>8, <2>2 DEF WasGiven
  <2>. QED  BY <1>6, <1>7, <2>1, <2>2
<1>10. Pending' \subseteq Pending
  <2>. SUFFICES ASSUME NEW i \in Pending' PROVE i \in Pending
    OBVIOUS
  <2>1. i \in DOMAIN decided /\ decided'[i] = <<>>
    BY <1>1, <1>6 DEF Pending
  <2>2. decided'[i] = decided[i]
    BY <1>7, <1>8, <2>1
  <2>. QED  BY <1>6, <2>1, <2>2 DEF Pending
<1>. QED  BY <1>1, <1>2, <1>5, <1>9, <1>10, IdentityKept

\* A command is sent, by who has the nick now.
LEMMA SaysIdentity ==
  ASSUME Typed, Kept, Identity, NEW u \in Users, NEW a \in BOOLEAN, UserSays(u, a)
  PROVE  Identity'
<1>. DEFINE n == nickOf[u]
            c == [who |-> u, nick |-> n, admin |-> a, is |-> Identified(n)]
            i == Len(cmds')
            l == [cmd |-> "PRIVMSG", id |-> i, nick |-> n, admin |-> a,
                  account |-> IF "account" \in conf.net.caps THEN Identified(n) ELSE "none"]
            q == down[Bot]
<1>1. /\ cmds' = Append(cmds, c) /\ decided' = Append(decided, <<>>) /\ down' = [down EXCEPT ![Bot] = @ \o <<l>>]
      /\ n # Off /\ b.phase = "on"
      /\ UNCHANGED <<conf, b, up, srv, cache, waiting, timers, serviceVars, asking, nickOf, moved>>
  BY DEF UserSays, UserOnly, Answers, Busy
<1>2. n \in Nicks /\ q \in Seq(DownLine) /\ cmds \in Seq(Command) /\ decided \in Seq(Seq(Who)) /\ Len(decided) = Len(cmds)
  BY <1>1, TypedConf DEF Typed
<1>3. c \in Command
  BY <1>2 DEF Command, Identified, Who
<1>4. c.nick = n /\ c.is = Identified(n)
  OBVIOUS
<1>5. l.nick = n /\ l.id = i /\ l.cmd = "PRIVMSG" /\ (l.account = "owner" => Identified(n) = "owner")
  OBVIOUS
<1>. HIDE DEF c
<1>6. /\ i = Len(cmds) + 1 /\ i \in Nat
      /\ DOMAIN cmds' = DOMAIN cmds \cup {i} /\ DOMAIN decided' = DOMAIN cmds \cup {i} /\ DOMAIN decided = DOMAIN cmds
      /\ i \notin DOMAIN cmds
      /\ cmds'[i] = c /\ \A j \in DOMAIN cmds : cmds'[j] = cmds[j]
      /\ decided'[i] = <<>> /\ \A j \in DOMAIN cmds : decided'[j] = decided[j]
  <2>1. <<>> \in Seq(Who)
    OBVIOUS
  <2>. QED  BY <1>1, <1>2, <1>3, <2>1
<1>7. l \in DownLine
  BY <1>2, <1>6 DEF DownLine, Privmsg, Identified, Who
<1>8. <<l>> \in Seq(DownLine) /\ DOMAIN <<l>> = {1} /\ <<l>>[1] = l
  BY <1>7, OneLine
<1>9. down'[Bot] = q \o <<l>>
  BY <1>1, TypedConf DEF Typed
<1>. HIDE DEF l, i, n, q
<1>10. Sent(<<l>>) = {1} /\ StatusOf(<<l>>) = {}
  BY <1>5, <1>8 DEF Sent, StatusOf
<1>11. /\ \A k \in Sent(q \o <<l>>) : (k \in Sent(q) /\ (q \o <<l>>)[k] = q[k]) \/ (q \o <<l>>)[k] = l
       /\ \A k \in StatusOf(q \o <<l>>) : k \in StatusOf(q) /\ (q \o <<l>>)[k] = q[k]
       /\ \A m : Announced(q, m) # {} => Announced(q \o <<l>>, m) # {}
       /\ \A m, j : Follows(q, m, j) => Follows(q \o <<l>>, m, j)
       /\ \A m : Announced(q, m) # {} => Follows(q \o <<l>>, m, i)
  <2>. DEFINE r == <<l>>
  <2>1. r \in Seq(DownLine) /\ Sent(r) = {1} /\ StatusOf(r) = {} /\ r[1] = l /\ r[1].id = i
    BY <1>5, <1>8, <1>10
  <2>. HIDE DEF r
  <2>2. /\ \A k \in Sent(q \o r) : (k \in Sent(q) /\ (q \o r)[k] = q[k]) \/ \E j \in Sent(r) : (q \o r)[k] = r[j]
        /\ \A k \in StatusOf(q \o r) :
             (k \in StatusOf(q) /\ (q \o r)[k] = q[k]) \/ \E j \in StatusOf(r) : (q \o r)[k] = r[j]
        /\ \A m : Announced(q, m) # {} => Announced(q \o r, m) # {}
        /\ \A m, j : Follows(q, m, j) => Follows(q \o r, m, j)
        /\ \A m : \A j \in Sent(r) : Announced(q, m) # {} => Follows(q \o r, m, r[j].id)
    BY <1>2, <2>1, LinesGot
  <2>3. /\ \A k \in Sent(q \o r) : (k \in Sent(q) /\ (q \o r)[k] = q[k]) \/ (q \o r)[k] = l
        /\ \A k \in StatusOf(q \o r) : k \in StatusOf(q) /\ (q \o r)[k] = q[k]
        /\ \A m : Announced(q, m) # {} => Follows(q \o r, m, i)
    BY <2>1, <2>2
  <2>. QED  BY <2>2, <2>3 DEF r
<1>12. \A m : Identified(m)' = Identified(m)
  BY <1>1 DEF Identified
<1>13. \A j \in Held : j \in DOMAIN cmds /\ cmds'[j] = cmds[j]
  BY <1>6, HeldCommands
<1>14. Sourced'
  <2>1. ASSUME NEW k \in Sent(down'[Bot])
        PROVE  /\ down'[Bot][k].nick = cmds'[down'[Bot][k].id].nick
               /\ down'[Bot][k].account = "owner" => cmds'[down'[Bot][k].id].is = "owner"
    <3>1. CASE down'[Bot][k] = l
      BY <1>4, <1>5, <1>6, <3>1
    <3>2. CASE k \in Sent(q) /\ down'[Bot][k] = q[k]
      <4>1. q[k].id \in Held
        BY <3>2, WireMember DEF Held, q
      <4>2. q[k].nick = cmds[q[k].id].nick /\ (q[k].account = "owner" => cmds[q[k].id].is = "owner")
        BY <3>2 DEF Identity, Sourced, q
      <4>. QED  BY <1>13, <3>2, <4>1, <4>2
    <3>. QED  BY <1>9, <1>11, <3>1, <3>2
  <2>2. ASSUME NEW m \in Nicks, NEW k \in DOMAIN waiting[m] PROVE cmds'[waiting[m][k]].nick = m
    <3>1. waiting[m][k] \in Held
      BY InLookupMember DEF Held
    <3>. QED  BY <1>13, <3>1 DEF Identity, Sourced
  <2>. QED  BY <1>1, <2>1, <2>2, Zenon DEF Sourced, Sent
<1>15. \A j \in Pending' : j = i \/ (j \in Pending /\ cmds'[j] = cmds[j])
  BY <1>6 DEF Pending
<1>16. Fresh'
  <2>1. \A j \in Pending' : cmds'[j].nick \notin moved => cmds'[j].is = Identified(cmds'[j].nick)
    BY <1>4, <1>6, <1>15 DEF Identity, Fresh
  <2>2. \A k \in StatusOf(q) : q[k].nick \notin moved => q[k].who = Identified(q[k].nick)
    BY DEF Identity, Fresh, Truthful, q
  <2>3. \A k \in StatusOf(down'[Bot]) :
          down'[Bot][k].nick \notin moved => down'[Bot][k].who = Identified(down'[Bot][k].nick)
    BY <1>9, <1>11, <2>2
  <2>4. Truthful(down[Bot])'
    BY <1>1, <1>12, <2>3 DEF Truthful, StatusOf
  <2>5. Truthful(answers)'
    BY <1>1, <1>12 DEF Truthful, StatusOf, Identity, Fresh, serviceVars
  <2>. QED  BY <1>1, <1>12, <2>1, <2>4, <2>5 DEF Fresh
<1>17. ASSUME NEW m \in Nicks, cache[m] = "owner", m \notin moved PROVE CacheIsSafe(m)'
  <2>1. CacheIsSafe(m)
    BY <1>1, <1>17 DEF Identity, Cautious
  <2>2. Identified(m)' = "owner" \/ Announced(down'[Bot], m) # {}
    BY <1>9, <1>11, <1>12, <2>1 DEF CacheIsSafe, q
  <2>3. \A j \in Pending' : cmds'[j].nick = m /\ cmds'[j].is # "owner" => Follows(down'[Bot], m, j)
    <3>. SUFFICES ASSUME NEW j \in Pending', cmds'[j].nick = m, cmds'[j].is # "owner" PROVE Follows(down'[Bot], m, j)
      OBVIOUS
    <3>1. CASE j = i
      <4>1. Announced(q, m) # {}
        BY <1>4, <1>6, <2>1, <3>1 DEF CacheIsSafe, q
      <4>. QED  BY <1>9, <1>11, <3>1, <4>1
    <3>2. CASE j \in Pending /\ cmds'[j] = cmds[j]
      BY <1>9, <1>11, <2>1, <3>2 DEF CacheIsSafe, q
    <3>. QED  BY <1>15, <3>1, <3>2
  <2>. QED  BY <2>2, <2>3 DEF CacheIsSafe, Announced, Follows, Renames, Sent
<1>18. Cautious'
  BY <1>1, <1>17 DEF Cautious
<1>19. IdentityIsCurrent'
  <2>1. \A k : k \notin DOMAIN <<>>
    OBVIOUS
  <2>2. \A j \in DOMAIN decided : \A k \in DOMAIN decided[j] :
          decided[j][k] = "owner" => cmds'[j].is = "owner" \/ cmds'[j].nick \in moved
    BY <1>6 DEF Identity, IdentityIsCurrent
  <2>. QED  BY <1>1, <1>6, <2>1, <2>2 DEF IdentityIsCurrent
<1>. QED  BY <1>14, <1>16, <1>18, <1>19 DEF Identity

\* A user moves: what the bot keeps of the two nicks is out of question, or is
\* announced to it, or was of nobody.
LEMMA MovesIdentity ==
  ASSUME Typed, Kept, Identity, NEW u \in Users, NEW n \in Nicks \cup {Off}, NEW s \in BOOLEAN, UserMoves(u, n, s)
  PROVE  Identity'
<1>. DEFINE q == down[Bot]
            l == [cmd |-> "NICK", nick |-> nickOf[u], new |-> n]
            r == IF s /\ nickOf[u] # Off THEN <<l>> ELSE <<>>
            Quiet(m) == m # nickOf[u] /\ m # n
            Now(m) == IF \E v \in Users : nickOf'[v] = m /\ Owner[m] = v THEN "owner" ELSE "none"
<1>1. /\ nickOf' = [nickOf EXCEPT ![u] = n] /\ b.phase = "on"
      /\ moved' = moved \cup {k \in {nickOf[u], n} : InQuestion(k) \/ ~s}
      /\ nickOf[u] = Off => s
      /\ \A v \in Users : nickOf[v] = n => n = Off
      /\ down' = [down EXCEPT ![Bot] = @ \o r]
      /\ UNCHANGED <<b, up, cache, waiting, asked, answers, cmds, decided>>
  BY DEF UserMoves, Busy, UserOnly, Answers, serviceVars
<1>2. /\ q \in Seq(DownLine) /\ down'[Bot] = q \o r /\ Off \notin Nicks /\ nickOf \in [Users -> Nicks \cup {Off}]
  BY <1>1, TypedConf DEF Typed
<1>3. nickOf[u] # Off => l \in DownLine /\ l.cmd = "NICK" /\ l.nick = nickOf[u] /\ l.new = n
  BY <1>2 DEF DownLine, Renaming
<1>. HIDE DEF l
<1>4. r \in Seq(DownLine) /\ Sent(r) = {} /\ StatusOf(r) = {}
  <2>1. CASE s /\ nickOf[u] # Off
    <3>1. r = <<l>> /\ r \in Seq(DownLine) /\ DOMAIN r = {1} /\ r[1] = l
      BY <1>3, <2>1, OneLine
    <3>. QED  BY <1>3, <2>1, <3>1 DEF Sent, StatusOf
  <2>2. CASE ~(s /\ nickOf[u] # Off)
    <3>1. r = <<>> /\ DOMAIN <<>> = {}
      BY <2>2
    <3>. QED  BY <3>1, OneLine DEF Sent, StatusOf
  <2>. QED  BY <2>1, <2>2
<1>5. \A m : ~Quiet(m) /\ s /\ nickOf[u] # Off => Announced(r, m) # {}
  <2>. SUFFICES ASSUME NEW m, ~Quiet(m), s, nickOf[u] # Off PROVE Announced(r, m) # {}
    OBVIOUS
  <2>1. DOMAIN r = {1} /\ r[1] = l
    OBVIOUS
  <2>2. Renames(l, m)
    BY <1>3 DEF Renames
  <2>. QED  BY <2>1, <2>2 DEF Announced
<1>. HIDE DEF q, r
<1>6. /\ \A k \in Sent(q \o r) : k \in Sent(q) /\ (q \o r)[k] = q[k]
      /\ \A k \in StatusOf(q \o r) : k \in StatusOf(q) /\ (q \o r)[k] = q[k]
      /\ \A m : Announced(q, m) # {} \/ Announced(r, m) # {} => Announced(q \o r, m) # {}
      /\ \A m, j : Follows(q, m, j) => Follows(q \o r, m, j)
  <2>1. /\ \A k \in Sent(q \o r) : (k \in Sent(q) /\ (q \o r)[k] = q[k]) \/ \E j \in Sent(r) : (q \o r)[k] = r[j]
        /\ \A k \in StatusOf(q \o r) :
             (k \in StatusOf(q) /\ (q \o r)[k] = q[k]) \/ \E j \in StatusOf(r) : (q \o r)[k] = r[j]
        /\ \A m : Announced(q, m) # {} \/ Announced(r, m) # {} => Announced(q \o r, m) # {}
        /\ \A m, j : Follows(q, m, j) => Follows(q \o r, m, j)
    BY <1>2, <1>4, LinesGot
  <2>. QED  BY <1>4, <2>1
<1>7. Pending' = Pending
  BY <1>1 DEF Pending
<1>8. \A m \in Nicks : Quiet(m) => Now(m) = Identified(m)
  <2>. SUFFICES ASSUME NEW m \in Nicks, Quiet(m) PROVE Now(m) = Identified(m)
    OBVIOUS
  <2>1. \A v \in Users : nickOf'[v] = m <=> nickOf[v] = m
    BY <1>1, <1>2
  <2>. QED  BY <2>1 DEF Identified
<1>9. \A m \in Nicks : m \notin moved' /\ ~Quiet(m) => m \notin moved /\ s /\ ~InQuestion(m)
  BY <1>1
<1>10. \A m \in Nicks : m \notin moved' => m \notin moved
  BY <1>1
<1>11. \A m : ~InQuestion(m) =>
         /\ \A i \in Pending : cmds[i].nick # m
         /\ \A k \in StatusOf(answers) : answers[k].nick # m
         /\ \A k \in StatusOf(down[Bot]) : down[Bot][k].nick # m
  <2>. SUFFICES ASSUME NEW m, ~InQuestion(m)
                PROVE  /\ \A i \in Pending : cmds[i].nick # m
                       /\ \A k \in StatusOf(answers) : answers[k].nick # m
                       /\ \A k \in StatusOf(down[Bot]) : down[Bot][k].nick # m
    OBVIOUS
  <2>1. \A i \in DOMAIN cmds : ~(cmds[i].nick = m /\ decided[i] = <<>>)
    BY DEF InQuestion
  <2>2. \A x \in {up[Bot], answers, down[Bot]} : \A k \in DOMAIN x : ~(x[k].cmd = "STATUS" /\ x[k].nick = m)
    BY DEF InQuestion
  <2>. QED  BY <2>1, <2>2 DEF Pending, StatusOf
<1>12. \A i \in Pending : cmds[i].nick \in Nicks
  BY CommandFacts DEF Pending
<1>13. \A i \in Pending : cmds[i].nick \notin moved' => Quiet(cmds[i].nick) /\ cmds[i].nick \notin moved
  BY <1>9, <1>10, <1>11, <1>12
<1>14. Sourced'
  <2>1. \A k \in Sent(q) : q[k].nick = cmds[q[k].id].nick /\ (q[k].account = "owner" => cmds[q[k].id].is = "owner")
    BY DEF Identity, Sourced, q
  <2>2. ASSUME NEW k \in Sent(down'[Bot])
        PROVE  /\ down'[Bot][k].nick = cmds[down'[Bot][k].id].nick
               /\ down'[Bot][k].account = "owner" => cmds[down'[Bot][k].id].is = "owner"
    BY <1>2, <1>6, <2>1, Zenon
  <2>3. \A m \in Nicks : \A k \in DOMAIN waiting[m] : cmds[waiting[m][k]].nick = m
    BY DEF Identity, Sourced
  <2>. QED  BY <1>1, <2>2, <2>3 DEF Sourced, Sent
<1>15. \A x : x \in {answers, q} => \A k \in StatusOf(x) : x[k].nick \in Nicks
  <2>1. answers \in Seq(Answer)
    BY DEF Typed
  <2>2. \A k \in StatusOf(answers) : answers[k] \in Answer
    BY <2>1 DEF StatusOf
  <2>3. \A k \in StatusOf(answers) : answers[k].nick \in Nicks
    BY <2>2 DEF Answer
  <2>4. \A k \in StatusOf(q) : q[k] \in DownLine /\ q[k].cmd = "STATUS"
    BY <1>2 DEF StatusOf
  <2>5. \A k \in StatusOf(q) : q[k].nick \in Nicks
    BY <2>4, DownFacts DEF Answer
  <2>. QED  BY <2>3, <2>5
<1>16. Fresh'
  <2>. HIDE DEF Now, Quiet
  <2>1. \A i \in Pending : cmds[i].nick \notin moved' => cmds[i].is = Now(cmds[i].nick)
    BY <1>8, <1>12, <1>13 DEF Identity, Fresh
  <2>2. \A x : x \in {answers, q} =>
          \A k \in StatusOf(x) : x[k].nick \notin moved' => x[k].who = Now(x[k].nick)
    <3>. SUFFICES ASSUME NEW x, x \in {answers, q}, NEW k \in StatusOf(x), x[k].nick \notin moved'
                  PROVE  x[k].who = Now(x[k].nick)
      OBVIOUS
    <3>1. x[k].nick \in Nicks
      BY <1>15
    <3>2. Quiet(x[k].nick) /\ x[k].nick \notin moved
      BY <1>9, <1>10, <1>11, <3>1 DEF q
    <3>3. Truthful(x)
      BY DEF Identity, Fresh, q
    <3>4. x[k].who = Identified(x[k].nick)
      BY <3>2, <3>3 DEF Truthful
    <3>. QED  BY <1>8, <3>1, <3>2, <3>4
  <2>3. \A k \in StatusOf(down'[Bot]) :
          down'[Bot][k].nick \notin moved' => down'[Bot][k].who = Now(down'[Bot][k].nick)
    <3>1. \A k \in StatusOf(q) : q[k].nick \notin moved' => q[k].who = Now(q[k].nick)
      BY <2>2
    <3>. QED  BY <1>2, <1>6, <3>1
  <2>4. Truthful(answers)'
    BY <1>1, <2>2 DEF Truthful, StatusOf, Identified, Now
  <2>5. Truthful(down[Bot])'
    BY <2>3 DEF Truthful, StatusOf, Identified, Now
  <2>. QED  BY <1>1, <1>7, <2>1, <2>4, <2>5 DEF Fresh, Identified, Now
<1>17. ASSUME NEW m \in Nicks, cache[m] = "owner", m \notin moved' PROVE CacheIsSafe(m)'
  <2>1. CacheIsSafe(m)
    BY <1>1, <1>10, <1>17 DEF Identity, Cautious
  <2>2. Identified(m)' = "owner" \/ Announced(down'[Bot], m) # {}
    <3>1. CASE Quiet(m)
      <4>1. Identified(m)' = Identified(m)
        BY <1>8, <3>1 DEF Identified
      <4>. QED  BY <1>2, <1>6, <2>1, <4>1 DEF CacheIsSafe, q
    <3>2. CASE ~Quiet(m) /\ nickOf[u] # Off
      BY <1>2, <1>5, <1>6, <1>9, <1>17, <3>2
    <3>3. CASE ~Quiet(m) /\ nickOf[u] = Off
      <4>1. m = n /\ m # Off
        BY <1>2, <3>3
      <4>2. \A v \in Users : nickOf[v] # m
        BY <1>1, <4>1
      <4>3. Identified(m) # "owner"
        BY <4>2 DEF Identified
      <4>. QED  BY <1>2, <1>6, <2>1, <4>3 DEF CacheIsSafe, q
    <3>. QED  BY <3>1, <3>2, <3>3
  <2>3. \A i \in Pending : cmds[i].nick = m /\ cmds[i].is # "owner" => Follows(down'[Bot], m, i)
    BY <1>2, <1>6, <2>1 DEF CacheIsSafe, q
  <2>. QED  BY <1>1, <1>7, <2>2, <2>3, ZenonT(40) DEF CacheIsSafe, Announced, Follows, Renames, Sent
<1>18. Cautious'
  BY <1>1, <1>17 DEF Cautious
<1>19. IdentityIsCurrent'
  BY <1>1 DEF Identity, IdentityIsCurrent
<1>. QED  BY <1>14, <1>16, <1>18, <1>19 DEF Identity

LEMMA IdentityNext == ASSUME Typed, Kept, Identity, RegNext PROVE Identity'
<1>1. CASE Register \/ Negotiates
  <2>1. Negotiated
    BY <1>1, NegotiationShape
  <2>2. UNCHANGED <<cmds, nickOf, moved, decided, waiting, answers, cache>> /\ b.phase # "lost"
    BY <2>1 DEF Negotiated, lookupVars, serviceVars, userVars
  <2>3. Decides /\ WaitersSourced /\ Pending' \subseteq Pending
    BY <2>2, NothingDecided
  <2>4. CASE down' = down
    BY <2>2, <2>3, <2>4, IdentityStill
  <2>5. CASE down[Bot] # <<>> /\ Head(down[Bot]).cmd # "NICK" /\ down' = [down EXCEPT ![Bot] = Tail(@)]
    <3>1. \A n \in Nicks : ~Renames(Head(down[Bot]), n)
      BY <2>5 DEF Renames
    <3>. QED  BY <2>2, <2>3, <2>5, <3>1, IdentityTaken
  <2>. QED  BY <2>1, <2>4, <2>5 DEF Negotiated
<1>2. CASE Server
  <2>1. Served
    BY <1>2, ServerShape
  <2>2. PICK r \in Seq(ServerLine) : down' = [down EXCEPT ![Bot] = @ \o r]
    BY <2>1 DEF Served
  <2>3. r \in Seq(DownLine) /\ \A k \in DOMAIN r : r[k].cmd # "PRIVMSG" /\ r[k].cmd # "STATUS"
    BY ServerLines, SeqMonotonic
  <2>4. Sent(r) = {} /\ StatusOf(r) = {}
    BY <2>3 DEF Sent, StatusOf
  <2>5. UNCHANGED <<cmds, nickOf, moved, cache, waiting, decided, b, answers>>
    BY <2>1 DEF Served, lookupVars, userVars
  <2>. QED  BY <2>2, <2>3, <2>4, <2>5, IdentityGot
<1>3. CASE \E n \in asked : ServicesLook(n)
  <2>1. PICK n \in asked : ServicesLook(n)
    BY <1>3
  <2>2. /\ answers' = Append(answers, [cmd |-> "STATUS", nick |-> n, who |-> Identified(n)])
        /\ UNCHANGED <<b, down, cmds, nickOf, moved, cache, waiting, decided>>
    BY <2>1 DEF ServicesLook, lookupVars, userVars
  <2>3. Decides /\ WaitersSourced /\ Pending' \subseteq Pending
    BY <2>2, NothingDecided
  <2>. QED  BY <2>2, <2>3, IdentityStill
<1>4. CASE ServicesAnswer
  <2>. DEFINE r == <<Head(answers)>>
  <2>1. /\ answers # <<>> /\ answers' = Tail(answers) /\ down' = [down EXCEPT ![Bot] = @ \o r]
        /\ UNCHANGED <<cmds, nickOf, moved, cache, waiting, decided, b>>
    BY <1>4 DEF ServicesAnswer, Answers, lookupVars, userVars
  <2>2. answers \in Seq(Answer)
    BY DEF Typed
  <2>3. /\ Head(answers) = answers[1] /\ Head(answers) \in Answer /\ 1 \in DOMAIN answers
        /\ \A k \in DOMAIN Tail(answers) : k + 1 \in DOMAIN answers /\ Tail(answers)[k] = answers[k + 1]
    BY <2>1, <2>2, Tailed
  <2>4. Head(answers).cmd = "STATUS" /\ Head(answers) \in DownLine
    BY <2>3 DEF Answer, DownLine
  <2>5. r \in Seq(DownLine) /\ DOMAIN r = {1} /\ r[1] = Head(answers)
    BY <2>4, OneLine
  <2>. HIDE DEF r
  <2>6. Sent(r) = {} /\ \A k \in StatusOf(r) : \E j \in StatusOf(answers) : r[k] = answers[j]
    BY <2>3, <2>4, <2>5 DEF Sent, StatusOf
  <2>7. \A k \in StatusOf(answers') : \E j \in StatusOf(answers) : answers'[k] = answers[j]
    BY <2>1, <2>3 DEF StatusOf
  <2>. QED  BY <2>1, <2>5, <2>6, <2>7, IdentityGot
<1>5. CASE \E n \in Nicks : LookupTimeout(n)
  <2>1. PICK n \in Nicks : LookupTimeout(n)
    BY <1>5
  <2>2. Finish(n, "none", FALSE) /\ UNCHANGED <<b, down, answers, cmds, nickOf, moved>> /\ "none" \in Who
    BY <2>1 DEF LookupTimeout, serviceVars, userVars, Who
  <2>3. /\ Decides /\ WaitersSourced /\ Pending' \subseteq Pending
        /\ \A m \in Nicks : cache'[m] = "owner" => cache[m] = "owner"
    BY <2>2, FinishIdentity
  <2>. QED  BY <2>2, <2>3, IdentityStill
<1>6. CASE \E n \in Nicks : CacheExpires(n)
  <2>1. PICK n \in Nicks : CacheExpires(n)
    BY <1>6
  <2>2. /\ cache' = [cache EXCEPT ![n] = "absent"]
        /\ UNCHANGED <<b, down, answers, waiting, decided, cmds, nickOf, moved>>
    BY <2>1 DEF CacheExpires, serviceVars, userVars
  <2>3. Decides /\ WaitersSourced /\ Pending' \subseteq Pending
    BY <2>2, NothingDecided
  <2>4. \A m \in Nicks : cache'[m] = "owner" => cache[m] = "owner"
    BY <2>2 DEF Typed
  <2>. QED  BY <2>2, <2>3, <2>4, IdentityStill
<1>. QED  BY <1>1, <1>2, <1>3, <1>4, <1>5, <1>6, PrivmsgIdentity, IsAdminIdentity, NoticeIdentity, RenamedIdentity,
             LostIdentity, SaysIdentity, MovesIdentity DEF RegNext, Lookups, World

----------------------------------------------------------------------------
(* The bot logs in before it is registered.                                *)

LEMMA JoinedLines ==
  ASSUME NEW S, NEW q \in Seq(S), NEW r \in Seq(S)
  PROVE  /\ \A k \in DOMAIN (q \o r) : (k \in DOMAIN q /\ (q \o r)[k] = q[k]) \/ \E j \in DOMAIN r : (q \o r)[k] = r[j]
         /\ q # <<>> => q \o r # <<>> /\ Head(q \o r) = Head(q)
<1>1. /\ \A k \in DOMAIN q : k \in DOMAIN (q \o r) /\ (q \o r)[k] = q[k]
      /\ \A k \in DOMAIN (q \o r) : k \in DOMAIN q \/ \E j \in DOMAIN r : k = Len(q) + j /\ (q \o r)[k] = r[j]
      /\ q \o r \in Seq(S)
  BY Joined, SMTT(60)
<1>2. ASSUME q # <<>> PROVE q \o r # <<>> /\ Head(q \o r) = Head(q)
  <2>1. 1 \in DOMAIN q /\ Head(q) = q[1]
    BY <1>2, Tailed
  <2>2. 1 \in DOMAIN (q \o r) /\ (q \o r)[1] = q[1]
    BY <1>1, <2>1
  <2>. DEFINE s == q \o r
  <2>3. s \in Seq(S) /\ 1 \in DOMAIN s
    BY <1>1, <2>2
  <2>. HIDE DEF s
  <2>4. s # <<>> /\ Head(s) = s[1]
    BY <2>3
  <2>. QED  BY <2>1, <2>2, <2>4 DEF s
<1>. QED  BY <1>1, <1>2

\* The bot says lines that ask for no more than it may.
LEMMA LoginSaid ==
  ASSUME Typed, LoginFirst, conf' = conf, srv' = srv, NEW ls \in Seq(UpLine),
         up' = [up EXCEPT ![Bot] = @ \o ls],
         down' = down \/ (down[Bot] # <<>> /\ down' = [down EXCEPT ![Bot] = Tail(@)]),
         \A k \in DOMAIN ls : AsksLoggedIn(ls[k]),
         b'.ended \/ b'.phase = "on" => srv.login, b.phase \notin {"off", "lost"}
  PROVE  LoginFirst'
<1>. DEFINE q == up[Bot]
<1>1. /\ q \in Seq(UpLine) /\ down[Bot] \in Seq(DownLine) /\ up'[Bot] = q \o ls
      /\ down'[Bot] = down[Bot] \/ (down[Bot] # <<>> /\ down'[Bot] = Tail(down[Bot]))
  BY TypedConf DEF Typed
<1>. HIDE DEF q
<1>2. \A k \in DOMAIN down'[Bot] : LoggedInOn(down'[Bot][k])
  <2>1. CASE down'[Bot] = down[Bot]
    BY <2>1 DEF LoginFirst
  <2>2. CASE down[Bot] # <<>> /\ down'[Bot] = Tail(down[Bot])
    <3>1. \A k \in DOMAIN Tail(down[Bot]) : k + 1 \in DOMAIN down[Bot] /\ Tail(down[Bot])[k] = down[Bot][k + 1]
      BY <1>1, <2>2, Tailed
    <3>. QED  BY <2>2, <3>1 DEF LoginFirst
  <2>. QED  BY <1>1, <2>1, <2>2
<1>3. /\ \A k \in DOMAIN (q \o ls) : (k \in DOMAIN q /\ (q \o ls)[k] = q[k]) \/ \E j \in DOMAIN ls : (q \o ls)[k] = ls[j]
      /\ q # <<>> => q \o ls # <<>> /\ Head(q \o ls) = Head(q)
  BY <1>1, JoinedLines
<1>4. \A k \in DOMAIN q : AsksLoggedIn(q[k])
  BY DEF LoginFirst, q
<1>5. \A k \in DOMAIN up'[Bot] : AsksLoggedIn(up'[Bot][k])
  BY <1>1, <1>3, <1>4, ZenonT(40)
<1>6. HeldOpen'
  <2>1. CASE srv.login \/ srv.cap
    BY <2>1, Zenon DEF HeldOpen
  <2>2. CASE ~(srv.login \/ srv.cap)
    <3>1. /\ ~srv.nick /\ ~srv.user
          /\ IF q = <<>> THEN b.phase \in {"off", "lost"} ELSE Head(q).cmd = "CAP LS"
      BY <2>2, Zenon DEF LoginFirst, HeldOpen, q
    <3>2. q # <<>> /\ Head(q).cmd = "CAP LS"
      BY <3>1, Zenon
    <3>3. up'[Bot] # <<>> /\ Head(up'[Bot]) = Head(q)
      BY <1>1, <1>3, <3>2, Zenon
    <3>. QED  BY <3>1, <3>2, <3>3, Zenon DEF HeldOpen
  <2>. QED  BY <2>1, <2>2
<1>. QED  BY <1>2, <1>6, <1>5, Zenon DEF LoginFirst, LoggedInOn, AsksLoggedIn

\* Lines get onto the bot's, of the users or of the services.
LEMMA LoginGot ==
  ASSUME Typed, LoginFirst, UNCHANGED <<conf, srv, b, up>>, NEW r \in Seq(DownLine),
         down' = [down EXCEPT ![Bot] = @ \o r], \A k \in DOMAIN r : r[k].cmd \in {"STATUS", "PRIVMSG", "NICK"}
  PROVE  LoginFirst'
<1>. DEFINE q == down[Bot]
<1>1. q \in Seq(DownLine) /\ down'[Bot] = q \o r
  BY TypedConf DEF Typed
<1>. HIDE DEF q
<1>2. \A k \in DOMAIN (q \o r) : (k \in DOMAIN q /\ (q \o r)[k] = q[k]) \/ \E j \in DOMAIN r : (q \o r)[k] = r[j]
  BY <1>1, JoinedLines
<1>3. \A k \in DOMAIN r : LoggedInOn(r[k])
  BY DEF LoggedInOn
<1>4. \A k \in DOMAIN down'[Bot] : LoggedInOn(down'[Bot][k])
  BY <1>1, <1>2, <1>3 DEF LoginFirst, q
<1>. QED  BY <1>4, Zenon DEF LoginFirst, LoggedInOn, AsksLoggedIn, HeldOpen

\* The server takes a line and says no more than it may.
LEMMA LoginServed ==
  ASSUME Typed, LoginFirst, UNCHANGED <<conf, b>>, NEW s \in ServerRec, NEW ls \in Seq(ServerLine), Knows(s, ls),
         up[Bot] # <<>>, up' = [up EXCEPT ![Bot] = Tail(@)],
         srv.login => s.login, s.login => conf.net.login, s.login \/ s.cap,
         \A k \in DOMAIN ls : /\ ls[k].cmd \in {"001", "903"} => s.login
                              /\ ls[k].cmd \in {"ACK", "NAK"} => "sasl" \in ls[k].caps
  PROVE  LoginFirst'
<1>. DEFINE r == ls \o IF Welcomes(s) THEN <<Msg("001")>> ELSE <<>>
            w == s.welcomed \/ Welcomes(s)
<1>1. srv' = [s EXCEPT !.welcomed = w] /\ down' = [down EXCEPT ![Bot] = @ \o r]
  BY DEF Knows, Answers
<1>2. srv'.login = s.login /\ srv'.cap = s.cap /\ srv'.nick = s.nick /\ srv'.user = s.user
  BY <1>1 DEF ServerRec
<1>3. \A k \in DOMAIN ls : ls[k].cmd \notin {"ACK", "NAK", "001", "903"} \/ s.login \/ "sasl" \in ls[k].caps
  OBVIOUS
<1>4. Welcomes(s) => s.login
  BY DEF Welcomes
<1>5. r \in Seq(ServerLine) /\ \A k \in DOMAIN r : (k \in DOMAIN ls /\ r[k] = ls[k]) \/ (r[k] = Msg("001") /\ Welcomes(s))
  <2>1. CASE Welcomes(s)
    <3>1. <<Msg("001")>> \in Seq(ServerLine) /\ DOMAIN <<Msg("001")>> = {1} /\ <<Msg("001")>>[1] = Msg("001")
      BY OneServerLine
    <3>. DEFINE e == <<Msg("001")>>
    <3>2. e \in Seq(ServerLine) /\ DOMAIN e = {1} /\ e[1] = Msg("001")
      BY <3>1
    <3>. HIDE DEF e
    <3>3. /\ ls \o e \in Seq(ServerLine)
          /\ \A k \in DOMAIN ls : (ls \o e)[k] = ls[k]
          /\ \A k \in DOMAIN (ls \o e) : k \in DOMAIN ls \/ \E j \in DOMAIN e : (ls \o e)[k] = e[j]
      BY <3>2, Joined, SMTT(60)
    <3>4. r = ls \o e
      BY <2>1 DEF e
    <3>. QED  BY <2>1, <3>2, <3>3, <3>4
  <2>2. CASE ~Welcomes(s)
    <3>1. r = ls
      BY <2>2
    <3>. QED  BY <3>1
  <2>. QED  BY <2>1, <2>2
<1>. HIDE DEF r, w
<1>6. \A k \in DOMAIN r : (r[k].cmd \in {"001", "903"} => s.login) /\ (r[k].cmd \in {"ACK", "NAK"} => "sasl" \in r[k].caps)
  BY <1>4, <1>5 DEF Msg
<1>7. r \in Seq(DownLine)
  BY <1>5, ServerLines, SeqMonotonic
<1>. DEFINE q == down[Bot]
            p == up[Bot]
<1>8. q \in Seq(DownLine) /\ down'[Bot] = q \o r /\ p \in Seq(UpLine) /\ p # <<>> /\ up'[Bot] = Tail(p)
  BY <1>1, TypedConf DEF Typed
<1>9. /\ \A k \in DOMAIN q : (q[k].cmd \in {"001", "903"} => srv.login) /\ (q[k].cmd \in {"ACK", "NAK"} => "sasl" \in q[k].caps)
      /\ \A k \in DOMAIN p : (p[k].cmd = "CAP END" => srv.login) /\ (p[k].cmd = "CAP REQ" => "sasl" \in p[k].caps)
  BY Zenon DEF LoginFirst, LoggedInOn, AsksLoggedIn
<1>. HIDE DEF q, p
<1>10. \A k \in DOMAIN (q \o r) : (k \in DOMAIN q /\ (q \o r)[k] = q[k]) \/ \E j \in DOMAIN r : (q \o r)[k] = r[j]
  BY <1>7, <1>8, JoinedLines
<1>11. \A k \in DOMAIN down'[Bot] : /\ down'[Bot][k].cmd \in {"001", "903"} => srv'.login
                                    /\ down'[Bot][k].cmd \in {"ACK", "NAK"} => "sasl" \in down'[Bot][k].caps
  <2>. SUFFICES ASSUME NEW k \in DOMAIN (q \o r)
                PROVE  /\ (q \o r)[k].cmd \in {"001", "903"} => s.login
                       /\ (q \o r)[k].cmd \in {"ACK", "NAK"} => "sasl" \in (q \o r)[k].caps
    BY <1>2, <1>8
  <2>1. CASE k \in DOMAIN q /\ (q \o r)[k] = q[k]
    BY <1>9, <2>1, Zenon
  <2>2. CASE \E j \in DOMAIN r : (q \o r)[k] = r[j]
    BY <1>6, <2>2
  <2>. QED  BY <1>10, <2>1, <2>2
<1>12. \A k \in DOMAIN up'[Bot] : /\ up'[Bot][k].cmd = "CAP END" => srv'.login
                                  /\ up'[Bot][k].cmd = "CAP REQ" => "sasl" \in up'[Bot][k].caps
  <2>1. \A k \in DOMAIN Tail(p) : k + 1 \in DOMAIN p /\ Tail(p)[k] = p[k + 1]
    BY <1>8, Tailed
  <2>2. ASSUME NEW k \in DOMAIN Tail(p)
        PROVE  /\ Tail(p)[k].cmd = "CAP END" => s.login
               /\ Tail(p)[k].cmd = "CAP REQ" => "sasl" \in Tail(p)[k].caps
    BY <1>9, <2>1, Zenon
  <2>. QED  BY <1>2, <1>8, <2>2, Zenon
<1>13. (b'.ended \/ b'.phase = "on" => srv'.login) /\ HeldOpen' /\ (srv'.login => conf'.net.login)
  BY <1>2, Zenon DEF LoginFirst, HeldOpen
<1>14. (\A k \in DOMAIN down[Bot] : LoggedInOn(down[Bot][k]))'
  BY <1>11 DEF LoggedInOn
<1>15. (\A k \in DOMAIN up[Bot] : AsksLoggedIn(up[Bot][k]))'
  BY <1>12, Zenon DEF AsksLoggedIn
<1>. QED  BY <1>13, <1>14, <1>15 DEF LoginFirst

LEMMA LoginHeard ==
  ASSUME Typed, LoginFirst, NEW c, Hears(c)
  PROVE  LoggedInOn(Heard) /\ b.phase \notin {"off", "lost"} /\ down[Bot] # <<>> /\ Heard.cmd = c
<1>1. down[Bot] \in Seq(DownLine) /\ down[Bot] # <<>> /\ Heard = Head(down[Bot]) /\ Heard.cmd = c
  BY HeardShape
<1>2. Heard = down[Bot][1] /\ 1 \in DOMAIN down[Bot]
  BY <1>1, Tailed
<1>. QED  BY <1>1, <1>2 DEF LoginFirst, Hears, Open

\* What a handler of the registration says, of a bot that has yet to log in.
LEMMA LoginNegotiated == ASSUME Typed, Guarded, LoginFirst, Register \/ Negotiates PROVE LoginFirst'
<1>. DEFINE good(ls) == ls \in Seq(UpLine) /\ \A k \in DOMAIN ls : AsksLoggedIn(ls[k])
<1>1. /\ conf.sasl /\ conf.net.grants # "split" /\ b \in BotRec /\ conf.nicks \in Seq(Name) /\ conf.nicks # <<>>
      /\ b.ended \/ b.phase = "on" => srv.login
  BY TypedConf DEF Guarded, LoginFirst, Typed
<1>2. \A x : DOMAIN <<x>> = {1} /\ <<x>>[1] = x
  OBVIOUS
<1>3. good(<<>>) /\ good(<<Msg("QUIT")>>) /\ good(<<Msg("JOIN")>>) /\ good(<<Msg("AUTHENTICATE PLAIN")>>)
      /\ (srv.login => good(<<Msg("CAP END")>>))
  <2>1. /\ <<Msg("QUIT")>> \in Seq(UpLine) /\ <<Msg("JOIN")>> \in Seq(UpLine) /\ <<>> \in Seq(UpLine)
        /\ <<Msg("AUTHENTICATE PLAIN")>> \in Seq(UpLine) /\ <<Msg("CAP END")>> \in Seq(UpLine)
    BY OneUpLine, Zenon
  <2>2. /\ AsksLoggedIn(Msg("QUIT")) /\ AsksLoggedIn(Msg("JOIN")) /\ AsksLoggedIn(Msg("AUTHENTICATE PLAIN"))
        /\ srv.login => AsksLoggedIn(Msg("CAP END"))
    BY DEF AsksLoggedIn, Msg
  <2>3. DOMAIN <<>> = {}
    OBVIOUS
  <2>. QED  BY <1>2, <2>1, <2>2, <2>3, Zenon
<1>4. \A ls : good(ls) /\ Says(ls) /\ NoLookup /\ down[Bot] # <<>> /\ b.phase \notin {"off", "lost"}
              /\ (b'.ended \/ b'.phase = "on" => srv.login) => LoginFirst'
  <2>. SUFFICES ASSUME NEW ls, good(ls), Says(ls), NoLookup, down[Bot] # <<>>, b.phase \notin {"off", "lost"},
                       b'.ended \/ b'.phase = "on" => srv.login
                PROVE  LoginFirst'
    OBVIOUS
  <2>. QED  BY LoginSaid DEF Says, Sends, NoLookup
<1>. HIDE DEF good
<1>5. NoLookup /\ FailSasl /\ down[Bot] # <<>> /\ b.phase \notin {"off", "lost"} => LoginFirst'
  <2>. SUFFICES ASSUME NoLookup, FailSasl, down[Bot] # <<>>, b.phase \notin {"off", "lost"} PROVE LoginFirst'
    OBVIOUS
  <2>1. b'.ended \/ b'.phase = "on" => srv.login
    BY <1>1 DEF FailSasl, BotRec
  <2>. QED  BY <1>3, <1>4, <2>1, Zenon DEF FailSasl
<1>6. CASE Register
  <2>. DEFINE n == [cmd |-> "NICK", nick |-> conf.nicks[1]]
              ls == <<Msg("CAP LS"), n, Msg("USER")>>
  <2>1. /\ b.phase = "off" /\ ~srv.nick /\ ~srv.user /\ b' = [NewBot EXCEPT !.phase = "registering", !.nick = conf.nicks[1]]
        /\ up' = [up EXCEPT ![Bot] = @ \o ls] /\ down' = down /\ conf' = conf /\ srv' = srv
    BY <1>6, Zenon DEF Register, Sends, NoLookup
  <2>2. /\ Msg("CAP LS") \in UpLine /\ Msg("USER") \in UpLine /\ n \in UpLine
    <3>1. conf.nicks[1] \in Name
      BY <1>1
    <3>. QED  BY <3>1, UpShapes, Zenon
  <2>3. AsksLoggedIn(Msg("CAP LS")) /\ AsksLoggedIn(n) /\ AsksLoggedIn(Msg("USER")) /\ Msg("CAP LS").cmd = "CAP LS"
    BY DEF AsksLoggedIn, Msg
  <2>4. \A S : \A x, y, z \in S : <<x, y, z>> \in Seq(S)
    OBVIOUS
  <2>5. \A x, y, z : DOMAIN <<x, y, z>> = 1..3
    OBVIOUS
  <2>6. \A x, y, z : <<x, y, z>>[1] = x /\ <<x, y, z>>[2] = y /\ <<x, y, z>>[3] = z
    OBVIOUS
  <2>7. ls \in Seq(UpLine)
    BY <2>2, <2>4, Zenon
  <2>8. DOMAIN ls = 1..3 /\ ls[1] = Msg("CAP LS") /\ ls[2] = n /\ ls[3] = Msg("USER")
    BY <2>5, <2>6
  <2>9. b'.phase = "registering" /\ ~b'.ended
    BY <2>1, Zenon DEF NewBot
  <2>. DEFINE q == up[Bot]
  <2>10. q \in Seq(UpLine) /\ up'[Bot] = q \o ls
    BY <2>1, TypedConf, Zenon DEF Typed
  <2>. HIDE DEF ls, n, q
  <2>11. ls # <<>> /\ Head(ls).cmd = "CAP LS"
    <3>1. ls # <<>>
      <4>1. DOMAIN <<>> = {} /\ 1 \in 1..3
        OBVIOUS
      <4>. QED  BY <2>8, <4>1, Zenon
    <3>2. Head(ls) = ls[1]
      BY <2>7, <3>1, Tailed
    <3>. QED  BY <2>3, <2>8, <3>1, <3>2, Zenon
  <2>12. \A k \in DOMAIN ls : AsksLoggedIn(ls[k])
    <3>1. \A k \in 1..3 : k = 1 \/ k = 2 \/ k = 3
      OBVIOUS
    <3>. QED  BY <2>3, <2>8, <3>1, Zenon
  <2>13. /\ \A k \in DOMAIN (q \o ls) : (k \in DOMAIN q /\ (q \o ls)[k] = q[k]) \/ \E j \in DOMAIN ls : (q \o ls)[k] = ls[j]
         /\ q # <<>> => q \o ls # <<>> /\ Head(q \o ls) = Head(q)
    BY <2>10, <2>7, JoinedLines
  <2>14. \A k \in DOMAIN up'[Bot] : AsksLoggedIn(up'[Bot][k])
    BY <2>10, <2>12, <2>13 DEF LoginFirst, q
  <2>15. HeldOpen'
    <3>1. CASE srv.login \/ srv.cap
      BY <2>1, <3>1, Zenon DEF HeldOpen
    <3>2. CASE ~(srv.login \/ srv.cap) /\ q = <<>>
      <4>1. <<>> \o ls = ls
        BY <2>7
      <4>2. up'[Bot] = ls
        BY <2>10, <3>2, <4>1
      <4>. QED  BY <2>1, <2>11, <4>2, Zenon DEF HeldOpen
    <3>3. CASE ~(srv.login \/ srv.cap) /\ q # <<>>
      <4>1. Head(q).cmd = "CAP LS"
        BY <3>3, Zenon DEF LoginFirst, HeldOpen, q
      <4>. QED  BY <2>1, <2>10, <2>13, <3>3, <4>1, Zenon DEF HeldOpen
    <3>. QED  BY <3>1, <3>2, <3>3
  <2>. QED  BY <2>1, <2>9, <2>14, <2>15, Zenon DEF LoginFirst, LoggedInOn, AsksLoggedIn
<1>7. CASE irc_CAP_LS
  <2>1. Hears("LS") /\ NoLookup
    BY <1>7 DEF irc_CAP_LS
  <2>2. Heard.caps \in SUBSET Cap /\ down[Bot] # <<>> /\ b.phase \notin {"off", "lost"}
    BY <2>1, HeardShape, DownFacts, LoginHeard
  <2>. DEFINE r == [b EXCEPT !.ls = @ \cup Heard.caps,
                             !.plain = IF "sasl" \in Heard.caps THEN Heard.plain ELSE @]
              want == r.ls \cap (AccountCaps \cup IF conf.sasl THEN {"sasl"} ELSE {})
  <2>3. r.ended = b.ended /\ r.phase = b.phase /\ r.ls \in SUBSET Cap
    BY <1>1, <2>2 DEF BotRec
  <2>4. (b' = r /\ Says(<<>>)) \/ FailSasl \/ ("sasl" \in r.ls /\ Request(r))
    BY <1>1, <1>7 DEF irc_CAP_LS
  <2>5. CASE "sasl" \in r.ls /\ Request(r)
    <3>1. "sasl" \in want /\ want \in SUBSET Cap
      BY <1>1, <2>3, <2>5
    <3>2. b' = r /\ Says(<<[cmd |-> "CAP REQ", caps |-> want]>>)
      BY <2>5, <3>1, Zenon DEF Request
    <3>. HIDE DEF want
    <3>3. AsksLoggedIn([cmd |-> "CAP REQ", caps |-> want])
      BY <3>1 DEF AsksLoggedIn
    <3>4. good(<<[cmd |-> "CAP REQ", caps |-> want]>>)
      BY <1>2, <3>1, <3>3, OneUpLine, Zenon DEF good
    <3>. QED  BY <1>1, <1>4, <2>1, <2>2, <2>3, <3>2, <3>4, Zenon
  <2>. QED  BY <1>1, <1>3, <1>4, <1>5, <2>1, <2>2, <2>3, <2>4, <2>5, Zenon
<1>8. CASE irc_CAP_ACK
  <2>1. Hears("ACK") /\ NoLookup
    BY <1>8, Zenon DEF irc_CAP_ACK
  <2>2. "sasl" \in Heard.caps /\ down[Bot] # <<>> /\ b.phase \notin {"off", "lost"}
    BY <2>1, LoginHeard DEF LoggedInOn
  <2>3. b' = [b EXCEPT !.caps = @ \cup Heard.caps] /\ Says(<<Msg("AUTHENTICATE PLAIN")>>)
    BY <1>1, <1>8, <2>2, Zenon DEF irc_CAP_ACK
  <2>4. b'.ended = b.ended /\ b'.phase = b.phase
    BY <1>1, <2>3, Zenon DEF BotRec
  <2>. QED  BY <1>1, <1>3, <1>4, <2>1, <2>2, <2>3, <2>4, Zenon
<1>9. CASE irc_CAP_NAK
  <2>1. Hears("NAK") /\ NoLookup
    BY <1>9 DEF irc_CAP_NAK
  <2>2. "sasl" \in Heard.caps /\ down[Bot] # <<>> /\ b.phase \notin {"off", "lost"}
    BY <2>1, LoginHeard DEF LoggedInOn
  <2>. QED  BY <1>1, <1>5, <1>9, <2>1, <2>2 DEF irc_CAP_NAK
<1>10. CASE irc_AUTHENTICATE
  <2>. DEFINE ls == [i \in DOMAIN Parts(conf.payload) |-> [cmd |-> "PAYLOAD", len |-> Parts(conf.payload)[i]]]
  <2>1. Hears("AUTHENTICATE") /\ NoLookup
        /\ ((Says(<<>>) /\ UNCHANGED b) \/ (b' = [b EXCEPT !.paid = TRUE] /\ Says(ls)))
    BY <1>10 DEF irc_AUTHENTICATE
  <2>2. ls \in Seq(UpLine)
    BY PayloadLines
  <2>3. \A k \in DOMAIN ls : AsksLoggedIn(ls[k])
    BY Zenon DEF AsksLoggedIn
  <2>. HIDE DEF ls
  <2>4. good(ls)
    BY <2>2, <2>3 DEF good
  <2>5. b'.ended = b.ended /\ b'.phase = b.phase
    BY <1>1, <2>1 DEF BotRec
  <2>6. down[Bot] # <<>> /\ b.phase \notin {"off", "lost"}
    BY <2>1, LoginHeard
  <2>. QED  BY <1>1, <1>3, <1>4, <2>1, <2>4, <2>5, <2>6, Zenon
<1>11. CASE irc_RPL_SASLSUCCESS
  <2>1. Hears("903") /\ NoLookup /\ EndCap(b)
    BY <1>11 DEF irc_RPL_SASLSUCCESS
  <2>2. srv.login /\ down[Bot] # <<>> /\ b.phase \notin {"off", "lost"}
    BY <2>1, LoginHeard DEF LoggedInOn
  <2>3. good(EndLines(b)) /\ Says(EndLines(b))
    BY <1>3, <2>1, <2>2, Zenon DEF EndLines, EndCap
  <2>. QED  BY <1>4, <2>1, <2>2, <2>3
<1>12. CASE irc_ERR_SASLFAIL
  <2>1. Hears("904") /\ NoLookup /\ FailSasl
    BY <1>12 DEF irc_ERR_SASLFAIL
  <2>. QED  BY <1>5, <2>1, LoginHeard
<1>13. CASE irc_ERR_NICKNAMEINUSE
  <2>. DEFINE n == alterCollidedNick(b.nick)
  <2>1. /\ Hears("433") /\ NoLookup /\ Says(<<[cmd |-> "NICK", nick |-> n]>>)
        /\ b' = [b EXCEPT !.nick = n, !.alt = IF @ + 1 < Len(conf.nicks) THEN @ + 1 ELSE @]
    BY <1>13 DEF irc_ERR_NICKNAMEINUSE
  <2>. HIDE DEF n
  <2>2. \E ls \in Seq(UpLine) : up' = [up EXCEPT ![Bot] = @ \o ls]
    BY <1>13, NegotiationShape DEF Negotiated, Negotiates
  <2>3. b'.ended = b.ended /\ b'.phase = b.phase
    BY <1>1, <2>1 DEF BotRec
  <2>4. n \in Name
    <3>1. b.nick \in Name /\ b.alt \in Nat
      BY <1>1, BotFields, Zenon
    <3>2. CASE b.alt + 1 < Len(conf.nicks)
      <4>1. b.alt + 2 \in 1..Len(conf.nicks)
        BY <1>1, <3>1, <3>2
      <4>. QED  BY <1>1, <3>2, <4>1 DEF alterCollidedNick, n
    <3>3. CASE ~(b.alt + 1 < Len(conf.nicks))
      BY <3>1, <3>3 DEF alterCollidedNick, Name, n
    <3>. QED  BY <3>2, <3>3
  <2>5. AsksLoggedIn([cmd |-> "NICK", nick |-> n])
    BY DEF AsksLoggedIn
  <2>6. good(<<[cmd |-> "NICK", nick |-> n]>>)
    BY <1>2, <2>4, <2>5, OneUpLine, Zenon DEF good
  <2>7. down[Bot] # <<>> /\ b.phase \notin {"off", "lost"}
    BY <2>1, LoginHeard
  <2>. QED  BY <1>1, <1>4, <2>1, <2>3, <2>6, <2>7
<1>14. CASE irc_RPL_WELCOME
  <2>1. Hears("001") /\ NoLookup /\ Says(<<Msg("JOIN")>>)
    BY <1>14 DEF irc_RPL_WELCOME
  <2>2. srv.login /\ down[Bot] # <<>> /\ b.phase \notin {"off", "lost"}
    BY <2>1, LoginHeard DEF LoggedInOn
  <2>. QED  BY <1>3, <1>4, <2>1, <2>2, Zenon
<1>15. CASE irc_unknown
  <2>1. /\ down[Bot] # <<>> /\ b.phase \notin {"off", "lost"} /\ Says(<<>>) /\ b' = b /\ NoLookup
    BY <1>15 DEF irc_unknown, Open
  <2>. QED  BY <1>1, <1>3, <1>4, <2>1, Zenon
<1>. QED  BY <1>6, <1>7, <1>8, <1>9, <1>10, <1>11, <1>12, <1>13, <1>14, <1>15 DEF Negotiates

\* Until it logs in the bot is heard on nothing but its first line, or while a
\* negotiation is open.
LEMMA HeldHead ==
  ASSUME Typed, LoginFirst, up[Bot] # <<>>
  PROVE  (Taken.cmd # "CAP LS" => srv.login \/ srv.cap) /\ AsksLoggedIn(Taken)
<1>1. up[Bot] \in Seq(UpLine)
  BY TypedConf DEF Typed
<1>2. Taken = up[Bot][1] /\ 1 \in DOMAIN up[Bot]
  BY <1>1, Tailed DEF Taken
<1>. QED  BY <1>2, Zenon DEF LoginFirst, HeldOpen, Taken

LEMMA LoginAtServer == ASSUME Typed, Guarded, LoginFirst, Server PROVE LoginFirst'
<1>. DEFINE fine(s, ls) ==
              \A k \in DOMAIN ls : /\ ls[k].cmd \in {"001", "903"} => s.login
                                   /\ ls[k].cmd \in {"ACK", "NAK"} => "sasl" \in ls[k].caps
<1>1. /\ srv \in ServerRec /\ conf.net.cap /\ conf.net.grants # "split" /\ (srv.login => conf.net.login)
      /\ conf.net.login \in BOOLEAN
  BY TypedConf DEF Typed, Guarded, LoginFirst
<1>2. up[Bot] # <<>> /\ up' = [up EXCEPT ![Bot] = Tail(@)] /\ UNCHANGED <<conf, b>>
  BY ServerShape DEF Served
<1>3. ASSUME NEW s \in ServerRec, NEW ls \in Seq(ServerLine), Knows(s, ls), fine(s, ls),
             srv.login => s.login, s.login => conf.net.login, s.login \/ s.cap
      PROVE  LoginFirst'
  BY <1>2, <1>3, LoginServed
<1>4. \A x : DOMAIN <<x>> = {1} /\ <<x>>[1] = x
  OBVIOUS
<1>5. \A s : /\ fine(s, <<>>) /\ fine(s, <<Msg("421")>>) /\ fine(s, <<Msg("433")>>) /\ fine(s, <<Msg("904")>>)
             /\ fine(s, <<Msg("AUTHENTICATE")>>) /\ (s.login => fine(s, <<Msg("903")>>))
  <2>1. DOMAIN <<>> = {}
    OBVIOUS
  <2>. QED  BY <1>4, <2>1 DEF Msg
<1>6. /\ <<>> \in Seq(ServerLine) /\ <<Msg("433")>> \in Seq(ServerLine) /\ <<Msg("AUTHENTICATE")>> \in Seq(ServerLine)
      /\ <<Msg("903")>> \in Seq(ServerLine) /\ <<Msg("904")>> \in Seq(ServerLine)
  BY OneServerLine
<1>7. (Taken.cmd # "CAP LS" => srv.login \/ srv.cap) /\ AsksLoggedIn(Taken)
  BY <1>2, HeldHead, Zenon
<1>. HIDE DEF fine
<1>8. CASE ServerCapLs
  <2>. DEFINE a == <<Offers(conf.net.caps, FALSE)>>
              c == <<Offers(conf.net.caps \cap {"sasl"}, TRUE), Offers(conf.net.caps \ {"sasl"}, FALSE)>>
              s == [srv EXCEPT !.cap = TRUE]
  <2>1. s \in ServerRec /\ s.login = srv.login /\ s.cap
    BY <1>1 DEF ServerRec
  <2>2. a \in Seq(ServerLine) /\ c \in Seq(ServerLine)
    <3>1. conf.net.caps \in SUBSET Cap /\ conf.net.caps \cap {"sasl"} \in SUBSET Cap
          /\ conf.net.caps \ {"sasl"} \in SUBSET Cap
      BY TypedConf
    <3>2. /\ Offers(conf.net.caps, FALSE) \in ServerLine /\ Offers(conf.net.caps \cap {"sasl"}, TRUE) \in ServerLine
          /\ Offers(conf.net.caps \ {"sasl"}, FALSE) \in ServerLine
      BY <3>1, OffersShape
    <3>3. \A x, y \in ServerLine : <<x>> \in Seq(ServerLine) /\ <<x, y>> \in Seq(ServerLine)
      OBVIOUS
    <3>. QED  BY <3>2, <3>3
  <2>3. Knows(s, a) \/ Knows(s, c)
    BY <1>1, <1>8, Zenon DEF ServerCapLs
  <2>4. fine(s, a) /\ fine(s, c)
    <3>1. \A x, m : Offers(x, m).cmd = "LS"
      BY DEF Offers
    <3>2. \A x, y : DOMAIN <<x, y>> = {1, 2} /\ <<x, y>>[1] = x /\ <<x, y>>[2] = y
      OBVIOUS
    <3>3. DOMAIN a = {1} /\ a[1].cmd = "LS"
      BY <1>4, <3>1
    <3>4. DOMAIN c = {1, 2} /\ c[1].cmd = "LS" /\ c[2].cmd = "LS"
      BY <3>1, <3>2
    <3>. HIDE DEF a, c
    <3>. QED  BY <3>3, <3>4 DEF fine
  <2>. HIDE DEF a, c, s
  <2>. QED  BY <1>1, <1>3, <2>1, <2>2, <2>3, <2>4
<1>9. CASE ServerRegisters
  <2>1. /\ Taken.cmd # "CAP LS"
        /\ \/ Knows(srv, <<Msg("433")>>) \/ Knows([srv EXCEPT !.nick = TRUE], <<>>)
           \/ Knows([srv EXCEPT !.user = TRUE], <<>>)
           \/ Taken.cmd = "CAP END" /\ Knows([srv EXCEPT !.cap = FALSE], <<>>)
           \/ Knows(srv, <<>>)
    BY <1>9, Zenon DEF ServerRegisters, Takes, Taken
  <2>2. /\ [srv EXCEPT !.nick = TRUE] \in ServerRec /\ [srv EXCEPT !.user = TRUE] \in ServerRec
        /\ [srv EXCEPT !.cap = FALSE] \in ServerRec
    BY <1>1, ServerFields
  <2>3. /\ [srv EXCEPT !.nick = TRUE].login = srv.login /\ [srv EXCEPT !.nick = TRUE].cap = srv.cap
        /\ [srv EXCEPT !.user = TRUE].login = srv.login /\ [srv EXCEPT !.user = TRUE].cap = srv.cap
        /\ [srv EXCEPT !.cap = FALSE].login = srv.login
    BY <1>1 DEF ServerRec
  <2>4. Taken.cmd = "CAP END" => srv.login
    BY <1>7, Zenon DEF AsksLoggedIn
  <2>5. CASE Taken.cmd = "CAP END" /\ Knows([srv EXCEPT !.cap = FALSE], <<>>)
    BY <1>1, <1>3, <1>5, <1>6, <2>2, <2>3, <2>4, <2>5, Zenon
  <2>6. CASE Knows([srv EXCEPT !.nick = TRUE], <<>>)
    BY <1>1, <1>3, <1>5, <1>6, <1>7, <2>1, <2>2, <2>3, <2>6, Zenon
  <2>7. CASE Knows([srv EXCEPT !.user = TRUE], <<>>)
    BY <1>1, <1>3, <1>5, <1>6, <1>7, <2>1, <2>2, <2>3, <2>7, Zenon
  <2>8. CASE Knows(srv, <<Msg("433")>>) \/ Knows(srv, <<>>)
    BY <1>1, <1>3, <1>5, <1>6, <1>7, <2>1, <2>8, Zenon
  <2>. QED  BY <2>1, <2>5, <2>6, <2>7, <2>8, Zenon
<1>10. CASE ServerRequest
  <2>. DEFINE a == [cmd |-> "ACK", caps |-> Taken.caps]
              n == [cmd |-> "NAK", caps |-> Taken.caps]
  <2>1. Taken.cmd = "CAP REQ" /\ Takes("CAP REQ") /\ (Knows(srv, <<a>>) \/ Knows(srv, <<n>>))
    BY <1>1, <1>10, TypedConf, Zenon DEF ServerRequest, Takes, Taken
  <2>2. "sasl" \in Taken.caps
    BY <1>7, <2>1, Zenon DEF AsksLoggedIn
  <2>3. Taken.caps \in SUBSET Cap
    BY <2>1, TakesShape, UpFacts, Zenon
  <2>4. <<a>> \in Seq(ServerLine) /\ <<n>> \in Seq(ServerLine)
    BY <2>3, OneServerLine
  <2>5. fine(srv, <<a>>) /\ fine(srv, <<n>>)
    BY <1>4, <2>2 DEF fine
  <2>. HIDE DEF a, n
  <2>. QED  BY <1>1, <1>3, <1>7, <2>1, <2>4, <2>5, Zenon
<1>11. CASE ServerAuthenticate
  <2>1. /\ Taken.cmd # "CAP LS"
        /\ \/ Knows(srv, <<Msg("AUTHENTICATE")>>) \/ Knows(srv, <<>>)
           \/ conf.net.login /\ Knows([srv EXCEPT !.login = conf.net.login], <<Msg("903")>>)
           \/ ~conf.net.login /\ Knows([srv EXCEPT !.login = conf.net.login], <<Msg("904")>>)
    BY <1>1, <1>11, Zenon DEF ServerAuthenticate, Takes, Taken
  <2>. DEFINE s == [srv EXCEPT !.login = conf.net.login]
  <2>2. s \in ServerRec /\ s.login = conf.net.login /\ s.cap = srv.cap
    BY <1>1 DEF ServerRec
  <2>3. CASE Knows(srv, <<Msg("AUTHENTICATE")>>) \/ Knows(srv, <<>>)
    BY <1>1, <1>3, <1>5, <1>6, <1>7, <2>1, <2>3, Zenon
  <2>4. CASE conf.net.login /\ Knows(s, <<Msg("903")>>)
    <3>. HIDE DEF s
    <3>. QED  BY <1>1, <1>3, <1>5, <1>6, <1>7, <2>1, <2>2, <2>4, Zenon
  <2>5. CASE ~conf.net.login /\ Knows(s, <<Msg("904")>>)
    <3>. HIDE DEF s
    <3>. QED  BY <1>1, <1>3, <1>5, <1>6, <1>7, <2>1, <2>2, <2>5, Zenon
  <2>. QED  BY <2>1, <2>3, <2>4, <2>5, Zenon
<1>12. CASE ServerStatus \/ ServerQuit
  <2>1. Taken.cmd # "CAP LS" /\ Knows(srv, <<>>)
    BY <1>12, Zenon DEF ServerStatus, ServerQuit, Takes, Taken
  <2>. QED  BY <1>1, <1>3, <1>5, <1>6, <1>7, <2>1, Zenon
<1>. QED  BY <1>8, <1>9, <1>10, <1>11, <1>12 DEF Server

LEMMA LoginRequests == ASSUME NEW n \in Nicks PROVE \A k \in DOMAIN Requests(n) : AsksLoggedIn(Requests(n)[k])
<1>. DEFINE l == [cmd |-> "STATUS", nick |-> n]
<1>1. AsksLoggedIn(l)
  BY DEF AsksLoggedIn
<1>2. DOMAIN <<>> = {} /\ DOMAIN <<l>> = {1} /\ <<l>>[1] = l
  OBVIOUS
<1>. HIDE DEF l
<1>. QED  BY <1>1, <1>2 DEF Requests, l

\* What the users, the services and the lookups do asks for nothing.
LEMMA LoginElsewhere ==
  ASSUME Typed, Kept, LoginFirst, Lookups \/ ConnectionLost \/ World \/ \E n \in Nicks : LookupTimeout(n) \/ CacheExpires(n)
  PROVE  LoginFirst'
<1>1. <<>> \in Seq(UpLine) /\ \A k \in DOMAIN <<>> : AsksLoggedIn(<<>>[k])
  <2>1. DOMAIN <<>> = {}
    OBVIOUS
  <2>. QED  BY <2>1, OneUpLine, Zenon
<1>2. b.ended \/ b.phase = "on" => srv.login
  BY DEF LoginFirst
<1>3. CASE irc_PRIVMSG
  <2>1. Hears("PRIVMSG") /\ Heard \in Privmsg /\ UNCHANGED <<conf, b, srv>> /\ b.phase \notin {"off", "lost"}
        /\ down[Bot] # <<>> /\ (Says(Requests(Heard.nick)) \/ Says(<<>>))
    BY <1>3, HeardShape, DownFacts DEF irc_PRIVMSG, BotOnly
  <2>2. Heard.nick \in Nicks
    BY <2>1 DEF Privmsg
  <2>. DEFINE r == Requests(Heard.nick)
  <2>3. r \in Seq(UpLine) /\ \A k \in DOMAIN r : AsksLoggedIn(r[k])
    BY <2>2, RequestsShape, LoginRequests
  <2>. HIDE DEF r
  <2>4. ASSUME NEW ls \in Seq(UpLine), Says(ls), \A k \in DOMAIN ls : AsksLoggedIn(ls[k]) PROVE LoginFirst'
    BY <1>2, <2>1, <2>4, LoginSaid DEF Says, Sends
  <2>. QED  BY <1>1, <2>1, <2>3, <2>4 DEF r
<1>4. CASE irc_NOTICE \/ irc_NICK_QUIT
  <2>1. (Hears("STATUS") \/ Hears("NICK")) /\ Says(<<>>) /\ UNCHANGED <<conf, b, srv>>
    BY <1>4 DEF irc_NOTICE, irc_NICK_QUIT, BotOnly
  <2>2. b.phase \notin {"off", "lost"} /\ down[Bot] # <<>>
    BY <2>1 DEF Hears, Open
  <2>. QED  BY <1>1, <1>2, <2>1, <2>2, LoginSaid DEF Says, Sends
<1>5. CASE \E i \in asking : IsAdmin(i)
  <2>1. PICK i \in asking : IsAdmin(i)
    BY <1>5
  <2>2. UNCHANGED <<conf, b, srv, down>>
    BY <2>1 DEF IsAdmin, BotOnly
  <2>3. CASE up' = up
    BY <2>2, <2>3, Zenon DEF LoginFirst, LoggedInOn, AsksLoggedIn, HeldOpen
  <2>4. CASE b.phase = "on" /\ Sends(Requests(cmds[i].nick))
    <3>1. cmds[i].nick \in Nicks
      BY HeldCommands, CommandFacts DEF Held
    <3>. DEFINE r == Requests(cmds[i].nick)
    <3>2. r \in Seq(UpLine) /\ \A k \in DOMAIN r : AsksLoggedIn(r[k])
      BY <3>1, RequestsShape, LoginRequests
    <3>. HIDE DEF r
    <3>. QED  BY <1>2, <2>2, <2>4, <3>2, LoginSaid DEF Sends, r
  <2>. QED  BY <2>1, <2>3, <2>4 DEF IsAdmin
<1>6. CASE ConnectionLost
  <2>1. /\ b' = [b EXCEPT !.phase = "lost"] /\ UNCHANGED <<conf, srv>>
        /\ up' = [up EXCEPT ![Bot] = <<>>] /\ down' = [down EXCEPT ![Bot] = <<>>]
    BY <1>6 DEF ConnectionLost
  <2>2. b'.phase = "lost" /\ b'.ended = b.ended /\ up'[Bot] = <<>> /\ down'[Bot] = <<>> /\ DOMAIN <<>> = {}
    BY <2>1, TypedConf DEF Typed, BotRec
  <2>3. HeldOpen'
    BY <2>1, <2>2, Zenon DEF LoginFirst, HeldOpen
  <2>. QED  BY <2>1, <2>2, <2>3 DEF LoginFirst
<1>7. CASE ServicesAnswer
  <2>. DEFINE r == <<Head(answers)>>
  <2>1. answers # <<>> /\ answers \in Seq(Answer) /\ down' = [down EXCEPT ![Bot] = @ \o r] /\ UNCHANGED <<conf, srv, b, up>>
    BY <1>7 DEF ServicesAnswer, Answers, Typed
  <2>2. Head(answers) \in Answer
    BY <2>1, Tailed
  <2>3. Head(answers).cmd = "STATUS" /\ Head(answers) \in DownLine
    BY <2>2 DEF Answer, DownLine
  <2>4. r \in Seq(DownLine) /\ DOMAIN r = {1} /\ r[1] = Head(answers)
    BY <2>3, OneLine
  <2>. HIDE DEF r
  <2>. QED  BY <2>1, <2>3, <2>4, LoginGot
<1>8. CASE \E u \in Users, a \in BOOLEAN : UserSays(u, a)
  <2>1. PICK u \in Users, a \in BOOLEAN : UserSays(u, a)
    BY <1>8
  <2>. DEFINE l == [cmd |-> "PRIVMSG", id |-> Len(cmds'), nick |-> nickOf[u], admin |-> a,
                    account |-> IF "account" \in conf.net.caps THEN Identified(nickOf[u]) ELSE "none"]
              r == <<l>>
  <2>2. down' = [down EXCEPT ![Bot] = @ \o r] /\ UNCHANGED <<conf, srv, b, up>>
    BY <2>1 DEF UserSays, UserOnly, Answers
  <2>3. l \in DownLine /\ l.cmd = "PRIVMSG"
    <3>1. /\ cmds' = Append(cmds, [who |-> u, nick |-> nickOf[u], admin |-> a, is |-> Identified(nickOf[u])])
          /\ nickOf[u] # Off
      BY <2>1 DEF UserSays
    <3>2. cmds \in Seq(Command) /\ nickOf[u] \in Nicks
      BY <3>1 DEF Typed
    <3>3. Len(cmds') \in Nat
      BY <3>1, <3>2
    <3>4. (IF "account" \in conf.net.caps THEN Identified(nickOf[u]) ELSE "none") \in Who
      BY DEF Identified, Who
    <3>5. l \in Privmsg
      BY <3>2, <3>3, <3>4 DEF Privmsg
    <3>. QED  BY <3>5 DEF DownLine
  <2>. HIDE DEF l
  <2>4. r \in Seq(DownLine) /\ DOMAIN r = {1} /\ r[1] = l
    BY <2>3, OneLine
  <2>. HIDE DEF r
  <2>. QED  BY <2>2, <2>3, <2>4, LoginGot
<1>9. CASE \E u \in Users, n \in Nicks \cup {Off}, v \in BOOLEAN : UserMoves(u, n, v)
  <2>1. PICK u \in Users, n \in Nicks \cup {Off}, v \in BOOLEAN : UserMoves(u, n, v)
    BY <1>9
  <2>. DEFINE l == [cmd |-> "NICK", nick |-> nickOf[u], new |-> n]
              r == IF v /\ nickOf[u] # Off THEN <<l>> ELSE <<>>
  <2>2. down' = [down EXCEPT ![Bot] = @ \o r] /\ UNCHANGED <<conf, srv, b, up>>
    BY <2>1 DEF UserMoves, UserOnly, Answers
  <2>3. nickOf[u] # Off => l \in DownLine
    <3>1. ASSUME nickOf[u] # Off PROVE nickOf[u] \in Nicks
      BY <3>1 DEF Typed
    <3>2. \A x \in Nicks, y \in Nicks \cup {Off} : [cmd |-> "NICK", nick |-> x, new |-> y] \in DownLine
      BY DEF DownLine, Renaming
    <3>. QED  BY <3>1, <3>2
  <2>4. l.cmd = "NICK"
    OBVIOUS
  <2>. HIDE DEF l
  <2>5. r \in Seq(DownLine) /\ \A k \in DOMAIN r : r[k].cmd = "NICK"
    <3>1. DOMAIN <<>> = {} /\ DOMAIN <<l>> = {1} /\ <<l>>[1] = l
      OBVIOUS
    <3>. QED  BY <2>3, <2>4, <3>1, OneLine
  <2>. HIDE DEF r
  <2>. QED  BY <2>2, <2>5, LoginGot
<1>10. CASE (\E n \in asked : ServicesLook(n)) \/ \E n \in Nicks : LookupTimeout(n) \/ CacheExpires(n)
  <2>1. UNCHANGED <<conf, b, srv, up, down>>
    BY <1>10 DEF ServicesLook, LookupTimeout, CacheExpires
  <2>. QED  BY <2>1, Zenon DEF LoginFirst, LoggedInOn, AsksLoggedIn, HeldOpen
<1>. QED  BY <1>3, <1>4, <1>5, <1>6, <1>7, <1>8, <1>9, <1>10 DEF Lookups, World

LEMMA ConfStays == ASSUME RegNext PROVE conf' = conf
BY Zenon DEF RegNext, Register, Negotiates, irc_CAP_LS, irc_CAP_ACK, irc_CAP_NAK, irc_AUTHENTICATE, irc_RPL_SASLSUCCESS,
       irc_ERR_SASLFAIL, irc_ERR_NICKNAMEINUSE, irc_RPL_WELCOME, irc_unknown, NoLookup, Lookups, irc_PRIVMSG,
       irc_NOTICE, irc_NICK_QUIT, IsAdmin, BotOnly, ConnectionLost, Server, ServerCapLs, ServerRegisters,
       ServerRequest, ServerAuthenticate, ServerStatus, ServerQuit, ServerOnly, World, ServicesLook,
       ServicesAnswer, UserSays, UserMoves, UserOnly, LookupTimeout, CacheExpires

LEMMA AuthenticationNext == ASSUME Typed, Kept, Authentication, RegNext PROVE Authentication'
<1>1. conf' = conf
  BY ConfStays
<1>2. CASE Guarded
  BY <1>2, LoginNegotiated, LoginAtServer, LoginElsewhere DEF Authentication, RegNext
<1>3. CASE ~Guarded
  BY <1>1, <1>3 DEF Authentication, Guarded
<1>. QED  BY <1>2, <1>3

LEMMA AuthenticatedOnes == ASSUME Authentication PROVE AuthenticatedFirst
BY DEF Authentication, Guarded, LoginFirst, AuthenticatedFirst

----------------------------------------------------------------------------
(* The smoke test.                                                         *)

\* What its steps leave alone, and what they may do to the lines.
SmokeKeeps == UNCHANGED <<conf, srv, lookupVars, serviceVars, userVars>>

LEMMA TypedInTest ==
  ASSUME Typed, SmokeKeeps, b' \in BotRec, up' \in [Clients -> Seq(UpLine)], down' \in [Clients -> Seq(DownLine)]
  PROVE  Typed'
BY DEF Typed, SmokeKeeps, lookupVars, serviceVars, userVars

LEMMA TwoClients == Clients = {Bot, Tester} /\ Bot # Tester /\ MaxCollisions \in Nat
BY SmokeTestAssumption

LEMMA AnsweredStays ==
  ASSUME conf' = conf, counted \subseteq counted'
  PROVE  (\A i : Answered(i) => Answered(i)') /\ (AllAnswered => AllAnswered')
<1>1. \A i : Answered(i) => Answered(i)'
  BY DEF Answered
<1>2. AllAnswered => AllAnswered'
  BY DEF AllAnswered, Answered, Tests
<1>. QED  BY <1>1, <1>2

LEMMA BotActs ==
  ASSUME Typed, SmokeTyped, BotStep \/ BotExits
  PROVE  /\ Typed' /\ DOMAIN work' \subseteq Nat /\ down'[Tester] = down[Tester]
         /\ UNCHANGED <<conf, relayVars, t, counted, h>>
         /\ bot' = bot \/ (bot = "running" /\ bot' = "exited")
<1>1. b \in BotRec /\ down \in [Clients -> Seq(DownLine)] /\ up \in [Clients -> Seq(UpLine)] /\ DOMAIN work \subseteq Nat
  BY DEF Typed, SmokeTyped
<1>2. CASE (Register \/ Negotiates) /\ UNCHANGED <<relayVars, smokeVars>>
  <2>1. Negotiated /\ Typed'
    BY <1>2, NegotiationShape, NegotiatedTyped
  <2>2. down'[Tester] = down[Tester] /\ conf' = conf
    BY <1>1, <2>1, TwoClients DEF Negotiated
  <2>. QED  BY <1>1, <1>2, <2>1, <2>2 DEF smokeVars
<1>3. CASE BotHears
  <2>1. /\ Hears("SAY") /\ Says(<<>>) /\ BotKeeps /\ b' = b /\ bot' = bot
        /\ DOMAIN work' = DOMAIN work \cup {Heard.re}
    BY <1>3 DEF BotHears
  <2>2. Heard \in StampedLine /\ down[Bot] # <<>>
    BY <2>1, HeardShape, DownFacts
  <2>3. Heard.re \in Nat
    BY <2>2 DEF StampedLine
  <2>4. up' \in [Clients -> Seq(UpLine)] /\ down' \in [Clients -> Seq(DownLine)]
    BY <2>1, <2>2, OneUpLine, SaysTyped, Zenon DEF Says
  <2>5. down'[Tester] = down[Tester]
    BY <1>1, <2>1, TwoClients DEF Says
  <2>6. SmokeKeeps
    BY <2>1 DEF SmokeKeeps, BotKeeps
  <2>7. Typed'
    BY <1>1, <2>1, <2>4, <2>6, TypedInTest
  <2>. QED  BY <1>1, <2>1, <2>3, <2>5, <2>7 DEF BotKeeps
<1>4. CASE \E i \in DOMAIN work : BotSays(i)
  <2>1. PICK i \in DOMAIN work : BotSays(i)
    BY <1>4
  <2>2. /\ Sends(<<[cmd |-> "SAY", re |-> i]>>) /\ BotKeeps /\ b' = b /\ bot' = bot /\ down' = down
        /\ work' = [work EXCEPT ![i] = @ - 1]
    BY <2>1 DEF BotSays
  <2>3. i \in Nat
    BY <1>1
  <2>4. up' \in [Clients -> Seq(UpLine)]
    BY <2>2, <2>3, OneUpLine, SaysTyped, Zenon
  <2>5. SmokeKeeps
    BY <2>2 DEF SmokeKeeps, BotKeeps
  <2>6. Typed'
    BY <1>1, <2>2, <2>4, <2>5, TypedInTest
  <2>7. DOMAIN work' = DOMAIN work
    BY <2>2
  <2>. QED  BY <1>1, <2>2, <2>6, <2>7 DEF BotKeeps
<1>5. CASE BotExits
  <2>1. /\ bot = "running" /\ bot' = "exited" /\ b' = [b EXCEPT !.phase = "lost"] /\ BotKeeps
        /\ down' = [down EXCEPT ![Bot] = <<>>] /\ UNCHANGED <<up, work>>
    BY <1>5 DEF BotExits
  <2>2. b' \in BotRec
    BY <1>1, <2>1, BotFields, Zenon DEF Phases
  <2>3. down' \in [Clients -> Seq(DownLine)] /\ down'[Tester] = down[Tester]
    BY <1>1, <2>1, TwoClients, OneLine
  <2>4. SmokeKeeps
    BY <2>1 DEF SmokeKeeps, BotKeeps
  <2>5. Typed'
    BY <1>1, <2>1, <2>2, <2>3, <2>4, TypedInTest
  <2>. QED  BY <1>1, <2>1, <2>3, <2>5 DEF BotKeeps
<1>. QED  BY <1>2, <1>3, <1>4, <1>5 DEF BotStep

LEMMA BotSmoke == ASSUME Typed, SmokeInv, BotStep \/ BotExits PROVE Typed' /\ SmokeInv'
<1>1. /\ Typed' /\ DOMAIN work' \subseteq Nat /\ down'[Tester] = down[Tester]
      /\ conf' = conf /\ rel' = rel /\ todo' = todo /\ t' = t /\ counted' = counted /\ h' = h
      /\ bot' = bot \/ (bot = "running" /\ bot' = "exited")
  BY BotActs DEF SmokeInv, relayVars
<1>2. SmokeTyped'
  BY <1>1 DEF SmokeInv, SmokeTyped
<1>3. NicksDiffer'
  BY <1>1 DEF SmokeInv, NicksDiffer
<1>4. Ordered'
  BY <1>1 DEF SmokeInv, Ordered
<1>5. Honest'
  BY <1>1 DEF SmokeInv, Honest, Answered, AllAnswered, Tests
<1>. QED  BY <1>1, <1>2, <1>3, <1>4, <1>5 DEF SmokeInv

\* The client of the test.
LEMMA ClientActs ==
  ASSUME Client
  PROVE  /\ UNCHANGED <<conf, b, srv, lookupVars, serviceVars, userVars, relayVars, bot, work, h>>
         /\ t.phase \in {"registering", "joining", "drain", "send", "wait", "closing"}
BY DEF Client, ClientRegisters, ClientJoins, Drain, SendCommand, CountReply, ReplyDeadline, Deadline, ClientCloses,
       TGoes, ClientKeeps

LEMMA ClientLines ==
  ASSUME Typed, SmokeTyped, Client
  PROVE  /\ up' \in [Clients -> Seq(UpLine)] /\ down' \in [Clients -> Seq(DownLine)]
         /\ down'[Tester] = down[Tester] \/ down'[Tester] = <<>> \/ (THears /\ down'[Tester] = Tail(down[Tester]))
<1>1. /\ Tester \in Clients /\ up \in [Clients -> Seq(UpLine)] /\ down \in [Clients -> Seq(DownLine)]
      /\ t \in TesterRec
  BY TwoClients DEF Typed, SmokeTyped
<1>2. t.nick \in Name /\ t.cmd \in Nat
  BY <1>1 DEF TesterRec
<1>3. \A ls \in Seq(UpLine) : TSends(ls) => up' \in [Clients -> Seq(UpLine)]
  <2>. SUFFICES ASSUME NEW ls \in Seq(UpLine), TSends(ls) PROVE up' \in [Clients -> Seq(UpLine)]
    OBVIOUS
  <2>1. up[Tester] \o ls \in Seq(UpLine)
    BY <1>1, Joined
  <2>. QED  BY <1>1, <2>1 DEF TSends
<1>4. up' = up \/ \E ls \in Seq(UpLine) : TSends(ls)
  <2>. DEFINE n == <<t.nick[1], t.nick[2] + 1>>
  <2>1. n \in Name
    BY <1>2 DEF Name
  <2>. HIDE DEF n
  <2>2. /\ <<Msg("JOIN")>> \in Seq(UpLine) /\ <<Msg("QUIT")>> \in Seq(UpLine)
        /\ <<[cmd |-> "NICK", nick |-> n]>> \in Seq(UpLine) /\ <<[cmd |-> "SAY", re |-> t.cmd]>> \in Seq(UpLine)
    BY <1>2, <2>1, OneUpLine, Zenon
  <2>3. \/ up' = up \/ TSends(<<Msg("JOIN")>>) \/ TSends(<<Msg("QUIT")>>)
        \/ TSends(<<[cmd |-> "NICK", nick |-> n]>>) \/ TSends(<<[cmd |-> "SAY", re |-> t.cmd]>>)
    BY DEF Client, ClientRegisters, ClientJoins, Drain, SendCommand, CountReply, ReplyDeadline, Deadline,
           ClientCloses, n
  <2>. QED  BY <2>2, <2>3
<1>5. up' \in [Clients -> Seq(UpLine)]
  BY <1>1, <1>3, <1>4
<1>6. down' = down \/ THears \/ down' = [down EXCEPT ![Tester] = <<>>]
  BY DEF Client, ClientRegisters, ClientJoins, Drain, SendCommand, CountReply, ReplyDeadline, Deadline, ClientCloses
<1>7. CASE THears
  <2>1. down[Tester] # <<>> /\ down' = [down EXCEPT ![Tester] = Tail(@)]
    BY <1>7 DEF THears
  <2>2. Tail(down[Tester]) \in Seq(DownLine)
    BY <1>1, <2>1, Tailed
  <2>. QED  BY <1>1, <1>5, <1>7, <2>1, <2>2
<1>8. CASE down' = [down EXCEPT ![Tester] = <<>>]
  BY <1>1, <1>5, <1>8, OneLine
<1>. QED  BY <1>1, <1>5, <1>6, <1>7, <1>8

LEMMA TesterFields ==
  ASSUME t \in TesterRec
  PROVE  /\ t.nick \in Name /\ t.collisions \in Nat /\ t.cmd \in Nat /\ t.drains \in Nat
         /\ t.replies \in Nat /\ t.timeouts \in Nat /\ t.status \in Nat
BY DEF TesterRec

LEMMA NextFields ==
  ASSUME Typed, NEW r \in TesterRec
  PROVE  /\ NextCommand(r) \in TesterRec
         /\ NextCommand(r).drains = r.drains
         /\ NextCommand(r).timeouts = 0 => r.timeouts = 0 /\ r.replies # 0
         /\ r.cmd < Tests => NextCommand(r).phase = "drain" /\ NextCommand(r).cmd = r.cmd + 1
         /\ ~(r.cmd < Tests) => /\ NextCommand(r).phase = "closing"
                                /\ NextCommand(r).status = 0 => r.timeouts = 0 /\ r.replies # 0
<1>. DEFINE k == r.timeouts + IF r.replies = 0 THEN 1 ELSE 0
            late == [r EXCEPT !.timeouts = k]
<1>1. r.timeouts \in Nat /\ r.replies \in Nat /\ r.cmd \in Nat
  BY DEF TesterRec
<1>2. k \in Nat /\ (k = 0 => r.timeouts = 0 /\ r.replies # 0)
  BY <1>1
<1>3. NextCommand(r) = IF r.cmd < Tests THEN [late EXCEPT !.phase = "drain", !.cmd = @ + 1]
                       ELSE [late EXCEPT !.phase = "closing", !.status = IF late.timeouts > 0 THEN 1 ELSE 0]
  BY DEF NextCommand
<1>. HIDE DEF k
<1>4. late \in TesterRec /\ late.drains = r.drains /\ late.cmd = r.cmd /\ late.timeouts = k
  BY <1>2 DEF TesterRec
<1>. HIDE DEF late
<1>5. CASE r.cmd < Tests
  <2>. DEFINE c == r.cmd + 1
  <2>1. NextCommand(r) = [late EXCEPT !.phase = "drain", !.cmd = c]
    BY <1>3, <1>4, <1>5
  <2>2. c \in Nat /\ c = r.cmd + 1
    BY <1>1
  <2>. HIDE DEF c
  <2>. QED  BY <1>2, <1>4, <1>5, <2>1, <2>2 DEF TesterRec
<1>6. CASE ~(r.cmd < Tests)
  <2>. DEFINE v == IF k > 0 THEN 1 ELSE 0
  <2>1. NextCommand(r) = [late EXCEPT !.phase = "closing", !.status = v]
    BY <1>3, <1>4, <1>6
  <2>2. v \in Nat /\ (v = 0 => k = 0)
    BY <1>2
  <2>. HIDE DEF v
  <2>. QED  BY <1>1, <1>2, <1>4, <1>6, <2>1, <2>2 DEF TesterRec
<1>. QED  BY <1>5, <1>6

\* What the client hears last, while it counts replies.
LEMMA TesterHears ==
  ASSUME Typed, Honest, THears
  PROVE  /\ down[Tester] \in Seq(DownLine) /\ down[Tester] # <<>> /\ TLine \in DownLine
         /\ (TLine.cmd = "SAY" => TLine.at \in Nat)
         /\ (t.phase \in {"send", "wait"} /\ TLine.cmd = "SAY" => TLine.at >= t.cmd)
<1>1. down[Tester] \in Seq(DownLine) /\ down[Tester] # <<>>
  BY TwoClients DEF Typed, THears
<1>2. TLine = down[Tester][1] /\ 1 \in DOMAIN down[Tester] /\ TLine \in DownLine
  BY <1>1, Tailed DEF TLine
<1>3. TLine.cmd = "SAY" => TLine.at \in Nat
  BY <1>2, DownFacts DEF StampedLine
<1>. QED  BY <1>1, <1>2, <1>3 DEF Honest

\* Where it goes from one phase to the next.
ToJoin == t.phase = "registering" /\ t' = [t EXCEPT !.phase = "joining"] /\ counted' = counted
ToFail == t' = Fails /\ counted' = counted
ToRename == t.phase = "registering" /\ counted' = counted
            /\ t' = [t EXCEPT !.nick = <<t.nick[1], t.nick[2] + 1>>, !.collisions = @ + 1]
ToFirst == t.phase = "joining" /\ t' = [t EXCEPT !.phase = "drain", !.cmd = 1] /\ counted' = counted
ToStay == t' = t /\ counted' = counted /\ (down' = down \/ (THears /\ down'[Tester] = Tail(down[Tester])))
ToSend == /\ t.phase = "drain" /\ down[Tester] = <<>> /\ down' = down
          /\ t' = [t EXCEPT !.phase = "send", !.drains = @ + 1] /\ counted' = counted
ToWait == /\ t.phase = "send" /\ t' = [t EXCEPT !.phase = "wait", !.replies = 0] /\ counted' = counted /\ down' = down
ToCount == /\ t.phase = "wait" /\ THears /\ down'[Tester] = Tail(down[Tester]) /\ TLine.cmd = "SAY"
           /\ counted' = counted \cup {[re |-> TLine.re, for |-> t.cmd, at |-> TLine.at]}
           /\ t' = [t EXCEPT !.replies = 1] \/ t' = NextCommand([t EXCEPT !.replies = 1])
ToNext == t.phase = "wait" /\ t' = NextCommand(t) /\ counted' = counted
ToExit == t.phase = "closing" /\ t' = [t EXCEPT !.phase = "exited"] /\ counted' = counted

LEMMA ClientGoes ==
  ASSUME Typed, Client
  PROVE  ToJoin \/ ToFail \/ ToRename \/ ToFirst \/ ToStay \/ ToSend \/ ToWait \/ ToCount \/ ToNext \/ ToExit
<1>1. THears => down'[Tester] = Tail(down[Tester])
  BY TwoClients DEF Typed, THears
<1>2. CASE ClientRegisters
  BY <1>2 DEF ClientRegisters, TGoes, ToJoin, ToFail, ToRename
<1>3. CASE ClientJoins
  BY <1>1, <1>3 DEF ClientJoins, TGoes, ToFirst, ToStay
<1>4. CASE Drain
  BY <1>1, <1>4 DEF Drain, TGoes, ToStay, ToSend
<1>5. CASE SendCommand
  BY <1>5 DEF SendCommand, TGoes, ToWait
<1>6. CASE CountReply
  BY <1>1, <1>6 DEF CountReply, TGoes, ToCount, ToStay
<1>7. CASE ReplyDeadline \/ Deadline
  BY <1>7 DEF ReplyDeadline, Deadline, TGoes, ToNext, ToFail
<1>8. CASE ClientCloses
  BY <1>8 DEF ClientCloses, TGoes, ToExit
<1>. QED  BY <1>2, <1>3, <1>4, <1>5, <1>6, <1>7, <1>8 DEF Client

LEMMA ClientTyped ==
  ASSUME Typed, SmokeTyped, Honest, Client
  PROVE  t' \in TesterRec /\ counted \subseteq counted' /\ \A r \in counted' : r.at \in Nat /\ r.for \in Nat
<1>1. t \in TesterRec /\ \A r \in counted : r.at \in Nat /\ r.for \in Nat
  BY DEF SmokeTyped
<1>2. /\ t.nick \in Name /\ t.collisions \in Nat /\ t.cmd \in Nat /\ t.drains \in Nat
      /\ t.replies \in Nat /\ t.timeouts \in Nat /\ t.status \in Nat
  BY <1>1, TesterFields
<1>3. CASE ToJoin \/ ToFail \/ ToFirst \/ ToStay \/ ToWait \/ ToExit
  <2>1. CASE ToJoin
    BY <1>1, <2>1 DEF ToJoin, TesterRec
  <2>2. CASE ToFail
    BY <1>1, <2>2 DEF ToFail, Fails, TesterRec
  <2>3. CASE ToFirst
    BY <1>1, <2>3 DEF ToFirst, TesterRec
  <2>4. CASE ToStay
    BY <1>1, <2>4 DEF ToStay
  <2>5. CASE ToWait
    BY <1>1, <2>5 DEF ToWait, TesterRec
  <2>6. CASE ToExit
    BY <1>1, <2>6 DEF ToExit, TesterRec
  <2>. QED  BY <1>3, <2>1, <2>2, <2>3, <2>4, <2>5, <2>6
<1>4. CASE ToRename
  <2>. DEFINE n == <<t.nick[1], t.nick[2] + 1>>
              c == t.collisions + 1
  <2>1. n \in Name /\ c \in Nat
    BY <1>2 DEF Name
  <2>2. t' = [t EXCEPT !.nick = n, !.collisions = c] /\ counted' = counted
    BY <1>4 DEF ToRename
  <2>. HIDE DEF n, c
  <2>. QED  BY <1>1, <2>1, <2>2 DEF TesterRec
<1>5. CASE ToSend
  <2>. DEFINE d == t.drains + 1
  <2>1. d \in Nat /\ t' = [t EXCEPT !.phase = "send", !.drains = d] /\ counted' = counted
    BY <1>2, <1>5 DEF ToSend
  <2>. HIDE DEF d
  <2>. QED  BY <1>1, <2>1 DEF TesterRec
<1>6. CASE ToCount
  <2>1. [t EXCEPT !.replies = 1] \in TesterRec
    BY <1>1 DEF TesterRec
  <2>2. t' \in TesterRec
    BY <1>6, <2>1, NextFields DEF ToCount
  <2>3. TLine.at \in Nat /\ counted' = counted \cup {[re |-> TLine.re, for |-> t.cmd, at |-> TLine.at]}
    BY <1>6, TesterHears DEF ToCount
  <2>. QED  BY <1>1, <1>2, <2>2, <2>3
<1>7. CASE ToNext
  BY <1>1, <1>7, NextFields DEF ToNext
<1>. QED  BY <1>3, <1>4, <1>5, <1>6, <1>7, ClientGoes

\* Its steps pass over no command that nothing answered, and count nothing old.
LEMMA ClientHonest ==
  ASSUME Typed, SmokeTyped, Ordered, Honest, Client
  PROVE  Honest'
<1>. DEFINE now(i) == \E x \in counted' : x.for = i
<1>1. /\ t \in TesterRec /\ (\A i : Answered(i) => now(i)) /\ (AllAnswered => AllAnswered')
      /\ h' = h /\ conf' = conf /\ Tests \in Nat /\ Tests' = Tests
  <2>1. t \in TesterRec /\ h' = h /\ conf' = conf /\ counted \subseteq counted'
    BY ClientActs, ClientTyped DEF SmokeTyped
  <2>2. \A i : Answered(i) => now(i)
    BY <2>1 DEF Answered
  <2>3. AllAnswered => AllAnswered'
    BY <2>1, AnsweredStays
  <2>4. Tests \in Nat /\ Tests' = Tests
    BY <2>1, TypedConf DEF Tests
  <2>. QED  BY <2>1, <2>2, <2>3, <2>4
<1>2. t.cmd \in Nat /\ t.drains \in Nat /\ t.replies \in Nat /\ t.timeouts \in Nat /\ t.status \in Nat
  BY <1>1, TesterFields
<1>3. h.phase \in {"stopclient", "stopbot", "done"} /\ h.status = 0 => AllAnswered'
  BY <1>1 DEF Honest
<1>4. \A r \in counted : r.at >= r.for
  BY DEF Honest
\* what is left to show of a step that goes somewhere
<1>. DEFINE rest ==
              /\ \A r \in counted' : r.at >= r.for
              /\ t'.phase = "drain" => t'.drains + 1 >= t'.cmd
              /\ t'.phase \in {"send", "wait"} =>
                   /\ t'.drains >= t'.cmd
                   /\ \A k \in DOMAIN down'[Tester] : down'[Tester][k].cmd = "SAY" => down'[Tester][k].at >= t'.cmd
              /\ t'.phase \in {"drain", "send", "wait"} /\ t'.timeouts = 0 => \A i \in 1..(t'.cmd - 1) : now(i)
              /\ t'.phase = "wait" /\ t'.replies # 0 => now(t'.cmd)
              /\ t'.phase \in {"closing", "exited"} /\ t'.status = 0 /\ h.phase = "client" => AllAnswered'
<1>5. rest => Honest'
  <2>. SUFFICES ASSUME rest PROVE Honest'
    OBVIOUS
  <2>. QED  BY <1>1, <1>3 DEF Honest, Answered
<1>6. CASE ToJoin \/ ToRename
  <2>1. t'.phase \in {"registering", "joining"} /\ counted' = counted
    BY <1>1, <1>6 DEF ToJoin, ToRename, TesterRec
  <2>. QED  BY <1>4, <1>5, <2>1
<1>7. CASE ToFail
  <2>1. t'.phase = "closing" /\ t'.status = 1 /\ counted' = counted
    BY <1>1, <1>7 DEF ToFail, Fails, TesterRec
  <2>. QED  BY <1>4, <1>5, <2>1
<1>8. CASE ToFirst
  <2>1. t'.phase = "drain" /\ t'.cmd = 1 /\ counted' = counted /\ t'.drains = t.drains
    BY <1>1, <1>8 DEF ToFirst, TesterRec
  <2>2. 1..(t'.cmd - 1) = {}
    BY <2>1
  <2>. QED  BY <1>2, <1>4, <1>5, <2>1, <2>2
<1>9. CASE ToStay
  <2>1. t' = t /\ counted' = counted
    BY <1>9 DEF ToStay
  <2>2. t.phase \in {"send", "wait"} =>
          \A k \in DOMAIN down'[Tester] : down'[Tester][k].cmd = "SAY" => down'[Tester][k].at >= t.cmd
    <3>1. CASE down' = down
      BY <3>1 DEF Honest
    <3>2. CASE THears /\ down'[Tester] = Tail(down[Tester])
      <4>1. \A k \in DOMAIN Tail(down[Tester]) : k + 1 \in DOMAIN down[Tester] /\ Tail(down[Tester])[k] = down[Tester][k + 1]
        BY <3>2, TesterHears, Tailed
      <4>. QED  BY <3>2, <4>1 DEF Honest
    <3>. QED  BY <1>9, <3>1, <3>2 DEF ToStay
  <2>. QED  BY <1>1, <1>5, <2>1, <2>2 DEF Honest
<1>10. CASE ToSend
  <2>1. /\ t.phase = "drain" /\ t'.phase = "send" /\ t'.cmd = t.cmd /\ t'.drains = t.drains + 1
        /\ t'.timeouts = t.timeouts /\ counted' = counted /\ down'[Tester] = <<>>
    BY <1>1, <1>10 DEF ToSend, TesterRec
  <2>2. t.drains + 1 >= t.cmd /\ (t.timeouts = 0 => \A i \in 1..(t.cmd - 1) : Answered(i))
    BY <2>1 DEF Honest
  <2>3. DOMAIN <<>> = {}
    OBVIOUS
  <2>. QED  BY <1>1, <1>4, <1>5, <2>1, <2>2, <2>3
<1>11. CASE ToWait
  <2>1. /\ t.phase = "send" /\ t'.phase = "wait" /\ t'.cmd = t.cmd /\ t'.drains = t.drains /\ t'.replies = 0
        /\ t'.timeouts = t.timeouts /\ counted' = counted /\ down' = down
    BY <1>1, <1>11 DEF ToWait, TesterRec
  <2>2. /\ t.drains >= t.cmd /\ (t.timeouts = 0 => \A i \in 1..(t.cmd - 1) : Answered(i))
        /\ \A k \in DOMAIN down[Tester] : down[Tester][k].cmd = "SAY" => down[Tester][k].at >= t.cmd
    BY <2>1 DEF Honest
  <2>. QED  BY <1>1, <1>4, <1>5, <2>1, <2>2
<1>12. ASSUME t.phase = "wait", NEW r \in TesterRec, t' = NextCommand(r), r.cmd = t.cmd, r.drains = t.drains,
              r.timeouts = t.timeouts, r.replies # 0 => now(t.cmd), \A x \in counted' : x.at >= x.for
       PROVE  Honest'
  <2>1. /\ t'.drains = r.drains /\ (t'.timeouts = 0 => r.timeouts = 0 /\ r.replies # 0)
        /\ r.cmd < Tests => t'.phase = "drain" /\ t'.cmd = r.cmd + 1
        /\ ~(r.cmd < Tests) => t'.phase = "closing" /\ (t'.status = 0 => r.timeouts = 0 /\ r.replies # 0)
    BY <1>12, NextFields
  <2>2. t.drains >= t.cmd /\ (t.timeouts = 0 => \A i \in 1..(t.cmd - 1) : now(i))
    BY <1>1, <1>12 DEF Honest
  <2>3. r.timeouts = 0 /\ r.replies # 0 => \A i \in 1..t.cmd : now(i)
    <3>. SUFFICES ASSUME r.timeouts = 0, r.replies # 0, NEW i \in 1..t.cmd PROVE now(i)
      OBVIOUS
    <3>1. CASE i = t.cmd
      BY <1>12, <3>1
    <3>2. CASE i # t.cmd
      <4>1. i \in 1..(t.cmd - 1)
        BY <1>2, <3>2
      <4>. QED  BY <1>12, <2>2, <4>1
    <3>. QED  BY <3>1, <3>2
  <2>4. CASE r.cmd < Tests
    <3>1. t'.phase = "drain" /\ t'.cmd = t.cmd + 1 /\ t'.drains = t.drains
      BY <1>12, <2>1, <2>4
    <3>2. t'.drains + 1 >= t'.cmd
      BY <1>2, <2>2, <3>1
    <3>3. t'.timeouts = 0 => \A i \in 1..(t'.cmd - 1) : now(i)
      <4>1. t'.cmd - 1 = t.cmd
        BY <1>2, <3>1
      <4>. QED  BY <2>1, <2>3, <4>1
    <3>. QED  BY <1>5, <1>12, <3>1, <3>2, <3>3
  <2>5. CASE ~(r.cmd < Tests)
    <3>1. t'.phase = "closing" /\ (t'.status = 0 => \A i \in 1..t.cmd : now(i))
      BY <2>1, <2>3, <2>5
    <3>2. \A i \in 1..Tests : i \in 1..t.cmd
      BY <1>1, <1>2, <1>12, <2>5
    <3>3. t'.status = 0 => AllAnswered'
      BY <1>1, <3>1, <3>2 DEF AllAnswered, Answered
    <3>. QED  BY <1>5, <1>12, <3>1, <3>3
  <2>. QED  BY <2>4, <2>5
<1>13. CASE ToCount
  <2>. DEFINE r == [t EXCEPT !.replies = 1]
              x == [re |-> TLine.re, for |-> t.cmd, at |-> TLine.at]
  <2>1. /\ t.phase = "wait" /\ THears /\ down'[Tester] = Tail(down[Tester]) /\ TLine.cmd = "SAY"
        /\ counted' = counted \cup {x} /\ (t' = r \/ t' = NextCommand(r))
    BY <1>13 DEF ToCount
  <2>2. /\ r \in TesterRec /\ r.cmd = t.cmd /\ r.drains = t.drains /\ r.timeouts = t.timeouts /\ r.replies = 1
        /\ r.phase = t.phase
    BY <1>1 DEF TesterRec
  <2>3. x.for = t.cmd /\ x.at = TLine.at /\ TLine.at >= t.cmd
    BY <2>1, TesterHears
  <2>. HIDE DEF r, x
  <2>4. \A y \in counted' : y.at >= y.for
    BY <1>4, <2>1, <2>3
  <2>5. now(t.cmd)
    BY <2>1, <2>3
  <2>6. CASE t' = NextCommand(r)
    BY <1>12, <2>1, <2>2, <2>4, <2>5, <2>6
  <2>7. CASE t' = r
    <3>1. /\ t.drains >= t.cmd /\ (t.timeouts = 0 => \A i \in 1..(t.cmd - 1) : now(i))
          /\ \A k \in DOMAIN down[Tester] : down[Tester][k].cmd = "SAY" => down[Tester][k].at >= t.cmd
      BY <1>1, <2>1 DEF Honest
    <3>2. \A k \in DOMAIN Tail(down[Tester]) : k + 1 \in DOMAIN down[Tester] /\ Tail(down[Tester])[k] = down[Tester][k + 1]
      BY <2>1, TesterHears, Tailed
    <3>. QED  BY <1>5, <2>1, <2>2, <2>4, <2>5, <2>7, <3>1, <3>2
  <2>. QED  BY <2>1, <2>6, <2>7
<1>14. CASE ToNext
  <2>1. t.replies # 0 => now(t.cmd)
    BY <1>1, <1>14 DEF Honest, ToNext
  <2>. QED  BY <1>1, <1>4, <1>12, <1>14, <2>1 DEF ToNext
<1>15. CASE ToExit
  <2>1. t.phase = "closing" /\ t'.phase = "exited" /\ t'.status = t.status /\ counted' = counted
    BY <1>1, <1>15 DEF ToExit, TesterRec
  <2>2. h.phase = "client" /\ t.status = 0 => AllAnswered'
    BY <1>1, <2>1 DEF Honest
  <2>. QED  BY <1>4, <1>5, <2>1, <2>2
<1>. QED  BY <1>6, <1>7, <1>8, <1>9, <1>10, <1>11, <1>13, <1>14, <1>15, ClientGoes

LEMMA ClientSmoke == ASSUME Typed, SmokeInv, Client PROVE Typed' /\ SmokeInv'
<1>1. /\ conf' = conf /\ b' = b /\ rel' = rel /\ todo' = todo /\ bot' = bot /\ work' = work /\ h' = h /\ SmokeKeeps
      /\ t.phase \in {"registering", "joining", "drain", "send", "wait", "closing"}
  BY ClientActs DEF SmokeKeeps, relayVars
<1>2. Typed'
  <2>1. b' \in BotRec
    BY <1>1 DEF Typed
  <2>. QED  BY <1>1, <2>1, ClientLines, TypedInTest DEF SmokeInv
<1>3. SmokeTyped'
  BY <1>1, ClientTyped DEF SmokeInv, SmokeTyped
<1>4. NicksDiffer'
  BY <1>1 DEF SmokeInv, NicksDiffer
<1>5. Ordered'
  BY <1>1 DEF SmokeInv, Ordered
<1>6. Honest'
  BY ClientHonest DEF SmokeInv
<1>. QED  BY <1>2, <1>3, <1>4, <1>5, <1>6 DEF SmokeInv

\* The harness.
LEMMA HarnessSmoke == ASSUME Typed, SmokeInv, Harness PROVE Typed' /\ SmokeInv'
<1>1. /\ UNCHANGED <<conf, b, srv, lookupVars, serviceVars, userVars, rel, todo, work, counted>> /\ SmokeKeeps
  BY DEF Harness, StartBot, StartClient, Finally, StopClient, StopBot, HarnessKeeps, regVars, relayVars, SmokeKeeps
<1>2. /\ t \in TesterRec /\ h \in HarnessRec /\ Tester \in Clients /\ conf.testnick \in Name
      /\ up \in [Clients -> Seq(UpLine)] /\ down \in [Clients -> Seq(DownLine)]
  BY TypedConf, TwoClients DEF SmokeInv, SmokeTyped, Typed
<1>3. up' \in [Clients -> Seq(UpLine)] /\ down' \in [Clients -> Seq(DownLine)]
  <2>1. (up' = up \/ up' = [up EXCEPT ![Tester] = Hello]) /\ (down' = down \/ down' = [down EXCEPT ![Tester] = <<>>])
    BY DEF Harness, StartBot, StartClient, Finally, StopClient, StopBot, HarnessKeeps, regVars
  <2>2. Hello \in Seq(UpLine)
    <3>1. \A x, y \in UpLine : <<x, y>> \in Seq(UpLine)
      OBVIOUS
    <3>2. Msg("USER") \in UpLine /\ [cmd |-> "NICK", nick |-> conf.testnick] \in UpLine
      BY <1>2, UpShapes, Zenon
    <3>. QED  BY <3>1, <3>2 DEF Hello
  <2>3. <<>> \in Seq(DownLine)
    BY OneLine
  <2>. QED  BY <1>2, <2>1, <2>2, <2>3
<1>4. Typed'
  <2>1. b' \in BotRec
    BY <1>1 DEF Typed
  <2>. QED  BY <1>1, <1>3, <2>1, TypedInTest
<1>5. NicksDiffer'
  BY <1>1 DEF SmokeInv, NicksDiffer
<1>6. (\A i : Answered(i)' <=> Answered(i)) /\ (AllAnswered' <=> AllAnswered) /\ \A r \in counted' : r.at >= r.for
  BY <1>1 DEF Answered, AllAnswered, Tests, SmokeInv, Honest
<1>7. ASSUME t' \in TesterRec, h' \in HarnessRec PROVE SmokeTyped'
  BY <1>1, <1>7 DEF SmokeInv, SmokeTyped
<1>8. h.phase \in {"stopclient", "stopbot", "done"} /\ h.status = 0 => AllAnswered
  BY DEF SmokeInv, Honest
<1>9. CASE StartBot
  <2>1. /\ h.phase = "start" /\ bot' = "running" /\ h' = [h EXCEPT !.phase = "waitbot"] /\ t' = t /\ t.phase = "none"
        /\ h'.phase = "waitbot" /\ h' \in HarnessRec
    BY <1>2, <1>9 DEF StartBot, SmokeInv, Ordered, HarnessRec
  <2>2. Ordered'
    BY <2>1 DEF Ordered
  <2>3. Honest'
    BY <1>6, <2>1 DEF Honest
  <2>. QED  BY <1>2, <1>4, <1>5, <1>7, <2>1, <2>2, <2>3 DEF SmokeInv
<1>10. CASE StartClient
  <2>1. /\ t' = [t EXCEPT !.phase = "registering", !.nick = conf.testnick] /\ bot' = bot
        /\ h' = [h EXCEPT !.phase = "client"]
    BY <1>10 DEF StartClient
  <2>2. h'.phase = "client" /\ h' \in HarnessRec /\ t'.phase = "registering" /\ t' \in TesterRec
    BY <1>2, <2>1 DEF HarnessRec, TesterRec
  <2>3. Ordered'
    BY <2>2 DEF Ordered
  <2>4. Honest'
    BY <1>6, <2>2 DEF Honest
  <2>. QED  BY <1>4, <1>5, <1>7, <2>2, <2>3, <2>4 DEF SmokeInv
<1>11. CASE Finally
  <2>1. t' = t /\ bot' = bot /\ down' = down /\ conf' = conf
    BY <1>1, <1>11 DEF Finally, HarnessKeeps, regVars
  <2>2. /\ h'.phase = "stopclient" /\ h' \in HarnessRec
        /\ h'.status = 0 => h.phase = "client" /\ t.phase = "exited" /\ t.status = 0
    <3>1. t.status \in Nat
      BY <1>2, TesterFields
    <3>2. CASE h' = [h EXCEPT !.phase = "stopclient", !.status = 1]
      <4>1. h'.phase = "stopclient" /\ h'.status = 1 /\ h' \in HarnessRec
        BY <1>2, <3>2 DEF HarnessRec
      <4>. QED  BY <4>1
    <3>3. CASE h.phase = "client" /\ t.phase = "exited" /\ h' = [h EXCEPT !.phase = "stopclient", !.status = t.status]
      BY <1>2, <3>1, <3>3 DEF HarnessRec
    <3>4. CASE h' = [h EXCEPT !.phase = "stopclient", !.status = 130, !.interrupted = TRUE]
      <4>1. h'.phase = "stopclient" /\ h'.status = 130 /\ h' \in HarnessRec
        BY <1>2, <3>4, Zenon DEF HarnessRec
      <4>. QED  BY <4>1
    <3>. QED  BY <1>11, <3>2, <3>3, <3>4 DEF Finally
  <2>3. Ordered'
    BY <2>2 DEF Ordered
  <2>4. h'.status = 0 => AllAnswered
    BY <2>2 DEF SmokeInv, Honest
  <2>5. Honest'
    BY <1>6, <2>1, <2>2, <2>4 DEF SmokeInv, Honest
  <2>. QED  BY <1>2, <1>4, <1>5, <1>7, <2>1, <2>2, <2>3, <2>5 DEF SmokeInv
<1>12. CASE StopClient
  <2>. DEFINE p == IF t.phase = "none" THEN "none" ELSE "exited"
  <2>1. /\ h.phase = "stopclient" /\ t' = [t EXCEPT !.phase = p] /\ h' = [h EXCEPT !.phase = "stopbot"] /\ bot' = bot
    BY <1>12 DEF StopClient
  <2>2. p \in {"none", "exited"}
    OBVIOUS
  <2>. HIDE DEF p
  <2>3. /\ h'.phase = "stopbot" /\ h'.status = h.status /\ h' \in HarnessRec
        /\ t'.phase \in {"none", "exited"} /\ t' \in TesterRec
    BY <1>2, <2>1, <2>2 DEF HarnessRec, TesterRec
  <2>4. Ordered'
    BY <2>3 DEF Ordered
  <2>5. Honest'
    BY <1>6, <1>8, <2>1, <2>3 DEF Honest
  <2>. QED  BY <1>4, <1>5, <1>7, <2>3, <2>4, <2>5 DEF SmokeInv
<1>13. CASE StopBot
  <2>1. h.phase = "stopbot" /\ t' = t /\ bot' = bot /\ t.phase \in {"none", "exited"}
    BY <1>13 DEF StopBot, SmokeInv, Ordered
  <2>2. /\ h' \in HarnessRec /\ h'.status = h.status
        /\ h'.phase = "stopbot" \/ (h'.phase = "done" /\ bot # "running")
    <3>1. CASE bot # "running" /\ h' = [h EXCEPT !.phase = "done"]
      BY <1>2, <3>1 DEF HarnessRec
    <3>2. CASE bot = "running" /\ h' = IF NextSignal(h.signal) = "done" THEN [h EXCEPT !.phase = "done"]
                                       ELSE [h EXCEPT !.signal = NextSignal(@)]
      <4>. DEFINE s == NextSignal(h.signal)
      <4>1. s \in {"INT", "TERM", "KILL"} /\ s # "done"
        BY DEF NextSignal
      <4>2. h' = [h EXCEPT !.signal = s]
        BY <3>2, <4>1
      <4>. HIDE DEF s
      <4>. QED  BY <1>2, <2>1, <4>1, <4>2 DEF HarnessRec
    <3>. QED  BY <1>13, <3>1, <3>2 DEF StopBot
  <2>3. Ordered'
    BY <2>1, <2>2 DEF Ordered
  <2>4. Honest'
    BY <1>6, <1>8, <2>1, <2>2 DEF Honest
  <2>. QED  BY <1>2, <1>4, <1>5, <1>7, <2>1, <2>2, <2>3, <2>4 DEF SmokeInv
<1>. QED  BY <1>9, <1>10, <1>11, <1>12, <1>13 DEF Harness

\* The threads of the relay.
SentLine == [to : Clients, line : QuietLine \cup SayLine]

LEMMA SentLines ==
  /\ \A c \in {"001", "403", "421", "433", "451", "462"} : Msg(c) \in QuietLine
  /\ \A c \in {"NICK", "JOIN", "QUIT"}, n \in Name : [cmd |-> c, nick |-> n] \in QuietLine
  /\ \A s \in SUBSET Name : [cmd |-> "353", names |-> s] \in QuietLine
  /\ \A n \in Name, k \in Nat : [cmd |-> "SAY", nick |-> n, re |-> k] \in SayLine
BY DEF QuietLine, SayLine, Msg

LEMMA ToShape ==
  ASSUME NEW c \in Clients, NEW l \in QuietLine \cup SayLine
  PROVE  To(c, l) \in Seq(SentLine)
<1>1. [to |-> c, line |-> l] \in SentLine
  BY DEF SentLine
<1>. QED  BY <1>1, OneLine DEF To

LEMMA ToAllShape ==
  ASSUME NEW S, S \subseteq Clients, NEW l \in QuietLine \cup SayLine
  PROVE  ToAll(S, l) \in Seq(SentLine)
<1>. DEFINE T == {[to |-> r, line |-> l] : r \in S}
<1>1. IsFiniteSet(S)
  <2>1. IsFiniteSet({Bot}) /\ IsFiniteSet({Tester})
    BY FS_Singleton
  <2>2. Clients = {Bot} \cup {Tester}
    BY TwoClients
  <2>3. IsFiniteSet(Clients)
    BY <2>1, <2>2, FS_Union
  <2>. QED  BY <2>3, FS_Subset
<1>2. T \subseteq SentLine
  BY DEF SentLine
<1>3. IsFiniteSet(T)
  <2>. DEFINE f == [r \in S |-> [to |-> r, line |-> l]]
  <2>1. f \in Surjection(S, T)
    BY DEF Surjection
  <2>. HIDE DEF f, T
  <2>. QED  BY <1>1, <2>1, FS_Surjection
<1>4. ToAll(S, l) = SetToSeq(T)
  BY DEF ToAll
<1>. HIDE DEF T
<1>5. SetToSeq(T) \in Seq(T)
  BY <1>3, ListedSeq
<1>. QED  BY <1>2, <1>4, <1>5, SeqMonotonic

LEMMA RelayFields ==
  ASSUME NEW r \in ClientRec
  PROVE  /\ r.nick \in Name
         /\ \A n \in Name : [r EXCEPT !.nick = n] \in ClientRec /\ [r EXCEPT !.nick = n].closed = r.closed
                            /\ [r EXCEPT !.nick = n].nick = n
         /\ [r EXCEPT !.user = TRUE] \in ClientRec /\ [r EXCEPT !.user = TRUE].nick = r.nick
         /\ [r EXCEPT !.user = TRUE].closed = r.closed
         /\ [r EXCEPT !.joined = TRUE] \in ClientRec /\ [r EXCEPT !.joined = TRUE].nick = r.nick
         /\ [r EXCEPT !.joined = TRUE].closed = r.closed
         /\ [r EXCEPT !.closed = TRUE, !.joined = FALSE] \in ClientRec
         /\ [r EXCEPT !.closed = TRUE, !.joined = FALSE].closed
         /\ Completed(r) \in ClientRec /\ Completed(r).nick = r.nick /\ Completed(r).closed = r.closed
<1>1. Completed(r) \in ClientRec /\ Completed(r).nick = r.nick /\ Completed(r).closed = r.closed
  <2>. DEFINE v == r.registered \/ (r.nick # NoNick /\ r.user)
  <2>1. r.registered \in BOOLEAN /\ r.user \in BOOLEAN
    BY DEF ClientRec
  <2>2. v \in BOOLEAN /\ Completed(r) = [r EXCEPT !.registered = v]
    BY <2>1 DEF Completed
  <2>. HIDE DEF v
  <2>. QED  BY <2>2 DEF ClientRec
<1>. QED  BY <1>1 DEF ClientRec

LEMMA ReadsShape ==
  ASSUME Typed, NEW c \in Clients, NEW S, Reads(c, S)
  PROVE  Read(c) \in UpLine /\ Read(c).cmd \in S /\ down' = down /\ up' \in [Clients -> Seq(UpLine)]
<1>1. up \in [Clients -> Seq(UpLine)] /\ up[c] \in Seq(UpLine) /\ up[c] # <<>>
  BY DEF Typed, Reads
<1>2. Head(up[c]) \in UpLine /\ Tail(up[c]) \in Seq(UpLine)
  BY <1>1, Tailed
<1>. QED  BY <1>1, <1>2 DEF Reads, Read

\* A thread handles a line: its client may get a nick no other has, or go.
Handled(c) ==
  \E r \in ClientRec, s \in Seq(SentLine) :
    Does(c, r, s) /\ (r.closed \/ (r.closed = rel[c].closed /\ (r.nick = rel[c].nick \/ ~Collides(c, r.nick))))

LEMMA HandlesShape ==
  ASSUME Typed, SmokeTyped, NEW c \in Clients, Handles(c)
  PROVE  Handled(c) /\ down' = down /\ up' \in [Clients -> Seq(UpLine)]
<1>1. rel[c] \in ClientRec /\ \A d \in Clients : rel[d].nick \in Name
  BY DEF SmokeTyped, ClientRec
<1>2. Peers(c) \cup {c} \subseteq Clients /\ Members \cup {c} \subseteq Clients /\ Members \ {c} \subseteq Clients
  BY DEF Peers, Members
<1>3. \A r : Welcome(c, r) \in Seq(SentLine)
  <2>1. To(c, Msg("001")) \in Seq(SentLine) /\ <<>> \in Seq(SentLine)
    BY SentLines, ToShape, OneLine
  <2>. QED  BY <2>1 DEF Welcome
<1>4. /\ To(c, Msg("433")) \in Seq(SentLine) /\ To(c, Msg("462")) \in Seq(SentLine)
      /\ To(c, Msg("451")) \in Seq(SentLine) /\ To(c, Msg("403")) \in Seq(SentLine)
      /\ To(c, Msg("421")) \in Seq(SentLine) /\ <<>> \in Seq(SentLine)
  BY SentLines, ToShape, OneLine
<1>5. ASSUME NEW r \in ClientRec, NEW s \in Seq(SentLine), Does(c, r, s), r.closed = rel[c].closed,
             r.nick = rel[c].nick \/ ~Collides(c, r.nick)
      PROVE  Handled(c)
  BY <1>5 DEF Handled
<1>6. ASSUME NEW r \in ClientRec, NEW s \in Seq(SentLine), Registered(c, r, s), r.closed = rel[c].closed,
             r.nick = rel[c].nick
      PROVE  Handled(c)
  BY <1>1, <1>4, <1>5, <1>6 DEF Registered
<1>7. CASE RelayNick(c)
  <2>. DEFINE n == Read(c).nick
              r == [rel[c] EXCEPT !.nick = n]
              a == IF rel[c].registered THEN ToAll(Peers(c) \cup {c}, From(c, "NICK")) ELSE <<>>
  <2>1. n \in Name /\ down' = down /\ up' \in [Clients -> Seq(UpLine)]
    <3>1. Read(c) \in UpLine /\ Read(c).cmd = "NICK" /\ down' = down /\ up' \in [Clients -> Seq(UpLine)]
      BY <1>7, ReadsShape DEF RelayNick
    <3>. QED  BY <3>1, UpFacts, Zenon
  <2>2. /\ r \in ClientRec /\ Completed(r) \in ClientRec
        /\ Completed(r).closed = rel[c].closed /\ Completed(r).nick = n
    <3>1. r \in ClientRec /\ r.closed = rel[c].closed /\ r.nick = n
      BY <1>1, <2>1, RelayFields, Zenon
    <3>. HIDE DEF r
    <3>. QED  BY <3>1, RelayFields, Zenon
  <2>3. a \in Seq(SentLine)
    <3>1. From(c, "NICK") \in QuietLine
      BY <1>1, SentLines DEF From
    <3>. QED  BY <1>2, <1>4, <3>1, ToAllShape
  <2>4. a \o Welcome(c, r) \in Seq(SentLine)
    BY <1>3, <2>3, Joined
  <2>5. IF Collides(c, n) THEN Does(c, rel[c], To(c, Msg("433"))) ELSE Does(c, Completed(r), a \o Welcome(c, r))
    BY <1>7 DEF RelayNick
  <2>. HIDE DEF n, r, a
  <2>. QED  BY <1>1, <1>4, <1>5, <2>1, <2>2, <2>4, <2>5
<1>8. CASE RelayUser(c)
  <2>. DEFINE r == [rel[c] EXCEPT !.user = TRUE]
              s == IF rel[c].registered THEN To(c, Msg("462")) ELSE Welcome(c, r)
  <2>1. down' = down /\ up' \in [Clients -> Seq(UpLine)] /\ Does(c, Completed(r), s)
    BY <1>8, ReadsShape DEF RelayUser
  <2>2. /\ r \in ClientRec /\ Completed(r) \in ClientRec
        /\ Completed(r).closed = rel[c].closed /\ Completed(r).nick = rel[c].nick
    BY <1>1, RelayFields, Zenon
  <2>3. s \in Seq(SentLine)
    BY <1>3, <1>4
  <2>. HIDE DEF r, s
  <2>. QED  BY <1>5, <2>1, <2>2, <2>3
<1>9. CASE RelayJoin(c)
  <2>. DEFINE now == Members \cup {c}
              r == [rel[c] EXCEPT !.joined = TRUE]
              m == [cmd |-> "353", names |-> {rel[d].nick : d \in now}]
              s == ToAll(now, From(c, "JOIN")) \o To(c, m)
  <2>1. down' = down /\ up' \in [Clients -> Seq(UpLine)] /\ Registered(c, r, s)
    BY <1>9, ReadsShape DEF RelayJoin
  <2>2. r \in ClientRec /\ r.closed = rel[c].closed /\ r.nick = rel[c].nick
    BY <1>1, RelayFields, Zenon
  <2>3. s \in Seq(SentLine)
    <3>1. From(c, "JOIN") \in QuietLine
      BY <1>1, SentLines DEF From
    <3>2. {rel[d].nick : d \in now} \in SUBSET Name
      BY <1>1, <1>2
    <3>3. m \in QuietLine
      BY <3>2, SentLines
    <3>. HIDE DEF m
    <3>4. ToAll(now, From(c, "JOIN")) \in Seq(SentLine) /\ To(c, m) \in Seq(SentLine)
      BY <1>2, <3>1, <3>3, ToAllShape, ToShape
    <3>. QED  BY <3>4, Joined
  <2>. HIDE DEF r, s
  <2>. QED  BY <1>6, <2>1, <2>2, <2>3
<1>10. CASE RelaySay(c)
  <2>. DEFINE l == [cmd |-> "SAY", nick |-> rel[c].nick, re |-> Read(c).re]
              s == IF \A d \in Clients : ~rel[d].joined THEN To(c, Msg("403")) ELSE ToAll(Members \ {c}, l)
  <2>1. down' = down /\ up' \in [Clients -> Seq(UpLine)] /\ Registered(c, rel[c], s) /\ Read(c).re \in Nat
    <3>1. /\ Read(c) \in UpLine /\ Read(c).cmd = "SAY" /\ down' = down /\ up' \in [Clients -> Seq(UpLine)]
          /\ Registered(c, rel[c], s)
      BY <1>10, ReadsShape DEF RelaySay
    <3>. HIDE DEF s
    <3>. QED  BY <3>1, UpFacts, Zenon
  <2>2. l \in SayLine
    BY <1>1, <2>1, SentLines
  <2>. HIDE DEF l
  <2>3. s \in Seq(SentLine)
    BY <1>2, <1>4, <2>2, ToAllShape
  <2>. HIDE DEF s
  <2>. QED  BY <1>1, <1>6, <2>1, <2>3
<1>11. CASE RelayUnknown(c)
  <2>1. down' = down /\ up' \in [Clients -> Seq(UpLine)] /\ Does(c, rel[c], To(c, Msg("421")))
    BY <1>11, ReadsShape, Zenon DEF RelayUnknown
  <2>. QED  BY <1>1, <1>4, <1>5, <2>1
<1>. QED  BY <1>7, <1>8, <1>9, <1>10, <1>11 DEF Handles

LEMMA QuitShape ==
  ASSUME Typed, SmokeTyped, NEW c \in Clients, NEW gone, RelayQuit(c, gone)
  PROVE  Handled(c) /\ down' = down /\ up' \in [Clients -> Seq(UpLine)]
<1>. DEFINE r == [rel[c] EXCEPT !.closed = TRUE, !.joined = FALSE]
            s == IF rel[c].registered THEN ToAll(Peers(c), From(c, "QUIT")) ELSE <<>>
<1>1. rel[c] \in ClientRec /\ rel[c].nick \in Name
  BY DEF SmokeTyped, ClientRec
<1>2. down' = down /\ up' \in [Clients -> Seq(UpLine)]
  BY ReadsShape DEF RelayQuit, Typed
<1>3. Does(c, r, s)
  BY DEF RelayQuit
<1>4. r \in ClientRec /\ r.closed
  BY <1>1, RelayFields, Zenon
<1>5. s \in Seq(SentLine)
  <2>1. From(c, "QUIT") \in QuietLine /\ Peers(c) \subseteq Clients
    BY <1>1, SentLines DEF From, Peers, Members
  <2>. QED  BY <2>1, ToAllShape, OneLine
<1>. HIDE DEF r, s
<1>. QED  BY <1>2, <1>3, <1>4, <1>5 DEF Handled

LEMMA RelaySmoke == ASSUME Typed, SmokeInv, NEW c \in Clients, RelayStep(c) PROVE Typed' /\ SmokeInv'
<1>1. /\ conf' = conf /\ b' = b /\ bot' = bot /\ work' = work /\ t' = t /\ counted' = counted /\ h' = h /\ SmokeKeeps
      /\ Handles(c) \/ RelayQuit(c, Gone(c)) \/ RelaySend(c, Listening, Stamped(Head(todo[c]).line))
  BY DEF RelayStep, RelayKeeps, smokeVars, SmokeKeeps
<1>2. /\ rel \in [Clients -> ClientRec] /\ todo \in [Clients -> Seq(SentLine)] /\ t \in TesterRec
      /\ up \in [Clients -> Seq(UpLine)] /\ down \in [Clients -> Seq(DownLine)] /\ b \in BotRec
  BY DEF SmokeInv, SmokeTyped, Typed, SentLine
<1>3. Ordered'
  BY <1>1 DEF SmokeInv, Ordered
<1>4. ASSUME up' \in [Clients -> Seq(UpLine)], down' \in [Clients -> Seq(DownLine)],
             rel' \in [Clients -> ClientRec], todo' \in [Clients -> Seq(SentLine)],
             t.phase \in {"send", "wait"} =>
               \A k \in DOMAIN down'[Tester] : down'[Tester][k].cmd = "SAY" => down'[Tester][k].at >= t.cmd,
             NicksDiffer'
      PROVE  Typed' /\ SmokeInv'
  <2>1. Typed'
    BY <1>1, <1>2, <1>4, TypedInTest
  <2>2. SmokeTyped'
    BY <1>1, <1>4 DEF SmokeInv, SmokeTyped, SentLine
  <2>3. Honest'
    BY <1>1, <1>4 DEF SmokeInv, Honest, Answered, AllAnswered, Tests
  <2>. QED  BY <1>3, <1>4, <2>1, <2>2, <2>3 DEF SmokeInv
<1>5. CASE Handled(c) /\ down' = down /\ up' \in [Clients -> Seq(UpLine)]
  <2>1. PICK r \in ClientRec, s \in Seq(SentLine) :
          Does(c, r, s) /\ (r.closed \/ (r.closed = rel[c].closed /\ (r.nick = rel[c].nick \/ ~Collides(c, r.nick))))
    BY <1>5 DEF Handled
  <2>2. /\ rel' \in [Clients -> ClientRec] /\ todo' \in [Clients -> Seq(SentLine)]
        /\ rel'[c] = r /\ \A d \in Clients : d # c => rel'[d] = rel[d]
    BY <1>2, <2>1 DEF Does
  <2>3. NicksDiffer'
    <3>. SUFFICES ASSUME NEW d \in Clients, NEW e \in Clients, d # e, ~rel'[d].closed, ~rel'[e].closed,
                         rel'[d].nick # NoNick
                  PROVE  rel'[d].nick # rel'[e].nick
      BY DEF NicksDiffer
    <3>1. CASE d # c /\ e # c
      BY <2>2, <3>1 DEF SmokeInv, NicksDiffer
    <3>2. CASE d = c /\ e # c
      BY <2>1, <2>2, <3>2 DEF SmokeInv, NicksDiffer, Collides
    <3>3. CASE d # c /\ e = c
      BY <2>1, <2>2, <3>3 DEF SmokeInv, NicksDiffer, Collides
    <3>. QED  BY <3>1, <3>2, <3>3
  <2>4. t.phase \in {"send", "wait"} =>
          \A k \in DOMAIN down'[Tester] : down'[Tester][k].cmd = "SAY" => down'[Tester][k].at >= t.cmd
    BY <1>5 DEF SmokeInv, Honest
  <2>. QED  BY <1>2, <1>4, <1>5, <2>2, <2>3, <2>4
<1>6. CASE RelaySend(c, Listening, Stamped(Head(todo[c]).line))
  <2>. DEFINE to == Head(todo[c]).to
              l == Head(todo[c]).line
  <2>1. /\ todo[c] # <<>> /\ todo' = [todo EXCEPT ![c] = Tail(@)] /\ up' = up /\ rel' = rel
        /\ down' = down \/ down' = [down EXCEPT ![to] = Append(@, Stamped(l))]
    BY <1>6 DEF RelaySend
  <2>2. /\ todo[c] \in Seq(SentLine) /\ Head(todo[c]) \in SentLine /\ Tail(todo[c]) \in Seq(SentLine)
    BY <1>2, <2>1, Tailed
  <2>3. to \in Clients /\ l \in QuietLine \cup SayLine
    BY <2>2 DEF SentLine
  <2>4. t.drains \in Nat /\ t.cmd \in Nat
    BY <1>2, TesterFields
  <2>5. Stamped(l) \in DownLine /\ (Stamped(l).cmd = "SAY" => Stamped(l).at = t.drains)
    <3>1. CASE l.cmd = "SAY"
      <4>1. l \in SayLine
        BY <2>3, <3>1 DEF QuietLine
      <4>2. Stamped(l) = [cmd |-> "SAY", nick |-> l.nick, re |-> l.re, at |-> t.drains]
        BY <3>1 DEF Stamped
      <4>3. Stamped(l) \in StampedLine
        BY <2>4, <4>1, <4>2 DEF SayLine, StampedLine
      <4>. QED  BY <4>2, <4>3 DEF DownLine
    <3>2. CASE l.cmd # "SAY"
      <4>1. Stamped(l) = l /\ l \in QuietLine
        BY <2>3, <3>2 DEF Stamped, SayLine
      <4>. QED  BY <3>2, <4>1 DEF DownLine
    <3>. QED  BY <3>1, <3>2
  <2>6. todo' \in [Clients -> Seq(SentLine)]
    BY <1>2, <2>1, <2>2
  <2>. DEFINE m == Stamped(l)
  <2>. HIDE DEF m, to, l
  <2>7. down' = down \/ down' = [down EXCEPT ![to] = Append(@, m)]
    BY <2>1 DEF m
  <2>8. m \in DownLine /\ (m.cmd = "SAY" => m.at = t.drains)
    BY <2>5 DEF m
  <2>9. down' \in [Clients -> Seq(DownLine)]
    <3>1. Append(down[to], m) \in Seq(DownLine)
      BY <1>2, <2>3, <2>8
    <3>. QED  BY <1>2, <2>7, <3>1
  <2>10. t.phase \in {"send", "wait"} =>
           \A k \in DOMAIN down'[Tester] : down'[Tester][k].cmd = "SAY" => down'[Tester][k].at >= t.cmd
    <3>1. CASE down'[Tester] = down[Tester]
      BY <3>1 DEF SmokeInv, Honest
    <3>2. CASE to = Tester /\ down'[Tester] = Append(down[Tester], m)
      <4>1. down[Tester] \in Seq(DownLine)
        BY <1>2, TwoClients
      <4>. DEFINE q == down[Tester]
      <4>. HIDE DEF q
      <4>2. \A k \in DOMAIN Append(q, m) : (k \in DOMAIN q /\ Append(q, m)[k] = q[k]) \/ Append(q, m)[k] = m
        BY <2>8, <4>1, AppendProperties DEF q
      <4>3. t.phase \in {"send", "wait"} =>
              t.drains >= t.cmd /\ \A k \in DOMAIN q : q[k].cmd = "SAY" => q[k].at >= t.cmd
        BY DEF SmokeInv, Honest, q
      <4>4. down'[Tester] = Append(q, m)
        BY <3>2 DEF q
      <4>. QED  BY <2>8, <4>2, <4>3, <4>4
    <3>. QED  BY <1>2, <2>3, <2>7, <3>1, <3>2, TwoClients
  <2>11. NicksDiffer'
    BY <2>1 DEF SmokeInv, NicksDiffer
  <2>. QED  BY <1>2, <1>4, <2>1, <2>6, <2>9, <2>10, <2>11
<1>. QED  BY <1>1, <1>5, <1>6, HandlesShape, QuitShape DEF SmokeInv

LEMMA SmokeInvNext == ASSUME Typed, SmokeInv, SmokeStep PROVE Typed' /\ SmokeInv'
BY BotSmoke, ClientSmoke, HarnessSmoke, RelaySmoke DEF SmokeStep

LEMMA SoundTest == ASSUME SmokeInv PROVE SmokeTestIsSound
BY DEF SmokeInv, SmokeTestIsSound, VerdictIsHonest, NothingLeftRunning, Ordered, Honest, AllAnswered, Answered

----------------------------------------------------------------------------
(* All of it.                                                              *)

LEMMA SmokeStepKeeps == ASSUME Typed, SmokeStep PROVE SmokeKeeps
<1>1. CASE Register \/ Negotiates
  BY <1>1, NegotiationShape DEF Negotiated, SmokeKeeps
<1>2. CASE BotHears \/ (\E i \in DOMAIN work : BotSays(i)) \/ BotExits
  BY <1>2 DEF BotHears, BotSays, BotExits, BotKeeps, SmokeKeeps
<1>3. CASE Client
  BY <1>3, ClientActs DEF SmokeKeeps
<1>4. CASE Harness
  BY <1>4 DEF Harness, StartBot, StartClient, Finally, StopClient, StopBot, HarnessKeeps, regVars, SmokeKeeps
<1>5. CASE \E c \in Clients : RelayStep(c)
  BY <1>5 DEF RelayStep, RelayKeeps, SmokeKeeps
<1>. QED  BY <1>1, <1>2, <1>3, <1>4, <1>5 DEF SmokeStep, BotStep

LEMMA NamelessTyped == NoNick \in Name
BY DEF NoNick, Name

LEMMA StartsTyped == ASSUME SmokeSpecInit PROVE Typed
<1>1. conf \in Confs /\ nickOf \in [Users -> Nicks \cup {Off}]
  BY ConfsAssumption DEF SmokeSpecInit, Init, Nicks
<1>2. b \in BotRec /\ srv \in ServerRec
  BY NamelessTyped DEF SmokeSpecInit, Init, NewBot, NewServer, BotRec, ServerRec, Phases, NoNick
<1>3. up \in [Clients -> Seq(UpLine)] /\ down \in [Clients -> Seq(DownLine)] /\ waiting \in [Nicks -> Seq(Nat)]
      /\ answers \in Seq(Answer) /\ cmds \in Seq(Command) /\ decided \in Seq(Seq(Who)) /\ Len(decided) = Len(cmds)
  BY OneLine DEF SmokeSpecInit, Init
<1>4. asked \subseteq Nicks /\ timers \subseteq Nicks /\ cache \in [Nicks -> Who \cup {"absent"}]
  BY DEF SmokeSpecInit, Init
<1>. QED  BY <1>1, <1>2, <1>3, <1>4 DEF Typed

LEMMA InvInit == ASSUME SmokeSpecInit PROVE Inv
<1>1. Typed
  BY StartsTyped
<1>2. /\ down[Bot] = <<>> /\ up[Bot] = <<>> /\ cmds = <<>> /\ decided = <<>> /\ answers = <<>> /\ asking = {}
      /\ timers = {} /\ \A n \in Nicks : waiting[n] = <<>> /\ cache[n] = "absent"
  BY TypedConf, <1>1 DEF SmokeSpecInit, Init
<1>3. DOMAIN <<>> = {} /\ Len(<<>>) = 0
  OBVIOUS
<1>4. Kept
  <2>1. Sent(down[Bot]) = {} /\ Pending = {}
    BY <1>2, <1>3 DEF Sent, Pending
  <2>2. Wire(down[Bot]) = {} /\ Distinct(down[Bot])
    BY <2>1 DEF Wire, Distinct
  <2>3. InLookup = {} /\ Apart
    BY <1>2, <1>3 DEF InLookup, Apart
  <2>4. Held = {}
    BY <1>2, <2>2, <2>3 DEF Held
  <2>5. \A n \in Nicks : waiting[n] # <<>> <=> n \in timers
    BY <1>2
  <2>. QED  BY <1>2, <1>3, <2>1, <2>2, <2>3, <2>4, <2>5 DEF Kept
<1>5. Identity
  <2>1. Sourced
    BY <1>2, <1>3 DEF Sourced, Sent
  <2>2. Fresh
    BY <1>2, <1>3 DEF Fresh, Pending, Truthful, StatusOf
  <2>3. Cautious
    BY <1>2 DEF Cautious
  <2>. QED  BY <1>2, <1>3, <2>1, <2>2, <2>3 DEF Identity, IdentityIsCurrent
<1>6. Authentication
  <2>1. ~srv.login /\ ~srv.nick /\ ~srv.user /\ b.phase = "off" /\ ~b.ended
    BY DEF SmokeSpecInit, Init, NewBot, NewServer
  <2>. QED  BY <1>2, <1>3, <2>1 DEF Authentication, LoginFirst, HeldOpen
<1>7. Idle /\ Idling
  BY <1>2 DEF Idle, Idling, SmokeSpecInit, RelayInit, SmokeInit
<1>8. SmokeInv
  <2>1. SmokeTyped
    <3>1. NoNick \in Name
      BY NamelessTyped
    <3>2. rel \in [Clients -> ClientRec] /\ t \in TesterRec /\ h \in HarnessRec
      BY <3>1 DEF SmokeSpecInit, RelayInit, SmokeInit, ClientRec, TesterRec, HarnessRec
    <3>3. todo \in [Clients -> Seq(SentLine)]
      BY OneLine DEF SmokeSpecInit, RelayInit
    <3>4. DOMAIN work \subseteq Nat /\ counted = {}
      BY <1>3 DEF SmokeSpecInit, SmokeInit
    <3>. QED  BY <3>2, <3>3, <3>4 DEF SmokeTyped, SentLine
  <2>2. NicksDiffer
    BY DEF NicksDiffer, SmokeSpecInit, RelayInit
  <2>3. h.phase = "start" /\ bot = "none" /\ t.phase = "none" /\ counted = {}
    BY DEF SmokeSpecInit, SmokeInit
  <2>4. Ordered
    BY <2>3 DEF Ordered
  <2>5. Honest
    BY <2>3 DEF Honest
  <2>. QED  BY <2>1, <2>2, <2>4, <2>5 DEF SmokeInv
<1>. QED  BY <1>1, <1>4, <1>5, <1>6, <1>7, <1>8 DEF Inv, NetworkInv

LEMMA InvNext == ASSUME Inv, [SmokeNext]_allVars PROVE Inv'
<1>1. CASE NetworkStep
  <2>1. ~Testing /\ RegNext /\ rel' = rel /\ counted' = counted /\ h' = h /\ t' = t
    BY <1>1 DEF NetworkStep, relayVars, smokeVars
  <2>2. Typed /\ Kept /\ Identity /\ Authentication /\ Idling
    BY <2>1 DEF Inv, NetworkInv
  <2>3. Typed' /\ Kept' /\ Identity' /\ Authentication' /\ conf' = conf
    BY <2>1, <2>2, KeptNext, IdentityNext, AuthenticationNext, ConfStays
  <2>4. Idling' /\ ~Testing'
    BY <2>1, <2>2, <2>3 DEF Idling, Testing
  <2>. QED  BY <2>3, <2>4 DEF Inv, NetworkInv
<1>2. CASE SmokeStep
  <2>1. Testing /\ Typed /\ SmokeInv /\ Idle
    BY <1>2 DEF SmokeStep, Inv
  <2>2. Typed' /\ SmokeInv' /\ SmokeKeeps
    BY <1>2, <2>1, SmokeInvNext, SmokeStepKeeps
  <2>3. Idle' /\ Testing'
    BY <2>1, <2>2 DEF Idle, Testing, SmokeKeeps, lookupVars, userVars
  <2>. QED  BY <2>2, <2>3 DEF Inv
<1>3. CASE UNCHANGED allVars
  <2>1. /\ UNCHANGED <<conf, b, up, down, srv, lookupVars, serviceVars, userVars, rel, todo, bot, work, t, counted, h>>
    BY <1>3 DEF allVars, regVars, relayVars, smokeVars
  <2>2. Typed'
    BY <2>1 DEF Inv, Typed, lookupVars, serviceVars, userVars
  <2>3. (Idle <=> Idle') /\ (Idling <=> Idling') /\ (Testing <=> Testing')
    BY <2>1 DEF Idle, Idling, Testing, lookupVars, userVars
  <2>4. Kept => Kept'
    BY <2>1 DEF Kept, Held, Pending, InLookup, Apart, Distinct, Wire, Sent, lookupVars, userVars
  <2>5. Identity => Identity'
    <3>1. Sourced => Sourced'
      BY <2>1 DEF Sourced, Sent, lookupVars, userVars
    <3>2. Fresh => Fresh'
      BY <2>1 DEF Fresh, Pending, Truthful, StatusOf, Identified, lookupVars, serviceVars, userVars
    <3>3. Cautious => Cautious'
      BY <2>1 DEF Cautious, CacheIsSafe, Follows, Announced, Renames, Sent, Pending, Identified, lookupVars, userVars
    <3>4. IdentityIsCurrent => IdentityIsCurrent'
      BY <2>1 DEF IdentityIsCurrent, lookupVars, userVars
    <3>. QED  BY <3>1, <3>2, <3>3, <3>4 DEF Identity
  <2>6. Authentication => Authentication'
    BY <2>1, Zenon DEF Authentication, Guarded, LoginFirst, LoggedInOn, AsksLoggedIn, HeldOpen
  <2>7. SmokeInv => SmokeInv'
    BY <2>1 DEF SmokeInv, SmokeTyped, NicksDiffer, Ordered, Honest, Answered, AllAnswered, Tests
  <2>. QED  BY <2>2, <2>3, <2>4, <2>5, <2>6, <2>7 DEF Inv, NetworkInv
<1>. QED  BY <1>1, <1>2, <1>3 DEF SmokeNext

\* What is invariant of a network and of a smoke test holds of every behaviour.
LEMMA Invariant == Spec => []Inv
<1>1. SmokeSpecInit => Inv
  BY InvInit
<1>2. Inv /\ [SmokeNext]_allVars => Inv'
  BY InvNext
<1>. QED  BY <1>1, <1>2, PTL DEF Spec

\* The lines, the registration's state and the lookups' have their types, whatever
\* the server offers and answers (irc_CAP, _dispatchMessage, microirc_server.py).
THEOREM ConnectTyped == Spec => []Typed
<1>1. Inv => Typed
  BY DEF Inv
<1>. QED  BY <1>1, Invariant, PTL

\* Every command gets one decision, or waits for it in one place
\* (resolveLegacyAccount, _finishLegacyStatus, connectionLost).
THEOREM OneDecision == Spec => []DecidedOnce
<1>1. ASSUME Inv PROVE DecidedOnce
  <2>1. CASE ~Testing
    BY <1>1, <2>1, OnePlace DEF Inv, NetworkInv
  <2>2. CASE Testing
    <3>1. cmds = <<>> /\ timers = {} /\ \A n \in Nicks : waiting[n] = <<>>
      BY <1>1, <2>2 DEF Inv, Idle
    <3>2. DOMAIN <<>> = {}
      OBVIOUS
    <3>3. \A i \in DOMAIN cmds : FALSE
      BY <3>1, <3>2
    <3>. QED  BY <3>1, <3>3 DEF DecidedOnce
  <2>. QED  BY <2>1, <2>2
<1>. QED  BY <1>1, Invariant, PTL

\* No command is run as the owner's that the owner did not send, as far as the bot can
\* tell (_forgetLegacyAccount, HandleLegacyStatusReply).
THEOREM CurrentIdentity == Spec => []IdentityIsCurrent
<1>1. ASSUME Inv PROVE IdentityIsCurrent
  <2>1. CASE ~Testing
    BY <1>1, <2>1 DEF Inv, NetworkInv, Identity
  <2>2. CASE Testing
    <3>1. cmds = <<>> /\ decided \in Seq(Seq(Who)) /\ Len(decided) = Len(cmds)
      BY <1>1, <2>2 DEF Inv, Idle, Typed
    <3>2. Len(<<>>) = 0
      OBVIOUS
    <3>3. \A i \in DOMAIN decided : FALSE
      BY <3>1, <3>2
    <3>. QED  BY <3>3 DEF IdentityIsCurrent
  <2>. QED  BY <2>1, <2>2
<1>. QED  BY <1>1, Invariant, PTL

\* A bot that is to use SASL does not register without (irc_CAP, irc_AUTHENTICATE).
THEOREM LogsInFirst == Spec => []AuthenticatedFirst
<1>1. ASSUME Inv PROVE AuthenticatedFirst
  <2>1. CASE ~Testing
    BY <1>1, <2>1, AuthenticatedOnes DEF Inv, NetworkInv
  <2>2. CASE Testing
    BY <2>2 DEF Testing, AuthenticatedFirst
  <2>. QED  BY <2>1, <2>2
<1>. QED  BY <1>1, Invariant, PTL

\* A smoke test that passes had a reply for every command, one that came after what
\* was there before was discarded, and leaves no process behind
\* (drain_stale_replies, wait_for_result, stop_process, _irc_NICK).
THEOREM SoundSmokeTest == Spec => []SmokeTestIsSound
<1>1. ASSUME Inv PROVE SmokeTestIsSound
  <2>1. CASE Testing
    BY <1>1, <2>1, SoundTest DEF Inv
  <2>2. CASE ~Testing
    <3>1. Idling
      BY <1>1, <2>2 DEF Inv
    <3>. QED  BY <3>1 DEF Idling, SmokeTestIsSound, NicksDiffer, VerdictIsHonest, NothingLeftRunning
  <2>. QED  BY <2>1, <2>2
<1>. QED  BY <1>1, Invariant, PTL
============================================================================
