---------------------------- MODULE Registration ----------------------------
(***************************************************************************)
(* How a connection of the bot registers and learns who its users are:       *)
(* BurlyBot.register and the CAP, AUTHENTICATE and nick handlers, and where   *)
(* the server has no account capability the lookups with NickServ STATUS      *)
(* (util/client.py) for admin commands and BotWrapper.isadmin.                *)
(*                                                                         *)
(* The server of a network, its services and its users are external.  The     *)
(* other server there is, the relay of the smoke test, is module Relay.       *)
(* A nick is <<base, n>>, n times suffixed.                                   *)
(***************************************************************************)
EXTENDS Naturals, Sequences, FiniteSets, SequencesExt

CONSTANTS Bot, Clients,       \* the bot's connection, and every client's of the relay
          Confs,              \* what this is run with, one for a behaviour:
                              \*   kind: "network" or "relay"; sasl, payload, nicks: the bot's
                              \*   net: what the server is like; taken: nicks in use there
                              \*   start: the users' nicks at first; admin: the commands
                              \*   they send; events: bound on what they do
          Chunk,              \* 400
          Users, Owner,       \* nick -> the user it is registered to with the services
          Off                 \* the nick of a user who left

ASSUME RegistrationAssumption == Bot \in Clients /\ Chunk \in Nat \ {0} /\ Off \notin DOMAIN Owner

Nicks == DOMAIN Owner
Cap == {"account", "sasl"}      \* the capabilities the bot may ask for
Name == (STRING \cup {"none"}) \X Nat      \* base "none": no nick yet

ASSUME ConfsAssumption ==
  \A c \in Confs :
    /\ c.kind \in {"network", "relay"} /\ c.payload \in Nat /\ c.nicks \in Seq(Name) /\ c.nicks # <<>>
    /\ c.net.caps \subseteq Cap /\ c.net.grants \in {"all", "none", "split"}
    /\ c.net.plain \in BOOLEAN /\ c.net.login \in BOOLEAN
    /\ c.start \subseteq [Users -> Nicks \cup {Off}]

VARIABLES
  conf,
  b,                  \* the connection's fields
  up, down,           \* client -> lines on their way to and from the server
  srv,                \* what the server knows of the bot
  nickOf,             \* user -> nick
  asked, answers,     \* the services: STATUS requests, answers on their way
  cache, waiting, timers,  \* _status_cache, _status_pending, _status_timeouts
  cmds,               \* the commands users sent: who, nick, admin (history)
  decided,            \* command -> the identities it was given (history)
  asking,             \* commands whose handler calls isadmin
  moved,              \* nicks that changed hands under a command or an answer (history)
  events

lookupVars == <<cache, waiting, timers, decided>>
serviceVars == <<asked, answers>>
userVars == <<nickOf, cmds, asking, moved, events>>
regVars == <<conf, b, up, down, srv, lookupVars, serviceVars, userVars>>

AccountCaps == {"account"}      \* account-notify, account-tag, extended-join
NewBot == [phase |-> "off", nick |-> <<"none", 0>>, alt |-> 0, ls |-> {}, plain |-> TRUE,
           caps |-> {}, ended |-> FALSE, paid |-> FALSE, legacy |-> FALSE]
NewServer == [cap |-> FALSE, nick |-> FALSE, user |-> FALSE, welcomed |-> FALSE, login |-> FALSE]

Init ==
  /\ conf \in Confs
  /\ b = NewBot /\ srv = NewServer
  /\ up = [c \in Clients |-> <<>>] /\ down = [c \in Clients |-> <<>>]
  /\ nickOf \in conf.start
  /\ asked = {} /\ answers = <<>>
  /\ cache = [n \in Nicks |-> "absent"] /\ waiting = [n \in Nicks |-> <<>>] /\ timers = {}
  /\ cmds = <<>> /\ decided = <<>> /\ asking = {} /\ moved = {} /\ events = 0

Open == b.phase \in {"registering", "on"}
Msg(c) == [cmd |-> c]

----------------------------------------------------------------------------
(* Registration, in the reactor.  A handler of the bot takes the next line    *)
(* and sends lines.                                                         *)

Sends(ls) == up' = [up EXCEPT ![Bot] = @ \o ls]
Says(ls) == Sends(ls) /\ down' = [down EXCEPT ![Bot] = Tail(@)]
Hears(c) == Open /\ down[Bot] # <<>> /\ Head(down[Bot]).cmd = c
Heard == Head(down[Bot])
NoLookup == UNCHANGED <<conf, srv, lookupVars, serviceVars, userVars>>

\* connectionMade and register, whose lines go out unthrottled.
Register ==
  /\ b.phase = "off" /\ ~srv.nick /\ ~srv.user
  /\ b' = [NewBot EXCEPT !.phase = "registering", !.nick = conf.nicks[1]]
  /\ Sends(<<Msg("CAP LS"), [cmd |-> "NICK", nick |-> conf.nicks[1]], Msg("USER")>>)
  /\ UNCHANGED down /\ NoLookup

Ended(r) == IF r.ended THEN r
            ELSE [r EXCEPT !.ended = TRUE, !.legacy = @ \/ r.caps \cap AccountCaps = {}]
EndLines(r) == IF r.ended THEN <<>> ELSE <<Msg("CAP END")>>
EndCap(r) == b' = Ended(r) /\ Says(EndLines(r))

\* QUIT, loseConnection: what comes after is not read
FailSasl == b' = [b EXCEPT !.phase = "closing"] /\ Says(<<Msg("QUIT")>>)

Request(r) ==
  LET want == r.ls \cap (AccountCaps \cup IF conf.sasl THEN {"sasl"} ELSE {}) IN
  IF want = {} THEN EndCap(r) ELSE b' = r /\ Says(<<[cmd |-> "CAP REQ", caps |-> want]>>)

irc_CAP_LS ==
  /\ Hears("LS") /\ NoLookup
  /\ LET r == [b EXCEPT !.ls = @ \cup Heard.caps,
                        !.plain = IF "sasl" \in Heard.caps THEN Heard.plain ELSE @] IN
     IF Heard.more THEN b' = r /\ Says(<<>>)
     ELSE IF conf.sasl /\ ("sasl" \notin r.ls \/ ~r.plain) THEN FailSasl
     ELSE Request(r)

\* Mutant: any acknowledgement ends the negotiation.
AckEnds ==
  /\ Hears("ACK") /\ NoLookup
  /\ EndCap([b EXCEPT !.caps = @ \cup Heard.caps])

irc_CAP_ACK ==
  /\ Hears("ACK") /\ NoLookup
  /\ LET r == [b EXCEPT !.caps = @ \cup Heard.caps] IN
     IF conf.sasl /\ "sasl" \in Heard.caps THEN b' = r /\ Says(<<Msg("AUTHENTICATE PLAIN")>>)
                                           ELSE EndCap(r)

irc_CAP_NAK ==
  /\ Hears("NAK") /\ NoLookup
  /\ IF conf.sasl /\ "sasl" \in Heard.caps THEN FailSasl ELSE EndCap(b)

\* Mutant: no empty line after a payload of whole chunks.
PartsUnended(len) == [i \in 1..((len + Chunk - 1) \div Chunk) |->
                        IF i * Chunk <= len THEN Chunk ELSE len % Chunk]

\* the lengths of the lines the payload is sent in
Parts(len) == [i \in 1..(len \div Chunk + 1) |-> IF i * Chunk <= len THEN Chunk ELSE len % Chunk]

irc_AUTHENTICATE ==
  /\ Hears("AUTHENTICATE") /\ NoLookup
  /\ IF b.paid THEN Says(<<>>) /\ UNCHANGED b
     ELSE /\ b' = [b EXCEPT !.paid = TRUE]
          /\ Says([i \in DOMAIN Parts(conf.payload) |->
                     [cmd |-> "PAYLOAD", len |-> Parts(conf.payload)[i]]])

\* 903 and 907
irc_RPL_SASLSUCCESS == Hears("903") /\ EndCap(b) /\ NoLookup
\* 904 to 906
irc_ERR_SASLFAIL == Hears("904") /\ FailSasl /\ NoLookup

alterCollidedNick(n) ==
  IF b.alt + 1 < Len(conf.nicks) THEN conf.nicks[b.alt + 2] ELSE <<n[1], n[2] + 1>>

\* 433: IRCClient tries the nick it is given
irc_ERR_NICKNAMEINUSE ==
  /\ Hears("433") /\ NoLookup
  /\ LET n == alterCollidedNick(b.nick) IN
     /\ Says(<<[cmd |-> "NICK", nick |-> n]>>)
     /\ b' = [b EXCEPT !.nick = n, !.alt = IF @ + 1 < Len(conf.nicks) THEN @ + 1 ELSE @]

\* signedOn; the channels are joined
irc_RPL_WELCOME ==
  /\ Hears("001") /\ NoLookup
  /\ b' = [b EXCEPT !.phase = "on"]
  /\ Says(<<Msg("JOIN")>>)

\* what no handler answers here: 421, the channel's lines, PRIVMSGs to others
irc_unknown ==
  /\ Open /\ down[Bot] # <<>> /\ Heard.cmd \in {"421", "JOIN", "PART", "353"}
  /\ Says(<<>>) /\ UNCHANGED b /\ NoLookup

Negotiates == \/ irc_CAP_LS \/ irc_CAP_ACK \/ irc_CAP_NAK \/ irc_AUTHENTICATE
              \/ irc_RPL_SASLSUCCESS \/ irc_ERR_SASLFAIL \/ irc_ERR_NICKNAMEINUSE
              \/ irc_RPL_WELCOME \/ irc_unknown

----------------------------------------------------------------------------
(* Who a user is.  A lookup's waiter is a command: one to be dispatched, or    *)
(* one whose handler asked isadmin.                                          *)

Gives(ids, who) ==
  decided' = [i \in DOMAIN decided |-> IF Contains(ids, i) THEN Append(decided[i], who) ELSE decided[i]]

\* Mutant: the waiters are called and kept.
FinishKeepingWaiters(n, who, keep) ==
  /\ timers' = timers \ {n}
  /\ cache' = IF keep THEN [cache EXCEPT ![n] = who] ELSE cache
  /\ Gives(waiting[n], who)
  /\ UNCHANGED waiting

\* _finishLegacyStatus
Finish(n, who, keep) ==
  /\ timers' = timers \ {n}
  /\ cache' = IF keep THEN [cache EXCEPT ![n] = who] ELSE cache
  /\ Gives(waiting[n], who)
  /\ waiting' = [waiting EXCEPT ![n] = <<>>]

\* resolveLegacyAccount: what is cached, a place among the waiters, or a request
Cached(n, i) == cache[n] # "absent" /\ Gives(<<i>>, cache[n]) /\ UNCHANGED <<cache, waiting, timers>>
Joins(n, i) ==
  /\ cache[n] = "absent" /\ waiting[n] # <<>>
  /\ waiting' = [waiting EXCEPT ![n] = Append(@, i)] /\ UNCHANGED <<cache, timers, decided>>
Asks(n, i) ==
  /\ cache[n] = "absent" /\ waiting[n] = <<>>
  /\ waiting' = [waiting EXCEPT ![n] = <<i>>] /\ timers' = timers \cup {n}
  /\ UNCHANGED <<cache, decided>>
Requests(n) == IF cache[n] = "absent" /\ waiting[n] = <<>>
               THEN <<[cmd |-> "STATUS", nick |-> n]>> ELSE <<>>
Resolve(n, i) == Cached(n, i) \/ Joins(n, i) \/ Asks(n, i)

BotOnly == UNCHANGED <<conf, b, srv, serviceVars>>

\* the account that comes with a message, where the network tags them
AccountFor(m) == m.account
NeedsLegacyAccount(m) == m.admin /\ b.legacy

\* _dispatchMessage: an admin command waits for its account where the message
\* brought none and the network has none to bring
irc_PRIVMSG ==
  /\ Hears("PRIVMSG") /\ BotOnly /\ UNCHANGED <<nickOf, cmds, moved, events>>
  /\ LET m == Heard IN
     IF AccountFor(m) = "none" /\ NeedsLegacyAccount(m)
     THEN /\ Resolve(m.nick, m.id) /\ Says(Requests(m.nick)) /\ UNCHANGED asking
     ELSE /\ Says(<<>>) /\ UNCHANGED <<cache, waiting, timers>>
          /\ IF m.admin \/ ~b.legacy
             THEN Gives(<<m.id>>, AccountFor(m)) /\ UNCHANGED asking
             ELSE asking' = asking \cup {m.id} /\ UNCHANGED decided

\* BotWrapper.isadmin in the handler of a command that is open to all, a call in
\* the reactor, with the nick of the event
IsAdmin(i) ==
  /\ i \in asking /\ asking' = asking \ {i} /\ BotOnly
  /\ UNCHANGED <<down, nickOf, cmds, moved, events>>
  /\ IF b.phase = "on" THEN Resolve(cmds[i].nick, i) /\ Sends(Requests(cmds[i].nick))
     ELSE Gives(<<i>>, "none") /\ UNCHANGED <<up, cache, waiting, timers>>

\* an answer is kept, awaited or not
HandleLegacyStatusReply(m) == Finish(m.nick, m.who, TRUE)
irc_NOTICE ==
  /\ Hears("STATUS") /\ BotOnly /\ UNCHANGED userVars
  /\ Says(<<>>)
  /\ IF b.legacy THEN HandleLegacyStatusReply(Heard) ELSE UNCHANGED lookupVars

LookupTimeout(n) ==
  /\ n \in timers /\ Finish(n, "none", FALSE)
  /\ UNCHANGED <<conf, b, srv, up, down, serviceVars, userVars>>

\* legacy_status_ttl, legacy_status_negative_ttl
CacheExpires(n) ==
  /\ cache[n] # "absent" /\ cache' = [cache EXCEPT ![n] = "absent"]
  /\ UNCHANGED <<conf, b, srv, up, down, waiting, timers, decided, serviceVars, userVars>>

\* Mutant: a new nick is forgotten, one that is given up is not.
ForgetNew == cache' = [n \in Nicks |-> IF n = Heard.new THEN "absent" ELSE cache[n]]

\* _forgetLegacyAccount: a NICK's two nicks, a QUIT's one
Forget == cache' = [n \in Nicks |-> IF n = Heard.nick \/ n = Heard.new THEN "absent" ELSE cache[n]]
irc_NICK_QUIT ==
  /\ Hears("NICK") /\ BotOnly /\ UNCHANGED <<waiting, timers, decided, userVars>>
  /\ Says(<<>>) /\ Forget

\* connectionLost: what waits is told nobody; the next connection has a table of its own
ConnectionLost ==
  /\ Open \/ b.phase = "closing"
  /\ b' = [b EXCEPT !.phase = "lost"]
  /\ up' = [up EXCEPT ![Bot] = <<>>] /\ down' = [down EXCEPT ![Bot] = <<>>]
  /\ decided' = [i \in DOMAIN decided |->
                   IF \E n \in Nicks : Contains(waiting[n], i) THEN Append(decided[i], "none") ELSE decided[i]]
  /\ waiting' = [n \in Nicks |-> <<>>] /\ timers' = {}
  /\ asked' = {} /\ answers' = <<>>
  /\ UNCHANGED <<conf, srv, cache, userVars>>

Lookups == irc_PRIVMSG \/ irc_NOTICE \/ irc_NICK_QUIT \/ \E i \in asking : IsAdmin(i)

----------------------------------------------------------------------------
(* The server of a network, its services and its users.                     *)

Answers(ls) == down' = [down EXCEPT ![Bot] = @ \o ls]
Takes(c) == conf.kind = "network" /\ up[Bot] # <<>> /\ Head(up[Bot]).cmd = c /\ b.phase # "lost"
            /\ up' = [up EXCEPT ![Bot] = Tail(@)]
Taken == Head(up[Bot])
ServerOnly == UNCHANGED <<conf, b, lookupVars, answers, userVars>>

\* 001, once the nick and the user are known and no negotiation is open
Welcomes(s) == ~s.cap /\ s.nick /\ s.user /\ ~s.welcomed
Knows(s, ls) == /\ srv' = [s EXCEPT !.welcomed = @ \/ Welcomes(s)]
                /\ Answers(ls \o IF Welcomes(s) THEN <<Msg("001")>> ELSE <<>>)

Offers(caps, more) == [cmd |-> "LS", caps |-> caps, plain |-> conf.net.plain, more |-> more]
ServerCapLs ==
  /\ Takes("CAP LS") /\ ServerOnly /\ UNCHANGED asked
  /\ IF ~conf.net.cap THEN Knows(srv, <<Msg("421")>>)
     ELSE Knows([srv EXCEPT !.cap = TRUE],
                IF conf.net.lines = 1 THEN <<Offers(conf.net.caps, FALSE)>>
                ELSE <<Offers(conf.net.caps \cap {"sasl"}, TRUE), Offers(conf.net.caps \ {"sasl"}, FALSE)>>)

ServerRegisters ==
  /\ ServerOnly /\ UNCHANGED asked
  /\ \/ /\ Takes("NICK")
        /\ IF Taken.nick \in conf.taken THEN Knows(srv, <<Msg("433")>>)
                                        ELSE Knows([srv EXCEPT !.nick = TRUE], <<>>)
     \/ Takes("USER") /\ Knows([srv EXCEPT !.user = TRUE], <<>>)
     \/ Takes("CAP END") /\ Knows([srv EXCEPT !.cap = FALSE], <<>>)
     \/ Takes("JOIN") /\ Knows(srv, <<>>)

ServerRequest ==
  /\ Takes("CAP REQ") /\ ServerOnly /\ UNCHANGED asked
  /\ Knows(srv, IF conf.net.grants = "all" THEN <<[cmd |-> "ACK", caps |-> Taken.caps]>>
                ELSE IF conf.net.grants = "none" THEN <<[cmd |-> "NAK", caps |-> Taken.caps]>>
                ELSE SetToSeq({[cmd |-> "ACK", caps |-> {c}] : c \in Taken.caps}))

\* a payload ends with a line that is not full
ServerAuthenticate ==
  /\ ServerOnly /\ UNCHANGED asked
  /\ \/ Takes("AUTHENTICATE PLAIN") /\ Knows(srv, <<Msg("AUTHENTICATE")>>)
     \/ /\ Takes("PAYLOAD")
        /\ IF Taken.len = Chunk THEN Knows(srv, <<>>)
           ELSE Knows([srv EXCEPT !.login = conf.net.login], <<Msg(IF conf.net.login THEN "903" ELSE "904")>>)

ServerStatus ==
  /\ Takes("STATUS") /\ ServerOnly
  /\ asked' = asked \cup {Taken.nick} /\ Knows(srv, <<>>)

\* QUIT: the server closes
ServerQuit == Takes("QUIT") /\ ServerOnly /\ UNCHANGED asked /\ Knows(srv, <<>>)

Server == ServerCapLs \/ ServerRegisters \/ ServerRequest \/ ServerAuthenticate \/ ServerStatus \/ ServerQuit

Identified(n) == IF \E u \in Users : nickOf[u] = n /\ Owner[n] = u THEN "owner" ELSE "none"

\* the services look at a nick, and their answer gets onto the bot's connection later
ServicesLook(n) ==
  /\ n \in asked /\ asked' = asked \ {n} /\ b.phase = "on"
  /\ answers' = Append(answers, [cmd |-> "STATUS", nick |-> n, who |-> Identified(n)])
  /\ UNCHANGED <<conf, b, up, down, srv, lookupVars, userVars>>
ServicesAnswer ==
  /\ answers # <<>> /\ answers' = Tail(answers)
  /\ Answers(<<Head(answers)>>)
  /\ UNCHANGED <<conf, b, up, srv, lookupVars, asked, userVars>>

Busy == b.phase = "on" /\ events < conf.events /\ events' = events + 1
UserOnly == UNCHANGED <<conf, b, up, srv, cache, waiting, timers, serviceVars, asking>>

UserSays(u, admin) ==
  /\ Busy /\ UserOnly /\ nickOf[u] # Off /\ admin \in conf.admin /\ UNCHANGED <<nickOf, moved>>
  /\ cmds' = Append(cmds, [who |-> u, nick |-> nickOf[u], admin |-> admin, is |-> Identified(nickOf[u])])
  /\ decided' = Append(decided, <<>>)
  /\ Answers(<<[cmd |-> "PRIVMSG", id |-> Len(cmds'), nick |-> nickOf[u], admin |-> admin,
                account |-> IF "account" \in conf.net.caps THEN Identified(nickOf[u]) ELSE "none"]>>)

\* a nick is in question from a command of it, or a look at it, until the bot decides
InQuestion(n) ==
  \/ \E i \in DOMAIN cmds : cmds[i].nick = n /\ decided[i] = <<>>
  \/ n \in asked \/ \E q \in {up[Bot], answers, down[Bot]} : \E i \in DOMAIN q :
                      q[i].cmd = "STATUS" /\ q[i].nick = n

\* u gets a nick or leaves, in the bot's sight (a shared channel) or out of it; who
\* comes to the network is not announced by a NICK
UserMoves(u, n, seen) ==
  /\ Busy /\ UserOnly /\ UNCHANGED <<cmds, decided>>
  /\ n # nickOf[u] /\ (nickOf[u] = Off => seen) /\ \A v \in Users : nickOf[v] = n => n = Off
  /\ nickOf' = [nickOf EXCEPT ![u] = n]
  /\ moved' = moved \cup {k \in {nickOf[u], n} : InQuestion(k) \/ ~seen}
  /\ Answers(IF seen /\ nickOf[u] # Off THEN <<[cmd |-> "NICK", nick |-> nickOf[u], new |-> n]>> ELSE <<>>)

World == \/ \E n \in asked : ServicesLook(n)
         \/ ServicesAnswer
         \/ \E u \in Users : (\E a \in BOOLEAN : UserSays(u, a))
                             \/ \E n \in Nicks \cup {Off}, s \in BOOLEAN : UserMoves(u, n, s)

RegNext == Register \/ Negotiates \/ Lookups \/ ConnectionLost \/ Server \/ World
           \/ \E n \in Nicks : LookupTimeout(n) \/ CacheExpires(n)

----------------------------------------------------------------------------
(* Properties.                                                             *)

\* A bot that is to use SASL finishes the negotiation logged in (irc_CAP,
\* irc_AUTHENTICATE), whatever the server offers, grants and answers.  Not so where
\* the server acknowledges the capabilities one by one, nor where it knows no CAP.
AuthenticatedFirst ==
  conf.kind = "network" /\ conf.sasl /\ (b.ended \/ b.phase = "on") =>
    srv.login \/ conf.net.grants = "split" \/ ~conf.net.cap

\* An identity a command is given is the one its sender had when it was sent: what
\* the lookups cache and share does not outlive a change of nick the bot sees
\* (resolveLegacyAccount, _forgetLegacyAccount).  A nick that changes hands while it
\* is in question, or out of sight, is not told apart.
IdentityIsCurrent ==
  \A i \in DOMAIN decided : \A k \in DOMAIN decided[i] :
    decided[i][k] = "owner" => cmds[i].is = "owner" \/ cmds[i].nick \in moved

\* A command is decided once at most; until then it is on its way, asked about by
\* its handler, or waits for a lookup whose timer runs, in one place.
Places(i) ==
  {<<"wire", k>> : k \in {j \in DOMAIN down[Bot] : down[Bot][j].cmd = "PRIVMSG" /\ down[Bot][j].id = i}}
  \cup {<<"asking", k>> : k \in asking \cap {i}}
  \cup (UNION {{<<n, k>> : k \in {j \in DOMAIN waiting[n] : waiting[n][j] = i}} : n \in timers})
  \cup {<<"decided", k>> : k \in DOMAIN decided[i]}
DecidedOnce ==
  /\ b.phase # "lost" => \A i \in DOMAIN cmds : Cardinality(Places(i)) = 1
  /\ \A i \in DOMAIN cmds : Len(decided[i]) <= 1
  /\ \A n \in Nicks : waiting[n] # <<>> <=> n \in timers

\* Registration ends, with a nick and signed on or with the connection closed, and a
\* command that waits for a lookup is decided, whether the services answer or not.
Waits(i) == \E n \in Nicks : Contains(waiting[n], i)
RegistrationEnds == b.phase = "registering" ~> b.phase \in {"on", "lost"}
WaitersAreTold == \A i \in 1..3 : Waits(i) ~> ~Waits(i)
============================================================================
