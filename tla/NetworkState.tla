---------------------------- MODULE NetworkState ----------------------------
(***************************************************************************)
(* The bot's picture of a network against the network: the server and its   *)
(* users act, tell the bot what it is entitled to see over one ordered      *)
(* connection, and the irc_* handlers of util/client.py apply it to the     *)
(* picture (IrcState) and to the accounts they remember.                    *)
(*                                                                         *)
(* The server is external: it speaks IRC with account-notify and            *)
(* extended-join and without multi-prefix, as the bot asks it to.           *)
(***************************************************************************)
EXTENDS IrcState, Sequences

CONSTANTS Bot, Others,
          Accounts, NoAccount,
          Off,              \* the nick of who is not on the network
          Home,             \* the nick of each of the others at first
          BotNick,          \* the configured nick
          Starts,           \* bound: who is on which channel at first
          Concerns,         \* bound: what happens besides people coming, going and
                            \* changing nick, and how many events: [with, most]
          MaxWire           \* bound: bursts on their way to the bot

People == {Bot} \cup Others
RankModes == OpModes \cup VoiceModes
Above(m) == IF m \in VoiceModes THEN OpModes ELSE {}   \* what hides m in NAMES

ASSUME NetworkAssumption ==
  /\ Bot \notin Others /\ Off \notin Nicks /\ NoAccount \notin Accounts
  /\ Home \in [Others -> Nicks] /\ BotNick \in Nicks
  /\ \A u \in Others : Home[u] # BotNick /\ \A v \in Others \ {u} : Home[u] # Home[v]
  /\ OpModes \cap VoiceModes = {} /\ MaxWire \in Nat
  /\ Starts \subseteq [Chans -> SUBSET Others] /\ \A k \in Concerns : k.most \in Nat

VARIABLES
  nickOf, account,       \* person -> nick or Off, services account
  member, ranks,         \* channel -> people in it, <<person, mode>> of the ranked
  flags, bans, topic,    \* channel -> its modes, its bans, its topic
  wire,                  \* what is on its way to the bot
  asks,                  \* what the bot has asked for and was not answered
  concern, events,       \* the concern of this behaviour, how much has happened
  nickname,              \* the bot's own idea of its nick, Off when not connected
  pic,                   \* Network, the picture
  accounts,              \* _accounts
  renamed,               \* the bot changed its nick while connected (history)
  lost,                  \* nicks whose holder went out of sight without a QUIT (history)
  raised                 \* a handler raised (history)

peopleVars == <<nickOf, account>>
chanVars == <<member, ranks, flags, bans, topic>>
botVars == <<nickname, pic, accounts, raised>>
networkVars == <<peopleVars, chanVars, wire, asks, concern, events, botVars, renamed, lost>>

NetworkInit ==
  /\ nickOf = [u \in People |-> IF u = Bot THEN Off ELSE Home[u]]
  /\ account = [u \in People |-> NoAccount]
  /\ member \in Starts
  /\ ranks = [c \in Chans |-> {}]
  /\ flags = [c \in Chans |-> {}] /\ bans = [c \in Chans |-> {}]
  /\ topic = [c \in Chans |-> NoTopic]
  /\ wire = <<>> /\ asks = {} /\ events = 0 /\ concern \in Concerns
  /\ nickname = Off /\ pic = Empty
  /\ accounts = [n \in Nicks |-> NoAccount]
  /\ renamed = FALSE /\ lost = {} /\ raised = FALSE

----------------------------------------------------------------------------
(* The server.                                                             *)

On(u) == nickOf[u] # Off
Here(c) == Bot \in member[c]
Seen(u) == u = Bot \/ \E c \in Chans : {u, Bot} \subseteq member[c]
Free(n) == \A u \in People : nickOf[u] # n

\* What the bot does to come and to join is not counted.
Happens == /\ events < concern.most /\ Len(wire) < MaxWire /\ events' = events + 1
           /\ UNCHANGED concern
Comes == Len(wire) < MaxWire /\ UNCHANGED <<events, concern>>

\* msgs go to the bot if it is entitled to them
Tell(entitled, msgs) == wire' = IF On(Bot) /\ entitled THEN wire \o msgs ELSE wire

\* whom the bot no longer sees when member becomes next
OutOfSight(next) ==
  {nickOf[u] : u \in {v \in Others : Seen(v) /\ \A c \in Chans : ~({v, Bot} \subseteq next[c])}}

Shown(c, u) ==
  IF \E m \in RankModes : <<u, m>> \in ranks[c]
  THEN CHOOSE m \in RankModes : <<u, m>> \in ranks[c]
                                /\ \A k \in Above(m) : <<u, k>> \notin ranks[c]
  ELSE "none"
NameList(c, who) == {[nick |-> nickOf[u], shown |-> Shown(c, u)] : u \in who}

ServerJoin(u, c) ==
  /\ IF u = Bot THEN Comes ELSE Happens
  /\ On(u) /\ u \notin member[c]
  /\ member' = [member EXCEPT ![c] = @ \cup {u}]
  /\ Tell(Here(c) \/ u = Bot,
          <<[cmd |-> "JOIN", nick |-> nickOf[u], chan |-> c, acct |-> account[u]]>>
          \o IF u # Bot THEN <<>>
             ELSE <<[cmd |-> "TOPIC", chan |-> c, topic |-> topic[c]],
                    [cmd |-> "NAMES", chan |-> c, list |-> NameList(c, member'[c])]>>)
  /\ UNCHANGED <<peopleVars, ranks, flags, bans, topic, asks, botVars, renamed, lost>>

\* cmd is PART, or KICK where there are ranks
ServerLeave(u, c, cmd) ==
  /\ (cmd = "KICK" => "ranks" \in concern.with) /\ Happens /\ u \in member[c]
  /\ member' = [member EXCEPT ![c] = @ \ {u}]
  /\ ranks' = [ranks EXCEPT ![c] = {r \in @ : r[1] # u}]
  /\ lost' = lost \cup OutOfSight(member')
  /\ Tell(Here(c), <<[cmd |-> cmd, nick |-> nickOf[u], chan |-> c]>>)
  /\ UNCHANGED <<peopleVars, flags, bans, topic, asks, botVars, renamed>>

ServerQuit(u) ==
  /\ Happens /\ u # Bot /\ On(u)
  /\ nickOf' = [nickOf EXCEPT ![u] = Off]
  /\ account' = [account EXCEPT ![u] = NoAccount]
  /\ member' = [c \in Chans |-> member[c] \ {u}]
  /\ ranks' = [c \in Chans |-> {r \in ranks[c] : r[1] # u}]
  /\ Tell(Seen(u), <<[cmd |-> "QUIT", nick |-> nickOf[u]]>>)
  /\ UNCHANGED <<flags, bans, topic, asks, botVars, renamed, lost>>

ServerReturn(u, n) ==
  /\ Happens /\ u # Bot /\ ~On(u) /\ Free(n)
  /\ nickOf' = [nickOf EXCEPT ![u] = n]
  /\ UNCHANGED <<account, chanVars, wire, asks, botVars, renamed, lost>>

ServerNick(u, n) ==
  /\ (u = Bot => "self" \in concern.with) /\ Happens /\ On(u) /\ Free(n)
  /\ nickOf' = [nickOf EXCEPT ![u] = n]
  /\ Tell(Seen(u), <<[cmd |-> "NICK", nick |-> nickOf[u], new |-> n]>>)
  /\ renamed' = (renamed \/ u = Bot)
  /\ lost' = lost \cup {m \in {n} : nickOf[u] \in lost}
  /\ UNCHANGED <<account, chanVars, asks, botVars>>

ServerAccount(u, a) ==
  /\ "accounts" \in concern.with /\ Happens /\ u # Bot /\ On(u) /\ account[u] # a
  /\ account' = [account EXCEPT ![u] = a]
  /\ Tell(Seen(u), <<[cmd |-> "ACCOUNT", nick |-> nickOf[u], acct |-> a]>>)
  /\ UNCHANGED <<nickOf, chanVars, asks, botVars, renamed, lost>>

ServerRank(u, c, on, m) ==
  /\ "ranks" \in concern.with /\ Happens /\ u \in member[c] /\ on # (<<u, m>> \in ranks[c])
  /\ ranks' = [ranks EXCEPT ![c] = IF on THEN @ \cup {<<u, m>>} ELSE @ \ {<<u, m>>}]
  /\ Tell(Here(c), <<[cmd |-> "MODE", chan |-> c, on |-> on, mode |-> m, nick |-> nickOf[u]]>>)
  /\ UNCHANGED <<peopleVars, member, flags, bans, topic, asks, botVars, renamed, lost>>

ServerMode(c, mode) ==
  /\ "modes" \in concern.with /\ Happens
  /\ \/ /\ mode = "m"
        /\ flags' = [flags EXCEPT ![c] = IF @ = {} THEN {"m"} ELSE {}]
        /\ Tell(Here(c), <<[cmd |-> "MODE", chan |-> c, on |-> flags[c] = {}, mode |-> "m"]>>)
        /\ UNCHANGED bans
     \/ /\ mode = "b"
        /\ bans' = [bans EXCEPT ![c] = IF @ = {} THEN {"mask"} ELSE {}]
        /\ Tell(Here(c), <<[cmd |-> "MODE", chan |-> c, on |-> bans[c] = {}, mode |-> "b"]>>)
        /\ UNCHANGED flags
  /\ UNCHANGED <<peopleVars, member, ranks, topic, asks, botVars, renamed, lost>>

ServerTopic(c, t) ==
  /\ "topics" \in concern.with /\ Happens /\ topic[c] # t
  /\ topic' = [topic EXCEPT ![c] = t]
  /\ Tell(Here(c), <<[cmd |-> "NEWTOPIC", chan |-> c, topic |-> t]>>)
  /\ UNCHANGED <<peopleVars, member, ranks, flags, bans, asks, botVars, renamed, lost>>

\* the answer to MODE, NAMES or the list of bans; of a channel the bot is not in
\* only the modes are told
ServerAnswer(q) ==
  /\ Len(wire) < MaxWire /\ q \in asks
  /\ asks' = asks \ {q}
  /\ Tell(Here(q[2]) \/ q[1] = "MODEIS",
          CASE q[1] = "MODEIS" -> <<[cmd |-> "MODEIS", chan |-> q[2], flags |-> flags[q[2]]]>>
            [] q[1] = "NAMES" -> <<[cmd |-> "NAMES", chan |-> q[2],
                                    list |-> NameList(q[2], member[q[2]])]>>
            [] q[1] = "BANS" -> <<[cmd |-> "BANS", chan |-> q[2], bans |-> bans[q[2]]]>>)
  /\ UNCHANGED <<peopleVars, chanVars, concern, events, botVars, renamed, lost>>

Server ==
  \/ \E u \in People, c \in Chans :
       \/ ServerJoin(u, c) \/ ServerLeave(u, c, "PART") \/ ServerLeave(u, c, "KICK")
       \/ \E on \in BOOLEAN, m \in RankModes : ServerRank(u, c, on, m)
  \/ \E u \in People : ServerQuit(u)
  \/ \E u \in People, n \in Nicks : ServerReturn(u, n) \/ ServerNick(u, n)
  \/ \E u \in People, a \in Accounts \cup {NoAccount} : ServerAccount(u, a)
  \/ \E c \in Chans : ServerMode(c, "m") \/ ServerMode(c, "b")
                      \/ \E t \in Topics : ServerTopic(c, t)
  \/ \E q \in asks : ServerAnswer(q)

----------------------------------------------------------------------------
(* The connection.                                                         *)

\* connectionMade and signedOn: the picture is empty
SignOn(n) ==
  /\ ~On(Bot) /\ Free(n)
  /\ Free(BotNick) => n = BotNick    \* alterCollidedNick if taken
  /\ nickOf' = [nickOf EXCEPT ![Bot] = n]
  /\ nickname' = n /\ pic' = Empty
  /\ accounts' = [m \in Nicks |-> NoAccount]
  /\ renamed' = FALSE /\ lost' = {} /\ raised' = FALSE
  /\ UNCHANGED <<account, chanVars, wire, asks, concern, events>>

\* connectionLost: what was on its way is lost, the picture is reset
ConnectionLost ==
  /\ On(Bot) /\ events < concern.most /\ events' = events + 1
  /\ nickOf' = [nickOf EXCEPT ![Bot] = Off]
  /\ member' = [c \in Chans |-> member[c] \ {Bot}]
  /\ ranks' = [c \in Chans |-> {r \in ranks[c] : r[1] # Bot}]
  /\ wire' = <<>> /\ asks' = {}
  /\ nickname' = Off /\ pic' = Empty
  /\ UNCHANGED <<account, flags, bans, topic, concern, accounts, raised, renamed, lost>>

\* names() and banlist(), called by a module
Ask(c, what) ==
  /\ nickname # Off /\ "asks" \in concern.with
  /\ events < concern.most /\ events' = events + 1
  /\ <<what, c>> \notin asks
  /\ asks' = asks \cup {<<what, c>>}
  /\ UNCHANGED <<peopleVars, chanVars, concern, wire, botVars, renamed, lost>>

----------------------------------------------------------------------------
(* The bot's handlers.                                                     *)

Msg == Head(wire)

Receives(cmd) ==
  /\ wire # <<>> /\ Msg.cmd = cmd
  /\ wire' = Tail(wire)
  /\ UNCHANGED <<peopleVars, chanVars, concern, events, nickname, renamed, lost>>

\* irc_NICK: _accounts.pop(old), set for new if there was one
AccountsRenamed(old, new) ==
  IF accounts[old] = NoAccount THEN accounts
  ELSE [accounts EXCEPT ![old] = NoAccount, ![new] = accounts[old]]

\* "*" falls back to what _account_for remembers
irc_JOIN ==
  /\ Receives("JOIN")
  /\ accounts' = IF Msg.acct = NoAccount THEN accounts
                 ELSE [accounts EXCEPT ![Msg.nick] = Msg.acct]
  /\ \/ /\ Msg.nick = nickname
        /\ pic' = JoinChannel(pic, Msg.chan)
        /\ asks' = asks \cup {<<"MODEIS", Msg.chan>>}
     \/ /\ Msg.nick # nickname
        /\ pic' = UserJoin(pic, Msg.chan, Msg.nick)
        /\ UNCHANGED asks
  /\ UNCHANGED raised

\* _leavechannel is _nukechannel
Left(c, n) == IF n = nickname THEN NukeChannel(pic, c) ELSE UserPart(pic, c, n)

irc_PART == Receives("PART") /\ pic' = Left(Msg.chan, Msg.nick) /\ UNCHANGED <<asks, accounts, raised>>
irc_KICK == Receives("KICK") /\ pic' = Left(Msg.chan, Msg.nick) /\ UNCHANGED <<asks, accounts, raised>>

irc_QUIT ==
  /\ Receives("QUIT")
  /\ pic' = UserQuit(pic, Msg.nick)
  /\ accounts' = [accounts EXCEPT ![Msg.nick] = NoAccount]
  /\ UNCHANGED <<asks, raised>>

\* the bot's own: the picture is left as it is
irc_NICK ==
  /\ wire # <<>> /\ Msg.cmd = "NICK"
  /\ wire' = Tail(wire)
  /\ accounts' = AccountsRenamed(Msg.nick, Msg.new)
  /\ \/ /\ Msg.nick = nickname
        /\ nickname' = Msg.new
        /\ UNCHANGED <<pic, raised>>
     \/ /\ Msg.nick # nickname
        /\ pic' \in UserRename(pic, Msg.nick, Msg.new)
        /\ raised' = (raised \/ RenameRaises(pic, Msg.nick))
        /\ UNCHANGED nickname
  /\ UNCHANGED <<peopleVars, chanVars, asks, concern, events, renamed, lost>>

irc_ACCOUNT ==
  /\ Receives("ACCOUNT")
  /\ accounts' = [accounts EXCEPT ![Msg.nick] = Msg.acct]
  /\ UNCHANGED <<asks, pic, raised>>

irc_MODE ==
  /\ Receives("MODE")
  /\ pic' = CASE Msg.mode = "m" -> FlagsChange(pic, Msg.chan, IF Msg.on THEN {"m"} ELSE {},
                                               IF Msg.on THEN {} ELSE {"m"}, FALSE)
              [] Msg.mode = "b" -> BanChange(pic, Msg.chan, Msg.on, "mask")
              [] OTHER -> RankChange(pic, Msg.chan, Msg.on, Msg.mode, Msg.nick)
  /\ UNCHANGED <<asks, accounts, raised>>

irc_RPL_CHANNELMODEIS ==
  /\ Receives("MODEIS")
  /\ pic' = FlagsChange(pic, Msg.chan, Msg.flags, {}, TRUE)
  /\ UNCHANGED <<asks, accounts, raised>>

irc_RPL_NAMREPLY ==
  /\ Receives("NAMES")
  /\ pic' = AddUsers(pic, Msg.chan, Msg.list)
  /\ UNCHANGED <<asks, accounts, raised>>

irc_RPL_ENDOFBANLIST ==
  /\ Receives("BANS")
  /\ pic' = AddBans(pic, Msg.chan, Msg.bans)
  /\ UNCHANGED <<asks, accounts, raised>>

irc_RPL_TOPIC ==
  /\ Receives("TOPIC")
  /\ pic' = SetTopic(pic, Msg.chan, Msg.topic)
  /\ UNCHANGED <<asks, accounts, raised>>

\* a change of topic: the client has no handler of its own for it
irc_TOPIC == Receives("NEWTOPIC") /\ UNCHANGED <<asks, accounts, raised, pic>>

Handler == \/ irc_JOIN \/ irc_PART \/ irc_KICK \/ irc_QUIT \/ irc_NICK \/ irc_ACCOUNT \/ irc_MODE
           \/ irc_RPL_CHANNELMODEIS \/ irc_RPL_NAMREPLY \/ irc_RPL_ENDOFBANLIST
           \/ irc_RPL_TOPIC \/ irc_TOPIC

NetworkNext == \/ Server \/ Handler \/ ConnectionLost
        \/ \E n \in Nicks : SignOn(n)
        \/ \E c \in Chans, what \in {"NAMES", "BANS"} : Ask(c, what)

NetworkSpec == NetworkInit /\ [][NetworkNext]_networkVars

----------------------------------------------------------------------------
(* Properties.                                                             *)

\* The values the variables range over.
NetworkTyped ==
  /\ nickOf \in [People -> Nicks \cup {Off}]
  /\ account \in [People -> Accounts \cup {NoAccount}]
  /\ member \in [Chans -> SUBSET People]
  /\ ranks \in [Chans -> SUBSET (People \X RankModes)]
  /\ flags \in [Chans -> SUBSET {"m"}] /\ bans \in [Chans -> SUBSET {"mask"}]
  /\ topic \in [Chans -> Topics]
  /\ asks \subseteq {"MODEIS", "NAMES", "BANS"} \X Chans
  /\ events \in 0..concern.most /\ concern \in Concerns
  /\ nickname \in Nicks \cup {Off}
  /\ pic \in Pictures
  /\ accounts \in [Nicks -> Accounts \cup {NoAccount}]
  /\ renamed \in BOOLEAN /\ raised \in BOOLEAN /\ lost \subseteq Nicks

\* The bot has heard all there is to hear, and not changed its own nick, which
\* irc_NICK does not take to the picture.
CaughtUp == On(Bot) /\ wire = <<>> /\ ~renamed

NicksIn(S) == {nickOf[u] : u \in S}

\* The picture is the network: the channels tracked are those the bot is in, and
\* the users of each are the server's, nothing left of who parted, was kicked,
\* quit or changed nick (state.py against irc_JOIN, PART, KICK, QUIT, NICK).
MembersAreTrue ==
  CaughtUp => \A c \in Chans :
    /\ Tracked(pic, c) <=> Here(c)
    /\ Here(c) => Members(pic, c) = NicksIn(member[c])

\* Users and channels refer to each other consistently, whatever the order of
\* events: no user of a channel is unknown to the network, none is kept who is on
\* no channel, and no lookup of a channel in _userrename can fail.
PictureIsSound == ~renamed => ReferencesMeet(pic) /\ ~raised

\* Ranks: the bot's ops are the server's; voices it knows are the server's.  (NAMES
\* shows one prefix: the voice of an op that joined before the bot stays unknown.)
RanksAreTrue ==
  CaughtUp => \A c \in Chans : Here(c) =>
    LET Held(modes) == {nickOf[u] : u \in {v \in member[c] : \E m \in modes : <<v, m>> \in ranks[c]}}
    IN pic.chan[c].ops = Held(OpModes) /\ pic.chan[c].voices \subseteq Held(VoiceModes)

\* Channel modes: once its MODE request is answered a channel's modes are the server's;
\* the bans the bot saw set are bans (the note in Channel: "only ... what the bot sees").
ModesAreTrue ==
  CaughtUp => \A c \in Chans : Here(c) =>
    /\ <<"MODEIS", c>> \notin asks => pic.chan[c].flags = flags[c]
    /\ pic.chan[c].bans \subseteq bans[c]

\* The account remembered for a user in sight is the user's, if nobody of that nick
\* went out of sight before without a QUIT (irc_JOIN, irc_NICK, irc_ACCOUNT).
AccountsAreTrue ==
  On(Bot) /\ wire = <<>> =>
    \A u \in Others : Seen(u) /\ nickOf[u] \notin lost =>
      accounts[nickOf[u]] \in {account[u], NoAccount}

\* Once the bot has heard all there is to hear, its picture of the network is the
\* network: who is where, with which rank, the channels' modes and bans, and the
\* accounts, whatever happened in between and in whatever order.
PictureIsTrue == NetworkTyped /\ MembersAreTrue /\ RanksAreTrue /\ ModesAreTrue /\ AccountsAreTrue

\* The docstring of irc_RPL_TOPIC: "Called when the topic for a channel is initially
\* reported or when it subsequently changes".
TopicIsCurrent ==
  CaughtUp => \A c \in Chans : Here(c) => pic.chan[c].topic = topic[c]
=============================================================================
