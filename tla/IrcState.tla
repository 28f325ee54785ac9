------------------------------ MODULE IrcState ------------------------------
(***************************************************************************)
(* util/state.py: what the bot keeps of a network.  Network.users maps a    *)
(* nick to a User, Channel.users of each channel too; that the two lead to  *)
(* the same object is up to the methods, so objects have an identity here.  *)
(*                                                                         *)
(* A picture is [users, user, chan]: nick -> object or NoUser, object ->    *)
(* its nick and channels, channel -> its record or Untracked.  Each method  *)
(* of Network is an operator from picture to picture.                       *)
(***************************************************************************)
EXTENDS Naturals, FiniteSets

CONSTANTS Nicks, Chans,
          NoNick,           \* the nick of an object not in use
          Topics, NoTopic,
          OpModes, VoiceModes   \* prefixmap's opcmds and voicecmds

ASSUME NickAssumption ==
  /\ NoNick \notin Nicks /\ IsFiniteSet(Nicks) /\ IsFiniteSet(Chans) /\ NoTopic \in Topics
  /\ {"m", "b", "none"} \cap (OpModes \cup VoiceModes) = {}

\* as many objects as there are entries in Network.users and the channels' users
NoUser == 0
Objects == 1..((Cardinality(Chans) + 1) * Cardinality(Nicks))
NoObject == [nick |-> NoNick, channels |-> {}]
Untracked == [tracked |-> FALSE]

NewChannel == [tracked |-> TRUE, users |-> [n \in Nicks |-> NoUser], ops |-> {},
               voices |-> {}, flags |-> {}, bans |-> {}, topic |-> NoTopic]

\* _resetnetwork
Empty == [users |-> [n \in Nicks |-> NoUser], user |-> [i \in Objects |-> NoObject],
          chan |-> [c \in Chans |-> Untracked]]

Tracked(p, c) == p.chan[c].tracked
Members(p, c) == {n \in Nicks : p.chan[c].users[n] # NoUser}

\* the objects something refers to; the others are garbage
Referenced(p) ==
  {p.users[n] : n \in Nicks}
    \cup UNION {{p.chan[c].users[n] : n \in Nicks} : c \in {d \in Chans : Tracked(p, d)}}
Collected(p) ==
  [p EXCEPT !.user = [i \in Objects |-> IF i \in Referenced(p) THEN @[i] ELSE NoObject]]

----------------------------------------------------------------------------
(* Channel.                                                                *)

Changed(S, old, new) == IF old \in S THEN (S \ {old}) \cup {new} ELSE S

\* _changeuser
ChangeUser(ch, old, new) ==
  [ch EXCEPT !.users = IF @[old] = NoUser THEN @
                       ELSE [@ EXCEPT ![old] = NoUser, ![new] = ch.users[old]],
             !.ops = Changed(@, old, new), !.voices = Changed(@, old, new)]

\* _removeuser
RemoveUser(ch, n) ==
  [ch EXCEPT !.users[n] = NoUser, !.ops = @ \ {n}, !.voices = @ \ {n}]

----------------------------------------------------------------------------
(* Network.                                                                *)

\* Mutant: the channel is dropped and its users keep it.
NukeChannelOnly(p, c) == Collected([p EXCEPT !.chan[c] = Untracked])

\* _nukechannel: users left with no channel are forgotten
NukeChannel(p, c) ==
  IF ~Tracked(p, c) THEN p
  ELSE LET here == {p.chan[c].users[n] : n \in Members(p, c)}
           gone == {p.user[i].nick : i \in {j \in here : p.user[j].channels \subseteq {c}}}
       IN Collected([users |-> [n \in Nicks |-> IF n \in gone THEN NoUser ELSE p.users[n]],
                     user |-> [i \in Objects |-> IF i \in here
                                 THEN [p.user[i] EXCEPT !.channels = @ \ {c}] ELSE p.user[i]],
                     chan |-> [p.chan EXCEPT ![c] = Untracked]])

\* _joinchannel
JoinChannel(p, c) == [NukeChannel(p, c) EXCEPT !.chan[c] = NewChannel]

\* _userjoin and Channel._adduser, for each of who
UsersJoin(p, c, who) ==
  IF ~Tracked(p, c) THEN p
  ELSE LET new == {n \in who : p.users[n] = NoUser}
           fresh == CHOOSE f \in [new -> Objects \ Referenced(p)] :
                      \A m, n \in new : f[m] = f[n] => m = n
           users == [n \in Nicks |-> IF n \in new THEN fresh[n] ELSE p.users[n]]
           nick == [n \in who |-> IF n \in new THEN n ELSE p.user[p.users[n]].nick]
       IN [users |-> users,
           user |-> [i \in Objects |-> IF \A n \in who : users[n] # i THEN p.user[i]
                       ELSE LET n == CHOOSE m \in who : users[m] = i
                            IN [nick |-> nick[n],
                                channels |-> {c} \cup IF n \in new THEN {} ELSE p.user[i].channels]],
           chan |-> [p.chan EXCEPT ![c].users =
                       [k \in Nicks |-> IF @[k] # NoUser \/ \A n \in who : nick[n] # k THEN @[k]
                                        ELSE users[CHOOSE n \in who : nick[n] = k]]]]

UserJoin(p, c, n) == UsersJoin(p, c, {n})

\* Mutant: who leaves a channel is forgotten altogether.
UserPartForgets(p, c, n) ==
  LET i == p.users[n]
  IN IF i = NoUser THEN p
     ELSE Collected([p EXCEPT
            !.chan[c] = IF Tracked(p, c) THEN RemoveUser(@, p.user[i].nick) ELSE @,
            !.user[i].channels = @ \ {c},
            !.users[n] = NoUser])

\* _userpart
UserPart(p, c, n) ==
  LET i == p.users[n]
  IN IF i = NoUser THEN p
     ELSE Collected([p EXCEPT
            !.chan[c] = IF Tracked(p, c) THEN RemoveUser(@, p.user[i].nick) ELSE @,
            !.user[i].channels = @ \ {c},
            !.users[n] = IF p.user[i].channels \subseteq {c} THEN NoUser ELSE @])

\* _userquit
UserQuit(p, n) ==
  LET i == p.users[n]
  IN IF i = NoUser THEN p
     ELSE Collected([p EXCEPT
            !.chan = [c \in Chans |-> IF c \in p.user[i].channels /\ Tracked(p, c)
                                      THEN RemoveUser(@[c], p.user[i].nick) ELSE @[c]],
            !.users[n] = NoUser])

\* _userrename, when it got through the channels done: all of the user's, unless
\* one is not tracked, whose lookup raises
UserRenamed(p, old, new, done) ==
  LET i == p.users[old]
  IN Collected([users |-> [p.users EXCEPT ![old] = NoUser, ![new] = i],
                user |-> [p.user EXCEPT ![i].nick = new],
                chan |-> [c \in Chans |-> IF c \in done THEN ChangeUser(p.chan[c], old, new)
                                          ELSE p.chan[c]]])

RenameRaises(p, old) ==
  p.users[old] # NoUser /\ \E c \in p.user[p.users[old]].channels : ~Tracked(p, c)

UserRename(p, old, new) ==
  IF p.users[old] = NoUser THEN {p}
  ELSE LET its == p.user[p.users[old]].channels
           known == {c \in its : Tracked(p, c)}
       IN IF known = its THEN {UserRenamed(p, old, new, its)}
          ELSE {UserRenamed(p, old, new, done) : done \in SUBSET known}

----------------------------------------------------------------------------
(* Modes, topics and lists.                                                *)

\* _modechange of a mode that ranks a user
RankChange(p, c, on, mode, n) ==
  LET Set(S) == IF on THEN S \cup {n} ELSE S \ {n}
  IN IF ~Tracked(p, c) THEN p
     ELSE IF mode \in OpModes THEN [p EXCEPT !.chan[c].ops = Set(@)]
     ELSE IF mode \in VoiceModes THEN [p EXCEPT !.chan[c].voices = Set(@)]
     ELSE p

\* _modechange of the channel's own modes; reset is _resetModeIs
FlagsChange(p, c, added, removed, reset) ==
  IF ~Tracked(p, c) THEN p
  ELSE [p EXCEPT !.chan[c].flags = ((IF reset THEN {} ELSE @) \cup added) \ removed]

\* _modechange of +b and -b
BanChange(p, c, on, mask) ==
  IF ~Tracked(p, c) THEN p
  ELSE [p EXCEPT !.chan[c].bans = IF on THEN @ \cup {mask} ELSE @ \ {mask}]

\* _addbans
AddBans(p, c, masks) == IF ~Tracked(p, c) THEN p ELSE [p EXCEPT !.chan[c].bans = masks]

\* _settopic
SetTopic(p, c, t) == IF ~Tracked(p, c) THEN p ELSE [p EXCEPT !.chan[c].topic = t]

\* _addusers: list is a NAMES reply, entries of a nick and the one mode shown
AddUsers(p, c, list) ==
  LET joined == UsersJoin(p, c, {e.nick : e \in list})
      ch == joined.chan[c]
      Showing(modes) == {e.nick : e \in {x \in list : x.shown \in modes}}
  IN IF ~Tracked(p, c) THEN p
     ELSE [joined EXCEPT !.chan[c] = [ch EXCEPT !.ops = @ \cup Showing(OpModes),
                                                !.voices = @ \cup Showing(VoiceModes)]]

----------------------------------------------------------------------------
User == [nick : Nicks \cup {NoNick}, channels : SUBSET Chans]
Channel == [tracked : {TRUE}, users : [Nicks -> Objects \cup {NoUser}],
            ops : SUBSET Nicks, voices : SUBSET Nicks,
            flags : SUBSET {"m"}, bans : SUBSET {"mask"}, topic : Topics]
Pictures == [users : [Nicks -> Objects \cup {NoUser}], user : [Objects -> User],
             chan : [Chans -> {Untracked} \cup Channel]]

\* Every way to a user leads to the same object, and it knows its nick and its
\* channels; users on no channel are not kept.
ReferencesMeet(p) ==
  \A n \in Nicks :
    LET i == p.users[n] IN
    /\ i # NoUser =>
         /\ p.user[i].nick = n /\ p.user[i].channels # {}
         /\ \A c \in p.user[i].channels : Tracked(p, c) /\ p.chan[c].users[n] = i
    /\ \A c \in Chans : Tracked(p, c) /\ p.chan[c].users[n] # NoUser =>
         p.chan[c].users[n] = i /\ c \in p.user[i].channels
=============================================================================
