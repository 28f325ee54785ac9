-------------------------------- MODULE Tell --------------------------------
(***************************************************************************)
(* pyburlybot_modules/tell.py over Users: messages kept for a user and      *)
(* given out when the user next speaks.  Every message to the bot runs      *)
(* user_update, deliver_tell and the command's handler, each in a thread.   *)
(* The process may die at any time; the tables outlive it.                  *)
(***************************************************************************)
EXTENDS Users

CONSTANTS Nicks,                \* names that are people
          Messages,             \* what people say: [nick, cmd, a, b, targets, due]
          Tables,               \* what earlier runs left: [user, alias, grp, tells]
          MaxTime, MaxEvents    \* bounds

NotTold == MaxTime + 1

\* Rows left by earlier runs that were told need not be looked at: those left wait.
ASSUME TellAssumption ==
  /\ Nicks \subseteq Names /\ MaxTime \in Nat
  /\ \A t \in Tables : t.tells \in Seq([user : Names, due : Nat, told : {NotTold}, sent : {0}])

\* They are of users who can be had, and their aliases lead to such a user in one step: what
\* runs leave in which neither crashed, orphaned nor raced (below) came true; the first are empty.
ASSUME TablesAssumption == \A t \in Tables :
  /\ t.user \subseteq Nicks /\ t.alias \in [Names -> Nicks \cup {None}] /\ IsFiniteSet(t.grp)
  /\ \A n \in Names : t.alias[n] # None => t.alias[n] \in t.user /\ t.alias[t.alias[n]] = t.alias[n]
  /\ \A u \in {m[2] : m \in t.grp} \cup {t.tells[k].user : k \in DOMAIN t.tells} :
       u \in t.user /\ t.alias[u] \in {None, u}

ASSUME MessagesAssumption == \A c \in Messages :
  /\ c.nick \in Nicks /\ c.targets \in Seq(Names)
  /\ c.cmd \in {"alias", "group", "drop", "unalias"} => c.b \in Names
  /\ c.cmd = "alias" => c.a \in Names

VARIABLES now, events,
          crashed,              \* the process died with work under way (history)
          orphaned,             \* a name was forgotten that others are aliases of (history)
          raced                 \* alias took a name another command went by (history)

history == <<crashed, orphaned, raced>>
vars == <<dbVars, thread, now, events, history>>

Init ==
  /\ \E t \in Tables : user = t.user /\ alias = t.alias /\ grp = t.grp /\ tells = t.tells
  /\ grpalias = [g \in Names |-> IF \E m \in grp : m[1] = g THEN g ELSE None]
  /\ thread = [i \in Threads |-> Idle]
  /\ now = 0 /\ events = 0 /\ crashed = FALSE /\ orphaned = FALSE /\ raced = FALSE

----------------------------------------------------------------------------
(* Handlers.                                                               *)

Updater(n) == [Idle EXCEPT !.nick = n, !.at = "resolvenick", !.name = n, !.ret = "touch"]
Deliverer(n) == [Idle EXCEPT !.nick = n, !.at = "resolvenick", !.name = n, !.ret = "claim"]

\* the first query of a command's handler
Handler(c) ==
  LET t == [Idle EXCEPT !.cmd = c.cmd, !.nick = c.nick, !.a = c.a, !.b = c.b, !.todo = c.targets, !.due = c.due] IN
  CASE c.cmd \in {"tell", "remind"} -> GetUsername(t, c.nick, "caller")
    [] c.cmd = "alias"     -> GetUsername(t, c.a, "source")
    [] c.cmd = "unalias"   -> [t EXCEPT !.at = "unalias"]
    [] c.cmd = "group"     -> [t EXCEPT !.at = "groupfree"]
    [] c.cmd = "subscripe" -> GetUsername([t EXCEPT !.b = c.nick], c.nick, "member")
    [] c.cmd = "drop"      -> GetUsername(t, c.b, "dropper")
    [] c.cmd = "dropall"   -> GetGroupname([t EXCEPT !.b = c.a], c.a, "dropall")
    [] OTHER               -> Idle

Free(s) == \A i \in Threads : i[1] = s => At(i, "idle")

\* dispatch, one thread for each mapped function
Message(c) ==
  /\ events < MaxEvents /\ events' = events + 1
  /\ \E s \in 1..Slots :
       /\ Free(s) /\ \A x \in 1..(s - 1) : ~Free(x)
       /\ thread' = [thread EXCEPT ![<<s, "update">>] = Updater(c.nick),
                                  ![<<s, "deliver">>] = Deliverer(c.nick), ![<<s, "command">>] = Handler(c)]
  /\ UNCHANGED <<dbVars, now, crashed, orphaned>>

\* tell, remind: one insert for each user
Insert(i) ==
  /\ At(i, "insert")
  /\ LET t == thread[i] IN
     /\ tells' = Append(tells, [user |-> Head(t.users), due |-> IF t.cmd = "tell" THEN now ELSE t.due,
                                told |-> NotTold, sent |-> 0])
     /\ IF Len(t.users) = 1 THEN Ends(i) ELSE Goes(i, [t EXCEPT !.users = Tail(@)])
  /\ UNCHANGED <<user, alias, grp, grpalias, now, events, crashed, orphaned>>

Due(u) == {k \in DOMAIN tells : tells[k].user = u /\ tells[k].told = NotTold /\ tells[k].due < now}

\* Mutant: the rows are read, sent and only then marked.
ClaimLater(i) ==
  /\ At(i, "claim")
  /\ LET u == IF thread[i].found = None THEN thread[i].nick ELSE thread[i].found
         rows == Due(u)
     IN /\ UNCHANGED tells
        /\ IF rows = {} THEN Ends(i)
           ELSE Goes(i, [thread[i] EXCEPT !.at = "send", !.todo = SetToSeq(rows)])
  /\ UNCHANGED <<user, alias, grp, grpalias, now, events, crashed, orphaned>>

\* deliver_tell claims in one statement, and then sends
Claim(i) ==
  /\ At(i, "claim")
  /\ LET u == IF thread[i].found = None THEN thread[i].nick ELSE thread[i].found
         rows == Due(u)
     IN /\ tells' = [k \in DOMAIN tells |-> IF k \in rows THEN [tells[k] EXCEPT !.told = now] ELSE tells[k]]
        /\ IF rows = {} THEN Ends(i)
           ELSE Goes(i, [thread[i] EXCEPT !.at = "send", !.todo = SetToSeq(rows)])
  /\ UNCHANGED <<user, alias, grp, grpalias, now, events, crashed, orphaned>>

\* sent: history
Send(i) ==
  /\ At(i, "send")
  /\ tells' = [k \in DOMAIN tells |->
                 IF k \in ToSet(thread[i].todo) THEN [tells[k] EXCEPT !.sent = @ + 1, !.told = IF @ = NotTold THEN now ELSE @]
                 ELSE tells[k]]
  /\ Ends(i)
  /\ UNCHANGED <<user, alias, grp, grpalias, now, events, crashed, orphaned>>

Quiet == \A i \in Threads : At(i, "idle")

\* bound: the second changes when no handler is at work
Tick == Quiet /\ now < MaxTime /\ now' = now + 1 /\ UNCHANGED <<dbVars, thread, events, crashed, orphaned>>

\* bound: one crash
Crash ==
  /\ ~crashed /\ ~Quiet
  /\ thread' = [i \in Threads |-> Idle] /\ crashed' = TRUE
  /\ UNCHANGED <<dbVars, now, events, orphaned>>

----------------------------------------------------------------------------
(* What the properties except.                                             *)

\* del_alias forgets a user other names are aliases of, or are about to be
Orphans(i) ==
  LET b == thread[i].b
      others == {n \in Names \ {b} : alias[n] = b} \cup {thread[j].b : j \in {x \in Threads : At(x, "bind") /\ thread[x].a = b}}
  IN orphaned' = (orphaned \/ (At(i, "unalias") /\ others # {}))

\* An aliasuser has seen that t.b is free, and that it is no user or now to be renamed
Takes(t) == t.ret = "unused" /\ (t.canon = None \/ t.at \in {"rename", "regroup", "origin", "bind"})

\* A command goes by n, which it looked up: a user it will write for, or is about to return
GoesBy(t, n) == \/ n \in ToSet(t.users)
                \/ t.at = "known" /\ n = t.canon
                \/ t.at = "raw" /\ n = t.name
                \/ t.ret = "group" /\ n = t.b
                \/ (t.at = "targetuser" \/ t.ret = "unused") /\ n = t.a
                \/ Takes(t) /\ n = t.b

Clash == \E i \in Threads : Takes(thread[i]) /\ \E j \in Threads \ {i} : GoesBy(thread[j], thread[i].b)
Races == raced' = (raced \/ Clash')

Steps == \/ \E c \in Messages : Message(c)
         \/ \E i \in Threads : \/ UsersStep(i) /\ Orphans(i) /\ UNCHANGED <<now, events, crashed>>
                               \/ Insert(i) \/ Claim(i) \/ Send(i)
         \/ Tick \/ Crash
Next == Steps /\ Races

Spec == Init /\ [][Next]_vars

----------------------------------------------------------------------------
(* Properties.                                                             *)

Speaks(n) == IF alias[n] = None THEN n ELSE alias[n]     \* whose tells n is given
Reached == {Speaks(n) : n \in Nicks}

\* No tell is sent twice, though the messages of a user's two nicks are handled at the
\* same time, the process dies in between, or the row is renamed (deliver_tell's claim);
\* once told it is sent unless the process died; and never before it is due.
AtMostOnce ==
  \A k \in DOMAIN tells :
    /\ tells[k].sent <= 1
    /\ tells[k].sent = 1 => tells[k].told # NotTold
    /\ tells[k].told # NotTold => tells[k].due < tells[k].told
    /\ Quiet /\ ~crashed /\ tells[k].told # NotTold => tells[k].sent = 1

\* What waits can be had: when no handler is at work every row that waits is one that
\* somebody's messages claim, whatever renames, aliases and groups came and went
\* (rename_user with _user_rename), and however their queries fall among those of other
\* handlers.  Not so, all findings, once alias took a name another command had looked up
\* and not yet written; if the process died between the two; or once a user's own alias
\* was deleted and others' left: they then stand for a name that can become another's.
NothingStranded ==
  Quiet /\ ~crashed /\ ~orphaned /\ ~raced =>
    \A k \in DOMAIN tells : tells[k].told = NotTold => tells[k].user \in Reached

\* Group members likewise follow a rename: each is somebody a tell can reach (aliasuser's
\* update of aliasgrp, group and subscripe through get_username), but for the same races.
MembersAreReached ==
  Quiet /\ ~crashed /\ ~orphaned /\ ~raced => {m[2] : m \in grp} \subseteq Reached
=============================================================================
