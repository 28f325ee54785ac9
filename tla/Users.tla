------------------------------- MODULE Users -------------------------------
(***************************************************************************)
(* pyburlybot_modules/users.py and alias.py: who a nick is, and the        *)
(* commands that change it.  A handler runs in a thread of its own, and     *)
(* between two of its queries any other handler's may come: every action    *)
(* is one query (or batch) with the Python up to the next one.             *)
(*                                                                         *)
(* A thread is [at, cmd, ret, nick, a, b, due, name, canon, found, todo, users]:  *)
(* the query it is at, where a subroutine returns to, its command, who spoke, the        *)
(* arguments of the command, and local variables.                          *)
(***************************************************************************)
EXTENDS Naturals, Sequences, FiniteSets, SequencesExt

CONSTANTS Names, None,      \* nicks, groups and words; the absent one
          Slots             \* bound: messages whose handlers are at work at a time

ASSUME UsersAssumption == None \notin Names /\ Slots \in Nat

Threads == (1..Slots) \X {"update", "deliver", "command"}

VARIABLES
  user,       \* table user: names with a row
  alias,      \* table alias: name -> user
  grp,        \* table aliasgrp: <<group, user>>
  grpalias,   \* table aliasgrpalias: name -> group
  tells,      \* table tell: its rows in the order they were inserted
  thread

dbVars == <<user, alias, grp, grpalias, tells>>

Idle == [at |-> "idle", cmd |-> "", ret |-> "", nick |-> None, a |-> None, b |-> None, due |-> 0, name |-> None,
         canon |-> None, found |-> None, todo |-> <<>>, users |-> <<>>]

At(i, pc) == thread[i].at = pc
Goes(i, t) == thread' = [thread EXCEPT ![i] = t]
Ends(i) == Goes(i, Idle)
Moves(i, pc) == Goes(i, [thread[i] EXCEPT !.at = pc])
Reads == UNCHANGED dbVars

\* get_username(n), to return to pc
GetUsername(t, n, pc) == [t EXCEPT !.at = "resolve", !.name = n, !.found = None, !.ret = pc]
\* get_groupname(n)
GetGroupname(t, n, pc) == [t EXCEPT !.at = "lookupgroup", !.name = n, !.found = None, !.ret = pc]

----------------------------------------------------------------------------
(* What a handler does with the answer of a subroutine.                    *)

\* generate_users has a name's users: those not yet named, but for the caller if he is
\* skipped; then the next name, or the inserts
NextName(t) ==
  CASE t.todo # <<>> -> [GetUsername(t, Head(t.todo), "target") EXCEPT !.todo = Tail(t.todo)]
    [] t.todo = <<>> /\ t.users # <<>> -> [t EXCEPT !.at = "insert"]
    [] OTHER -> Idle

Collect(t, S) ==
  LET new == SetToSeq({u \in S : u \notin ToSet(t.users) /\ ~(t.cmd = "tell" /\ u = t.a)})
  IN NextName([t EXCEPT !.users = @ \o new])

\* The caller of get_username or get_groupname goes on.
Continue(t) ==
  CASE t.ret = "caller"  -> NextName([t EXCEPT !.a = IF t.found = None THEN t.nick ELSE t.found])
    [] t.ret = "target"  -> IF t.found # None THEN Collect(t, {t.found})
                            ELSE [t EXCEPT !.at = "lookupgroup", !.ret = "members"]
    [] t.ret = "members" -> [t EXCEPT !.at = "members", !.name = IF t.found = None THEN @ ELSE t.found]
    [] t.ret = "source"  -> IF t.found = None THEN [t EXCEPT !.at = "aliasgroup"]
                            ELSE [t EXCEPT !.a = t.found, !.at = "targetuser"]
    [] t.ret = "unused"  -> IF t.found # None THEN Idle ELSE [t EXCEPT !.at = "inuse"]
    [] t.ret = "member"  -> IF t.found = None THEN Idle
                            ELSE GetGroupname([t EXCEPT !.b = t.found], t.a, "group")
    [] t.ret = "group"   -> CASE t.found # None   -> [t EXCEPT !.at = "groupadd", !.a = t.found]
                              [] t.cmd = "group" /\ t.found = None -> [t EXCEPT !.at = "newgroup"]
                              [] OTHER -> Idle            \* subscripe: no such group
    [] t.ret = "dropper" -> IF t.found = None THEN Idle
                            ELSE GetGroupname([t EXCEPT !.b = t.found], t.a, "drop")
    [] t.ret = "drop"    -> IF t.found = None THEN Idle ELSE [t EXCEPT !.at = "drop", !.a = t.found]
    [] t.ret = "dropall" -> IF t.found = None THEN Idle ELSE [t EXCEPT !.at = "dropall", !.a = t.found]
    [] OTHER             -> [t EXCEPT !.at = t.ret]

Returns(i, found) == Goes(i, Continue([thread[i] EXCEPT !.found = found]))

----------------------------------------------------------------------------
(* users.py.                                                               *)

\* resolve_nick, by alias.py's lookup_alias
ResolveNick(i) == At(i, "resolvenick") /\ Returns(i, alias[thread[i].name]) /\ Reads

\* get_username: the alias, its user's row, the name's own row
Resolve(i) ==
  /\ At(i, "resolve")
  /\ Goes(i, [thread[i] EXCEPT !.canon = alias[thread[i].name],
                               !.at = IF alias[thread[i].name] = None THEN "raw" ELSE "known"])
  /\ Reads

Known(i) ==
  /\ At(i, "known")
  /\ IF thread[i].canon \in user THEN Returns(i, thread[i].canon) ELSE Moves(i, "raw")
  /\ Reads

Raw(i) ==
  /\ At(i, "raw")
  /\ Returns(i, IF thread[i].name \in user THEN thread[i].name ELSE None)
  /\ Reads

\* _user_update
Touch(i) ==
  /\ At(i, "touch")
  /\ user' = user \cup {IF thread[i].found = None THEN thread[i].nick ELSE thread[i].found}
  /\ Ends(i) /\ UNCHANGED <<alias, grp, grpalias, tells>>

----------------------------------------------------------------------------
(* alias.py: groups.                                                       *)

\* lookup_groupalias, then the group itself if a group is looked for
LookupGroup(i) ==
  /\ At(i, "lookupgroup")
  /\ LET g == grpalias[thread[i].name] IN
     IF g # None \/ thread[i].ret = "members" THEN Returns(i, g) ELSE Moves(i, "groupname")
  /\ Reads

Groups == {m[1] : m \in grp}

Groupname(i) ==
  /\ At(i, "groupname")
  /\ Returns(i, IF thread[i].name \in Groups THEN thread[i].name ELSE None)
  /\ Reads

\* group_list
Members(i) ==
  /\ At(i, "members")
  /\ Goes(i, Collect(thread[i], {m[2] : m \in {x \in grp : x[1] = thread[i].name}}))
  /\ Reads

\* group: a group must not have a user's alias for its name
GroupFree(i) ==
  /\ At(i, "groupfree")
  /\ IF alias[thread[i].a] # None THEN Ends(i) ELSE Goes(i, GetUsername(thread[i], thread[i].b, "member"))
  /\ Reads

NewGroup(i) ==
  /\ At(i, "newgroup") /\ grpalias' = [grpalias EXCEPT ![thread[i].a] = thread[i].a]
  /\ Moves(i, "groupadd") /\ UNCHANGED <<user, alias, grp, tells>>

\* The checks before this and before the deletes only word the reply.
GroupAdd(i) ==
  /\ At(i, "groupadd") /\ grp' = grp \cup {<<thread[i].a, thread[i].b>>}
  /\ Ends(i) /\ UNCHANGED <<user, alias, grpalias, tells>>

\* unsubscripe and group ~del: a member, or the whole group
Drop(i) ==
  /\ At(i, "drop") /\ grp' = grp \ {<<thread[i].a, thread[i].b>>}
  /\ Ends(i) /\ UNCHANGED <<user, alias, grpalias, tells>>

DropAll(i) ==
  /\ At(i, "dropall") /\ grp' = {m \in grp : m[1] # thread[i].a}
  /\ grpalias' = [n \in Names |-> IF grpalias[n] = thread[i].a THEN None ELSE grpalias[n]]
  /\ Ends(i) /\ UNCHANGED <<user, alias, tells>>

----------------------------------------------------------------------------
(* alias.py: aliases.                                                      *)

\* aliasuser
TargetUser(i) ==
  /\ At(i, "targetuser")
  /\ LET t == thread[i] IN
     IF t.b \in user /\ t.a = t.b THEN Ends(i)
     ELSE Goes(i, GetGroupname([t EXCEPT !.canon = IF t.b \in user THEN t.b ELSE None], t.b, "unused"))
  /\ Reads

InUse(i) ==
  /\ At(i, "inuse")
  /\ IF alias[thread[i].b] # None THEN Ends(i)
     ELSE Moves(i, IF thread[i].canon = None THEN "origin" ELSE "rename")
  /\ Reads

\* Mutant: what is stored for the old name stays there.
RenameUserOnly(i) ==
  /\ At(i, "rename") /\ user' = user \ {thread[i].canon}
  /\ Moves(i, "regroup") /\ UNCHANGED <<alias, grp, grpalias, tells>>

\* rename_user: one batch for every table that registered, and the old row
Rename(i) ==
  /\ At(i, "rename") /\ user' = user \ {thread[i].canon}
  /\ tells' = [k \in DOMAIN tells |->
                 IF tells[k].user = thread[i].canon THEN [tells[k] EXCEPT !.user = thread[i].a] ELSE tells[k]]
  /\ Moves(i, "regroup") /\ UNCHANGED <<alias, grp, grpalias>>

\* Mutant: groups keep the old name.
RegroupNobody(i) ==
  /\ At(i, "regroup") /\ Moves(i, "origin") /\ UNCHANGED <<user, alias, grp, grpalias, tells>>

Regroup(i) ==
  /\ At(i, "regroup")
  /\ grp' = {IF m[2] = thread[i].b THEN <<m[1], thread[i].a>> ELSE m : m \in grp}
  /\ Moves(i, "origin") /\ UNCHANGED <<user, alias, grpalias, tells>>

Origin(i) ==
  /\ At(i, "origin") /\ alias' = [alias EXCEPT ![thread[i].a] = thread[i].a]
  /\ Moves(i, "bind") /\ UNCHANGED <<user, grp, grpalias, tells>>

Bind(i) ==
  /\ At(i, "bind") /\ alias' = [alias EXCEPT ![thread[i].b] = thread[i].a]
  /\ Ends(i) /\ UNCHANGED <<user, grp, grpalias, tells>>

\* aliasgroup
AliasGroup(i) ==
  /\ At(i, "aliasgroup")
  /\ LET t == thread[i] IN
     IF grpalias[t.a] # None THEN Goes(i, [t EXCEPT !.a = grpalias[t.a], !.at = "groupunused"])
     ELSE Moves(i, "groupexists")
  /\ Reads

GroupExists(i) ==
  /\ At(i, "groupexists") /\ (IF thread[i].a \in Groups THEN Moves(i, "groupunused") ELSE Ends(i)) /\ Reads

GroupUnused(i) ==
  /\ At(i, "groupunused") /\ (IF alias[thread[i].b] = None THEN Moves(i, "groupnew") ELSE Ends(i)) /\ Reads

GroupNew(i) ==
  /\ At(i, "groupnew") /\ (IF grpalias[thread[i].b] = None THEN Moves(i, "groupbind") ELSE Ends(i)) /\ Reads

GroupBind(i) ==
  /\ At(i, "groupbind") /\ grpalias' = [grpalias EXCEPT ![thread[i].b] = thread[i].a]
  /\ Ends(i) /\ UNCHANGED <<user, alias, grp, tells>>

\* del_alias: the user's alias, then the group's
Unalias(i) ==
  /\ At(i, "unalias") /\ alias' = [alias EXCEPT ![thread[i].b] = None]
  /\ Moves(i, "ungroupalias") /\ UNCHANGED <<user, grp, grpalias, tells>>
UngroupAlias(i) ==
  /\ At(i, "ungroupalias") /\ grpalias' = [grpalias EXCEPT ![thread[i].b] = None]
  /\ Ends(i) /\ UNCHANGED <<user, alias, grp, tells>>

UsersStep(i) ==
  \/ ResolveNick(i) \/ Resolve(i) \/ Known(i) \/ Raw(i) \/ Touch(i)
  \/ LookupGroup(i) \/ Groupname(i) \/ Members(i) \/ GroupFree(i) \/ NewGroup(i)
  \/ GroupAdd(i) \/ Drop(i) \/ DropAll(i)
  \/ TargetUser(i) \/ InUse(i) \/ Rename(i) \/ Regroup(i) \/ Origin(i) \/ Bind(i)
  \/ AliasGroup(i) \/ GroupExists(i) \/ GroupUnused(i) \/ GroupNew(i) \/ GroupBind(i)
  \/ Unalias(i) \/ UngroupAlias(i)
=============================================================================
