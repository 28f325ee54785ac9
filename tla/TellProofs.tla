----------------------------- MODULE TellProofs -----------------------------
(***************************************************************************)
(* Proofs about Tell, for any users, messages and rows, and however many    *)
(* handlers are at work: what is claimed is sent once, wherever the process *)
(* dies; and what waits is had by somebody, unless a command was overtaken  *)
(* by an alias, a process that died or an origin that was forgotten.        *)
(***************************************************************************)
EXTENDS Tell, FiniteSetTheorems, FunctionTheorems, SequenceTheorems, TLAPS

----------------------------------------------------------------------------
(* Threads.                                                                *)

Fields == {"at", "cmd", "ret", "nick", "a", "b", "due", "name", "canon", "found", "todo", "users"}
Rets == {"", "caller", "target", "members", "source", "unused", "member", "group", "dropper",
         "drop", "dropall", "touch", "claim"}

\* A thread of which every step but Send is one of queries.
IsThread(t) == DOMAIN t = Fields /\ t.ret \in Rets
Calm(t) == IsThread(t) /\ t.at # "send"

LEMMA IdleIsCalm == Calm(Idle)
BY DEF Calm, IsThread, Idle, Fields, Rets

LEMMA GoesCalm ==
  ASSUME NEW t, IsThread(t)
  PROVE  /\ \A pc : pc # "send" => Calm([t EXCEPT !.at = pc])
         /\ \A n, pc : pc \in Rets => Calm(GetUsername(t, n, pc)) /\ Calm(GetGroupname(t, n, pc))
         /\ \A x : /\ IsThread([t EXCEPT !.a = x]) /\ IsThread([t EXCEPT !.b = x])
                   /\ IsThread([t EXCEPT !.canon = x]) /\ IsThread([t EXCEPT !.found = x])
                   /\ IsThread([t EXCEPT !.users = x]) /\ IsThread([t EXCEPT !.todo = x])
                   /\ IsThread([t EXCEPT !.name = x])
<1>1. \A pc : pc # "send" => Calm([t EXCEPT !.at = pc])
  BY DEF Calm, IsThread, Fields
<1>2. \A n, pc : pc \in Rets => Calm(GetUsername(t, n, pc)) /\ Calm(GetGroupname(t, n, pc))
  BY DEF Calm, IsThread, Fields, GetUsername, GetGroupname
<1>3. \A x : /\ IsThread([t EXCEPT !.a = x]) /\ IsThread([t EXCEPT !.b = x])
             /\ IsThread([t EXCEPT !.canon = x]) /\ IsThread([t EXCEPT !.found = x])
             /\ IsThread([t EXCEPT !.users = x]) /\ IsThread([t EXCEPT !.todo = x])
             /\ IsThread([t EXCEPT !.name = x])
  BY DEF IsThread, Fields
<1>. QED  BY <1>1, <1>2, <1>3

LEMMA NextNameCalm == ASSUME NEW t, IsThread(t) PROVE Calm(NextName(t))
<1>1. CASE t.todo # <<>>
  <2>1. NextName(t) = [GetUsername(t, Head(t.todo), "target") EXCEPT !.todo = Tail(t.todo)]
    BY <1>1 DEF NextName, GetUsername
  <2>. QED  BY <2>1 DEF Calm, IsThread, Fields, Rets, GetUsername
<1>2. CASE t.todo = <<>> /\ t.users # <<>>
  BY <1>2, GoesCalm DEF NextName
<1>3. CASE t.todo = <<>> /\ t.users = <<>>
  BY <1>3, IdleIsCalm DEF NextName
<1>. QED  BY <1>1, <1>2, <1>3

LEMMA CollectCalm == ASSUME NEW t, IsThread(t), NEW S PROVE Calm(Collect(t, S))
<1>1. PICK x : Collect(t, S) = NextName([t EXCEPT !.users = x])
  BY DEF Collect
<1>. QED  BY <1>1, GoesCalm, NextNameCalm

LEMMA ContinueCalm == ASSUME NEW t, IsThread(t) PROVE Calm(Continue(t))
<1>1. CASE t.ret = "caller"
  BY <1>1, GoesCalm, NextNameCalm DEF Continue
<1>2. CASE t.ret = "target"
  BY <1>2, CollectCalm DEF Continue, Calm, IsThread, Fields, Rets
<1>3. CASE t.ret \in {"members", "source", "group", "drop", "dropall", "touch", "claim", "", "unused"}
  BY <1>3, IdleIsCalm DEF Continue, Calm, IsThread, Fields, Rets
<1>4. CASE t.ret = "member"
  BY <1>4, IdleIsCalm, GoesCalm DEF Continue, Rets
<1>5. CASE t.ret = "dropper"
  BY <1>5, IdleIsCalm, GoesCalm DEF Continue, Rets
<1>. QED  BY <1>1, <1>2, <1>3, <1>4, <1>5 DEF IsThread, Rets

Shape == DOMAIN thread = Threads /\ \A i \in Threads : IsThread(thread[i])

----------------------------------------------------------------------------
(* Rows.                                                                   *)

IsRow(r) == DOMAIN r = {"user", "due", "told", "sent"}

\* tells is a sequence of rows
Rows == /\ \E n \in Nat : tells = [k \in 1..n |-> tells[k]]
        /\ \A k \in DOMAIN tells : IsRow(tells[k])

\* What the handlers of users.py and alias.py do to the rows: some are renamed.
Renamed == /\ DOMAIN tells' = DOMAIN tells
           /\ \E n \in Nat : tells' = [k \in 1..n |-> tells'[k]]
           /\ \A k \in DOMAIN tells : /\ IsRow(tells'[k])
                                      /\ tells'[k].due = tells[k].due
                                      /\ tells'[k].told = tells[k].told
                                      /\ tells'[k].sent = tells[k].sent

LEMMA SameRows == ASSUME Rows, UNCHANGED tells PROVE Renamed
BY DEF Rows, Renamed

\* A thread that is not sending stays so, and what was told and sent stays.
LEMMA UsersStepCalm ==
  ASSUME Shape, Rows, NEW i \in Threads, UsersStep(i)
  PROVE  /\ Renamed /\ thread[i].at # "send"
         /\ \E t : Calm(t) /\ thread' = [thread EXCEPT ![i] = t]
<1>. DEFINE Going == \E t : Calm(t) /\ thread' = [thread EXCEPT ![i] = t]
<1>1. IsThread(thread[i])
  BY DEF Shape
<1>2. \A t : Calm(t) /\ Goes(i, t) => Going
  BY DEF Goes
<1>3. \A found : Returns(i, found) => Going
  <2>. SUFFICES ASSUME NEW found, Returns(i, found) PROVE Going
    OBVIOUS
  <2>1. Calm(Continue([thread[i] EXCEPT !.found = found]))
    BY <1>1, GoesCalm, ContinueCalm
  <2>. QED  BY <1>2, <2>1 DEF Returns
<1>4. \A pc : pc # "send" /\ Moves(i, pc) => Going
  BY <1>1, <1>2, GoesCalm DEF Moves
<1>5. Ends(i) => Going
  BY <1>2, IdleIsCalm DEF Ends
<1>6. CASE Reads /\ (ResolveNick(i) \/ Known(i) \/ Raw(i) \/ LookupGroup(i) \/ Groupname(i)
                      \/ InUse(i) \/ GroupExists(i) \/ GroupUnused(i) \/ GroupNew(i))
  <2>1. Renamed
    BY <1>6, SameRows DEF Reads, dbVars
  <2>2. thread[i].at # "send"
    BY <1>6 DEF ResolveNick, Known, Raw, LookupGroup, Groupname, InUse, GroupExists, GroupUnused,
                GroupNew, At
  <2>3. Going
    <3>. HIDE DEF Going
    <3>. QED  BY <1>3, <1>4, <1>5, <1>6 DEF ResolveNick, Known, Raw, LookupGroup, Groupname, InUse,
                GroupExists, GroupUnused, GroupNew
  <2>. QED  BY <2>1, <2>2, <2>3
<1>7. CASE Reads /\ (Resolve(i) \/ Members(i) \/ GroupFree(i) \/ TargetUser(i) \/ AliasGroup(i))
  <2>1. Renamed
    BY <1>7, SameRows DEF Reads, dbVars
  <2>2. thread[i].at # "send"
    BY <1>7 DEF Resolve, Members, GroupFree, TargetUser, AliasGroup, At
  <2>3. CASE Resolve(i)
    <3>1. Goes(i, [thread[i] EXCEPT !.canon = alias[thread[i].name],
                                    !.at = IF alias[thread[i].name] = None THEN "raw" ELSE "known"])
      BY <2>3 DEF Resolve
    <3>2. Calm([thread[i] EXCEPT !.canon = alias[thread[i].name],
                                 !.at = IF alias[thread[i].name] = None THEN "raw" ELSE "known"])
      BY <1>1 DEF Calm, IsThread, Fields
    <3>. QED  BY <1>2, <2>1, <2>2, <3>1, <3>2
  <2>4. CASE Members(i)
    <3>1. PICK S : Goes(i, Collect(thread[i], S))
      BY <2>4 DEF Members
    <3>. QED  BY <1>1, <1>2, <2>1, <2>2, <3>1, CollectCalm
  <2>5. CASE GroupFree(i)
    <3>1. Ends(i) \/ Goes(i, GetUsername(thread[i], thread[i].b, "member"))
      BY <2>5 DEF GroupFree
    <3>2. Calm(GetUsername(thread[i], thread[i].b, "member"))
      BY <1>1, GoesCalm DEF Rets
    <3>. QED  BY <1>2, <1>5, <2>1, <2>2, <3>1, <3>2
  <2>6. CASE TargetUser(i)
    <3>1. \/ Ends(i)
          \/ \E c : Goes(i, GetGroupname([thread[i] EXCEPT !.canon = c], thread[i].b, "unused"))
      BY <2>6 DEF TargetUser
    <3>2. \A c : Calm(GetGroupname([thread[i] EXCEPT !.canon = c], thread[i].b, "unused"))
      BY <1>1, GoesCalm DEF Rets
    <3>. QED  BY <1>2, <1>5, <2>1, <2>2, <3>1, <3>2
  <2>7. CASE AliasGroup(i)
    <3>1. \/ Moves(i, "groupexists")
          \/ \E x : Goes(i, [thread[i] EXCEPT !.a = x, !.at = "groupunused"])
      BY <2>7 DEF AliasGroup
    <3>2. \A x : Calm([thread[i] EXCEPT !.a = x, !.at = "groupunused"])
      BY <1>1 DEF Calm, IsThread, Fields
    <3>. QED  BY <1>2, <1>4, <2>1, <2>2, <3>1, <3>2
  <2>. QED  BY <1>7, <2>3, <2>4, <2>5, <2>6, <2>7
<1>8. CASE Touch(i) \/ NewGroup(i) \/ GroupAdd(i) \/ Drop(i) \/ DropAll(i) \/ Regroup(i) \/ Origin(i)
           \/ Bind(i) \/ GroupBind(i) \/ Unalias(i) \/ UngroupAlias(i)
  <2>1. Renamed
    BY <1>8, SameRows DEF Touch, NewGroup, GroupAdd, Drop, DropAll, Regroup, Origin, Bind, GroupBind,
                          Unalias, UngroupAlias
  <2>2. thread[i].at # "send"
    BY <1>8 DEF Touch, NewGroup, GroupAdd, Drop, DropAll, Regroup, Origin, Bind, GroupBind,
                Unalias, UngroupAlias, At
  <2>3. Going
    <3>. HIDE DEF Going
    <3>. QED  BY <1>4, <1>5, <1>8 DEF Touch, NewGroup, GroupAdd, Drop, DropAll, Regroup, Origin, Bind,
                GroupBind, Unalias, UngroupAlias
  <2>. QED  BY <2>1, <2>2, <2>3
<1>9. CASE Rename(i)
  <2>1. thread[i].at # "send" /\ Moves(i, "regroup")
    BY <1>9 DEF Rename, At
  <2>2. PICK c, a : tells' = [k \in DOMAIN tells |->
                 IF tells[k].user = c THEN [tells[k] EXCEPT !.user = a] ELSE tells[k]]
    BY <1>9 DEF Rename
  <2>3. PICK n \in Nat : DOMAIN tells = 1..n
    BY DEF Rows
  <2>4. DOMAIN tells' = 1..n /\ tells' = [k \in 1..n |-> tells'[k]]
    BY <2>2, <2>3
  <2>5. \A k \in DOMAIN tells : /\ IsRow(tells'[k])
                                /\ tells'[k].due = tells[k].due
                                /\ tells'[k].told = tells[k].told
                                /\ tells'[k].sent = tells[k].sent
    BY <2>2 DEF Rows, IsRow
  <2>. QED  BY <1>4, <2>1, <2>3, <2>4, <2>5 DEF Renamed
<1>. QED  BY <1>6, <1>7, <1>8, <1>9 DEF UsersStep, ResolveNick, Known, Raw, LookupGroup, Groupname, InUse,
             GroupExists, GroupUnused, GroupNew, Resolve, Members, GroupFree, TargetUser, AliasGroup

----------------------------------------------------------------------------
(* Claims.                                                                 *)

\* thread i is to send row k
Holds(i, k) == thread[i].at = "send" /\ k \in ToSet(thread[i].todo)

\* A row waits; or it was claimed and one thread is to send it, or was until the process
\* died; or it was sent.
Claims ==
  /\ now \in 0..MaxTime
  /\ \A i \in Threads : \A k : Holds(i, k) => k \in DOMAIN tells
  /\ \A i, j \in Threads : \A k : Holds(i, k) /\ Holds(j, k) => i = j
  /\ \A k \in DOMAIN tells :
       \/ /\ tells[k].told = NotTold /\ tells[k].sent = 0
          /\ \A i \in Threads : ~Holds(i, k)
       \/ /\ tells[k].told # NotTold /\ tells[k].due < tells[k].told /\ tells[k].sent = 0
          /\ crashed \/ \E i \in Threads : Holds(i, k)
       \/ /\ tells[k].told # NotTold /\ tells[k].due < tells[k].told /\ tells[k].sent = 1
          /\ \A i \in Threads : ~Holds(i, k)

Inv == Shape /\ Rows /\ Claims

LEMMA ClaimsMeanOnce == Claims => AtMostOnce
<1>. SUFFICES ASSUME Claims, NEW k \in DOMAIN tells
              PROVE  /\ tells[k].sent <= 1
                     /\ tells[k].sent = 1 => tells[k].told # NotTold
                     /\ tells[k].told # NotTold => tells[k].due < tells[k].told
                     /\ Quiet /\ ~crashed /\ tells[k].told # NotTold => tells[k].sent = 1
  BY DEF AtMostOnce
<1>1. Quiet => \A i \in Threads : ~Holds(i, k)
  BY DEF Quiet, At, Holds
<1>. QED  BY <1>1 DEF Claims

LEMMA InvInit == Init => Inv
<1>. SUFFICES ASSUME Init PROVE Inv
  OBVIOUS
<1>1. Shape
  BY IdleIsCalm DEF Init, Shape, Calm
<1>. DEFINE R == [user : Names, due : Nat, told : {NotTold}, sent : {0}]
<1>2. tells \in Seq(R)
  BY TellAssumption DEF Init
<1>3. /\ DOMAIN tells = 1..Len(tells) /\ Len(tells) \in Nat /\ tells = [k \in 1..Len(tells) |-> tells[k]]
      /\ \A k \in 1..Len(tells) : tells[k] \in R
  <2>. HIDE DEF R
  <2>. QED  BY <1>2
<1>4. Rows
  BY <1>3 DEF Rows, IsRow
<1>5. \A i \in Threads : \A k : ~Holds(i, k)
  BY DEF Init, Holds, Idle
<1>6. Claims
  BY <1>3, <1>5, TellAssumption DEF Init, Claims
<1>. QED  BY <1>1, <1>4, <1>6 DEF Inv

\* A step of a thread that does not send, before or after.
LEMMA CalmStep ==
  ASSUME Inv, NEW i \in Threads, thread[i].at # "send", NEW t, Calm(t),
         thread' = [thread EXCEPT ![i] = t]
  PROVE  Shape' /\ \A j \in Threads : \A k : Holds(j, k)' <=> Holds(j, k)
BY DEF Inv, Shape, Calm, IsThread, Holds

LEMMA UsersKeeps ==
  ASSUME Inv, NEW i \in Threads, UsersStep(i), UNCHANGED <<now, events, crashed>>
  PROVE  Inv'
<1>1. /\ Renamed /\ thread[i].at # "send"
      /\ \E t : Calm(t) /\ thread' = [thread EXCEPT ![i] = t]
  BY UsersStepCalm DEF Inv
<1>2. Shape' /\ \A j \in Threads : \A k : Holds(j, k)' <=> Holds(j, k)
  BY <1>1, CalmStep
<1>3. Rows'
  BY <1>1 DEF Renamed, Rows
<1>4. Claims'
  BY <1>1, <1>2 DEF Inv, Renamed, Claims
<1>. QED  BY <1>2, <1>3, <1>4 DEF Inv

\* A row more.
LEMMA RowAdded ==
  ASSUME NEW s, NEW n \in Nat, s = [k \in 1..n |-> s[k]], NEW r
  PROVE  /\ DOMAIN Append(s, r) = 1..(n + 1) /\ n + 1 \in Nat
         /\ Append(s, r) = [k \in 1..(n + 1) |-> Append(s, r)[k]]
         /\ Append(s, r)[n + 1] = r /\ \A k \in 1..n : Append(s, r)[k] = s[k]
<1>. DEFINE S == {s[k] : k \in 1..n} \cup {r}
<1>1. s \in Seq(S) /\ r \in S /\ Len(s) = n
  <2>1. s \in [1..n -> S] /\ r \in S
    OBVIOUS
  <2>2. s \in Seq(S)
    BY <2>1, IsASeq
  <2>. HIDE DEF S
  <2>. QED  BY <2>1, <2>2, LenProperties
<1>. HIDE DEF S
<1>2. Append(s, r) \in Seq(S) /\ Len(Append(s, r)) = n + 1
  BY <1>1
<1>3. DOMAIN Append(s, r) = 1..(n + 1) /\ Append(s, r) = [k \in 1..(n + 1) |-> Append(s, r)[k]]
  BY <1>2
<1>. QED  BY <1>1, <1>3

LEMMA InsertKeeps == ASSUME Inv, NEW i \in Threads, Insert(i) PROVE Inv'
<1>1. thread[i].at # "send" /\ IsThread(thread[i]) /\ UNCHANGED <<now, crashed>>
  BY DEF Insert, At, Inv, Shape, history
<1>2. \E t : Calm(t) /\ thread' = [thread EXCEPT ![i] = t]
  <2>1. Calm([thread[i] EXCEPT !.users = Tail(thread[i].users)])
    BY <1>1 DEF Calm, IsThread, Fields
  <2>. QED  BY <2>1, IdleIsCalm DEF Insert, Goes, Ends
<1>3. Shape' /\ \A j \in Threads : \A k : Holds(j, k)' <=> Holds(j, k)
  BY <1>1, <1>2, CalmStep
<1>4. PICK r : IsRow(r) /\ r.told = NotTold /\ r.sent = 0 /\ tells' = Append(tells, r)
  <2>1. PICK u, d : tells' = Append(tells, [user |-> u, due |-> d, told |-> NotTold, sent |-> 0])
    BY DEF Insert
  <2>. QED  BY <2>1 DEF IsRow
<1>5. PICK n \in Nat : tells = [k \in 1..n |-> tells[k]]
  BY DEF Inv, Rows
<1>6. /\ DOMAIN tells' = 1..(n + 1) /\ n + 1 \in Nat /\ tells' = [k \in 1..(n + 1) |-> tells'[k]]
      /\ tells'[n + 1] = r /\ \A k \in 1..n : tells'[k] = tells[k]
  BY <1>4, <1>5, RowAdded
<1>7. DOMAIN tells = 1..n /\ \A k \in 1..(n + 1) : k \in 1..n \/ k = n + 1
  BY <1>5
<1>8. Rows'
  BY <1>4, <1>6, <1>7 DEF Inv, Rows
<1>9. Claims'
  <2>1. \A j \in Threads : ~Holds(j, n + 1)
    BY <1>7 DEF Inv, Claims
  <2>2. \A j \in Threads : \A k : Holds(j, k)' => k \in DOMAIN tells'
    BY <1>3, <1>6, <1>7 DEF Inv, Claims
  <2>. QED  BY <1>1, <1>3, <1>4, <1>6, <1>7, <2>1, <2>2 DEF Inv, Claims
<1>. QED  BY <1>3, <1>8, <1>9 DEF Inv

\* The rows that are claimed are just those to be sent.
LEMMA AllListed == ASSUME NEW S, IsFiniteSet(S) PROVE ToSet(SetToSeq(S)) = S
<1>. DEFINE n == Cardinality(S)
<1>1. n \in Nat /\ ExistsBijection(1..n, S)
  BY FS_CardinalityType
<1>2. \E f \in [1..n -> S] : IsInjective(f)
  BY <1>1 DEF ExistsBijection, Bijection, Injection
<1>3. SetToSeq(S) \in Injection(1..n, S)
  BY <1>2 DEF SetToSeq, Injection
<1>4. Cardinality(1..n) = n
  BY <1>1, FS_Interval
<1>5. SetToSeq(S) \in Surjection(1..n, S)
  BY <1>3, <1>4, FS_Injection
<1>. QED  BY <1>3, <1>5 DEF ToSet, Surjection, Injection

LEMMA ClaimKeeps == ASSUME Inv, NEW i \in Threads, Claim(i) PROVE Inv'
<1>1. thread[i].at = "claim" /\ IsThread(thread[i]) /\ UNCHANGED <<now, crashed>>
  BY DEF Claim, At, Inv, Shape, history
<1>2. PICK u :
        /\ tells' = [k \in DOMAIN tells |-> IF k \in Due(u) THEN [tells[k] EXCEPT !.told = now] ELSE tells[k]]
        /\ IF Due(u) = {} THEN Ends(i)
           ELSE Goes(i, [thread[i] EXCEPT !.at = "send", !.todo = SetToSeq(Due(u))])
  BY DEF Claim
<1>3. PICK n \in Nat : DOMAIN tells = 1..n
  BY DEF Inv, Rows
<1>4. ToSet(SetToSeq(Due(u))) = Due(u) /\ Due(u) \subseteq DOMAIN tells
  <2>1. Due(u) \subseteq 1..n
    BY <1>3 DEF Due
  <2>2. IsFiniteSet(Due(u))
    <3>1. IsFiniteSet(1..n)
      BY FS_Interval
    <3>. QED  BY <2>1, <3>1, FS_Subset
  <2>. QED  BY <1>3, <2>1, <2>2, AllListed
<1>5. now \in 0..MaxTime /\ now # NotTold
  BY TellAssumption DEF Inv, Claims, NotTold
<1>6. /\ DOMAIN tells' = 1..n /\ tells' = [k \in 1..n |-> tells'[k]]
      /\ \A k \in 1..n : IsRow(tells'[k])
      /\ \A k \in 1..n : k \notin Due(u) => tells'[k] = tells[k]
      /\ \A k \in Due(u) : /\ tells'[k].told = now /\ tells'[k].sent = tells[k].sent
                           /\ tells'[k].due = tells[k].due /\ tells[k].due < now
                           /\ tells[k].told = NotTold
  <2>1. DOMAIN tells' = 1..n /\ tells' = [k \in 1..n |-> tells'[k]]
    BY <1>2, <1>3
  <2>2. \A k \in 1..n : IsRow(tells[k])
    BY <1>3 DEF Inv, Rows
  <2>3. \A k \in 1..n : k \notin Due(u) => tells'[k] = tells[k]
    BY <1>2, <1>3
  <2>4. \A k \in Due(u) : tells'[k] = [tells[k] EXCEPT !.told = now] /\ IsRow(tells[k])
    BY <1>2, <1>3, <1>4, <2>2
  <2>5. \A k \in Due(u) : /\ tells'[k].told = now /\ tells'[k].sent = tells[k].sent
                          /\ tells'[k].due = tells[k].due /\ IsRow(tells'[k])
    BY <2>4 DEF IsRow
  <2>6. \A k \in Due(u) : tells[k].due < now /\ tells[k].told = NotTold
    BY DEF Due
  <2>. QED  BY <2>1, <2>2, <2>3, <2>5, <2>6
<1>7. Rows'
  BY <1>6 DEF Rows
<1>8. /\ DOMAIN thread' = Threads /\ \A j \in Threads : j # i => thread'[j] = thread[j]
      /\ \A k : Holds(i, k)' <=> k \in Due(u)
      /\ IsThread(thread'[i])
  <2>1. DOMAIN thread = Threads
    BY DEF Inv, Shape
  <2>2. CASE Due(u) = {}
    <3>1. thread' = [thread EXCEPT ![i] = Idle]
      BY <1>2, <2>2 DEF Ends, Goes
    <3>2. thread'[i] = Idle /\ Idle.at # "send"
      BY <2>1, <3>1 DEF Idle
    <3>. QED  BY <2>1, <2>2, <3>1, <3>2, IdleIsCalm DEF Holds, Calm
  <2>3. CASE Due(u) # {}
    <3>1. thread' = [thread EXCEPT ![i] = [thread[i] EXCEPT !.at = "send", !.todo = SetToSeq(Due(u))]]
      BY <1>2, <2>3 DEF Goes
    <3>2. thread'[i] = [thread[i] EXCEPT !.at = "send", !.todo = SetToSeq(Due(u))]
      BY <2>1, <3>1
    <3>3. thread'[i].at = "send" /\ thread'[i].todo = SetToSeq(Due(u)) /\ IsThread(thread'[i])
      BY <1>1, <3>2 DEF IsThread, Fields
    <3>. QED  BY <1>4, <2>1, <3>1, <3>3 DEF Holds
  <2>. QED  BY <2>2, <2>3
<1>9. Shape'
  BY <1>8 DEF Inv, Shape
<1>10. \A k : ~Holds(i, k)
  BY <1>1 DEF Holds
<1>11. \A j \in Threads : \A k : Holds(j, k)' <=> Holds(j, k) \/ (j = i /\ k \in Due(u))
  BY <1>8, <1>10 DEF Holds
<1>12. \A j \in Threads, k \in Due(u) : ~Holds(j, k)
  BY <1>4, <1>6 DEF Inv, Claims
<1>13. Claims'
  <2>1. \A j \in Threads : \A k : Holds(j, k)' => k \in DOMAIN tells'
    BY <1>3, <1>4, <1>6, <1>11 DEF Inv, Claims
  <2>2. \A j, h \in Threads : \A k : Holds(j, k)' /\ Holds(h, k)' => j = h
    BY <1>11, <1>12 DEF Inv, Claims
  <2>3. ASSUME NEW k \in Due(u)
        PROVE  /\ tells'[k].told # NotTold /\ tells'[k].due < tells'[k].told /\ tells'[k].sent = 0
               /\ \E j \in Threads : Holds(j, k)'
    <3>1. tells[k].sent = 0
      BY <1>4, <1>6 DEF Inv, Claims
    <3>. QED  BY <1>5, <1>6, <1>11, <3>1
  <2>4. ASSUME NEW k \in 1..n, k \notin Due(u)
        PROVE  tells'[k] = tells[k] /\ \A j \in Threads : Holds(j, k)' <=> Holds(j, k)
    BY <1>6, <1>11, <2>4
  <2>. QED  BY <1>1, <1>3, <1>5, <1>6, <2>1, <2>2, <2>3, <2>4 DEF Inv, Claims
<1>. QED  BY <1>7, <1>9, <1>13 DEF Inv

LEMMA SendKeeps == ASSUME Inv, NEW i \in Threads, Send(i) PROVE Inv'
<1>1. thread[i].at = "send" /\ UNCHANGED <<now, crashed>> /\ thread' = [thread EXCEPT ![i] = Idle]
  BY DEF Send, At, Ends, Goes, history
<1>2. PICK n \in Nat : DOMAIN tells = 1..n
  BY DEF Inv, Rows
<1>3. \A k \in 1..n : IsRow(tells[k])
  BY <1>2 DEF Inv, Rows
<1>4. \A k \in 1..n : Holds(i, k) => /\ tells[k].told # NotTold /\ tells[k].due < tells[k].told
                                     /\ tells[k].sent = 0
  BY <1>2 DEF Inv, Claims
<1>5. /\ DOMAIN tells' = 1..n /\ tells' = [k \in 1..n |-> tells'[k]]
      /\ \A k \in 1..n : ~Holds(i, k) => tells'[k] = tells[k]
      /\ \A k \in 1..n : Holds(i, k) => /\ IsRow(tells'[k]) /\ tells'[k].sent = 1
                                        /\ tells'[k].told = tells[k].told
                                        /\ tells'[k].due = tells[k].due
  <2>1. tells' = [k \in 1..n |->
                 IF k \in ToSet(thread[i].todo)
                 THEN [tells[k] EXCEPT !.sent = @ + 1, !.told = IF @ = NotTold THEN now ELSE @]
                 ELSE tells[k]]
    BY <1>2 DEF Send
  <2>2. \A k \in 1..n : ~Holds(i, k) => tells'[k] = tells[k]
    BY <1>1, <2>1 DEF Holds
  <2>3. \A k \in 1..n : Holds(i, k) =>
          tells'[k] = [tells[k] EXCEPT !.sent = @ + 1, !.told = IF @ = NotTold THEN now ELSE @]
    BY <2>1 DEF Holds
  <2>4. ASSUME NEW k \in 1..n, Holds(i, k)
        PROVE  /\ IsRow(tells'[k]) /\ tells'[k].sent = 1
               /\ tells'[k].told = tells[k].told /\ tells'[k].due = tells[k].due
    <3>1. IsRow(tells[k]) /\ tells[k].told # NotTold /\ tells[k].sent = 0
      BY <1>3, <1>4, <2>4
    <3>2. tells'[k] = [tells[k] EXCEPT !.sent = tells[k].sent + 1,
                                       !.told = IF tells[k].told = NotTold THEN now ELSE tells[k].told]
      BY <2>3, <2>4
    <3>. QED  BY <3>1, <3>2 DEF IsRow
  <2>. QED  BY <2>1, <2>2, <2>4
<1>6. Rows'
  BY <1>3, <1>5 DEF Rows
<1>7. Shape' /\ thread'[i] = Idle /\ \A j \in Threads : j # i => thread'[j] = thread[j]
  BY <1>1, IdleIsCalm DEF Inv, Shape, Calm
<1>8. \A j \in Threads : \A k : Holds(j, k)' <=> Holds(j, k) /\ j # i
  <2>1. \A j \in Threads : \A k : j # i => (Holds(j, k)' <=> Holds(j, k))
    BY <1>7 DEF Holds
  <2>2. Idle.at # "send"
    BY DEF Idle
  <2>3. \A k : ~Holds(i, k)'
    BY <1>7, <2>2 DEF Holds
  <2>. QED  BY <2>1, <2>3
<1>9. Claims'
  <2>1. \A j \in Threads : \A k : Holds(j, k)' => k \in DOMAIN tells'
    BY <1>2, <1>5, <1>8 DEF Inv, Claims
  <2>2. \A j, h \in Threads : \A k : Holds(j, k)' /\ Holds(h, k)' => j = h
    BY <1>8 DEF Inv, Claims
  <2>3. ASSUME NEW k \in 1..n, Holds(i, k)
        PROVE  /\ tells'[k].told # NotTold /\ tells'[k].due < tells'[k].told /\ tells'[k].sent = 1
               /\ \A j \in Threads : ~Holds(j, k)'
    <3>1. \A j \in Threads : Holds(j, k) => j = i
      BY <2>3 DEF Inv, Claims
    <3>. QED  BY <1>4, <1>5, <1>8, <2>3, <3>1
  <2>4. ASSUME NEW k \in 1..n, ~Holds(i, k)
        PROVE  tells'[k] = tells[k] /\ \A j \in Threads : Holds(j, k)' <=> Holds(j, k)
    BY <1>5, <1>8, <2>4
  <2>. QED  BY <1>1, <1>2, <1>5, <2>1, <2>2, <2>3, <2>4 DEF Inv, Claims
<1>. QED  BY <1>6, <1>7, <1>9 DEF Inv

\* A message's handlers start in threads that are idle.
LEMMA HandlerCalm == ASSUME NEW c PROVE Calm(Handler(c))
<1>. DEFINE t == [Idle EXCEPT !.cmd = c.cmd, !.nick = c.nick, !.a = c.a, !.b = c.b, !.todo = c.targets, !.due = c.due]
<1>1. IsThread(t)
  BY DEF IsThread, Idle, Fields, Rets
<1>. HIDE DEF t
<1>2. Handler(c) \in {GetUsername(t, c.nick, "caller"), GetUsername(t, c.a, "source"),
                      [t EXCEPT !.at = "unalias"], [t EXCEPT !.at = "groupfree"],
                      GetUsername([t EXCEPT !.b = c.nick], c.nick, "member"),
                      GetUsername(t, c.b, "dropper"), GetGroupname([t EXCEPT !.b = c.a], c.a, "dropall"), Idle}
  BY DEF Handler, t
<1>3. /\ Calm(GetUsername(t, c.nick, "caller")) /\ Calm(GetUsername(t, c.a, "source"))
      /\ Calm([t EXCEPT !.at = "unalias"]) /\ Calm([t EXCEPT !.at = "groupfree"])
      /\ Calm(GetUsername(t, c.b, "dropper"))
  BY <1>1, GoesCalm DEF Rets
<1>4. /\ Calm(GetUsername([t EXCEPT !.b = c.nick], c.nick, "member"))
      /\ Calm(GetGroupname([t EXCEPT !.b = c.a], c.a, "dropall"))
  BY <1>1, GoesCalm DEF Rets
<1>. QED  BY <1>2, <1>3, <1>4, IdleIsCalm

LEMMA MessageKeeps == ASSUME Inv, NEW c \in Messages, Message(c) PROVE Inv'
<1>1. PICK s \in 1..Slots :
        /\ Free(s)
        /\ thread' = [thread EXCEPT ![<<s, "update">>] = Updater(c.nick),
                                    ![<<s, "deliver">>] = Deliverer(c.nick), ![<<s, "command">>] = Handler(c)]
  BY DEF Message
<1>2. UNCHANGED <<tells, now, crashed>>
  BY DEF Message, dbVars, history
<1>3. Calm(Updater(c.nick)) /\ Calm(Deliverer(c.nick)) /\ Calm(Handler(c))
  BY HandlerCalm DEF Calm, IsThread, Updater, Deliverer, Idle, Fields, Rets
<1>4. /\ DOMAIN thread = Threads /\ DOMAIN thread' = Threads
      /\ \A j \in Threads : j[1] # s => thread'[j] = thread[j]
      /\ \A j \in Threads : j[1] = s => thread[j].at = "idle" /\ Calm(thread'[j])
  <2>1. DOMAIN thread = Threads /\ DOMAIN thread' = Threads
    BY <1>1 DEF Inv, Shape
  <2>2. \A j \in Threads : j = <<j[1], j[2]>> /\ j[2] \in {"update", "deliver", "command"}
    BY DEF Threads
  <2>3. \A j \in Threads : j[1] # s => thread'[j] = thread[j]
    BY <1>1, <2>1
  <2>4. \A j \in Threads : j[1] = s => thread'[j] \in {Updater(c.nick), Deliverer(c.nick), Handler(c)}
    BY <1>1, <2>1, <2>2
  <2>. QED  BY <1>1, <1>3, <2>1, <2>3, <2>4 DEF Free, At
<1>5. Shape' /\ \A j \in Threads : \A k : Holds(j, k)' <=> Holds(j, k)
  BY <1>4 DEF Inv, Shape, Holds, Calm
<1>6. Rows' /\ Claims'
  BY <1>2, <1>5 DEF Inv, Rows, Claims
<1>. QED  BY <1>5, <1>6 DEF Inv

LEMMA CrashKeeps == ASSUME Inv, Crash PROVE Inv'
<1>1. thread' = [i \in Threads |-> Idle] /\ crashed' = TRUE /\ UNCHANGED <<tells, now>>
  BY DEF Crash, dbVars
<1>2. Shape' /\ \A j \in Threads : \A k : ~Holds(j, k)'
  BY <1>1, IdleIsCalm DEF Shape, Calm, Holds, Idle
<1>3. Rows' /\ Claims'
  BY <1>1, <1>2 DEF Inv, Rows, Claims
<1>. QED  BY <1>2, <1>3 DEF Inv

LEMMA InvNext == Inv /\ [Next]_vars => Inv'
<1>. SUFFICES ASSUME Inv, [Next]_vars PROVE Inv'
  OBVIOUS
<1>1. CASE Tick
  <2>1. now' \in 0..MaxTime /\ UNCHANGED <<tells, thread, crashed>>
    BY <1>1, TellAssumption DEF Tick, Inv, Claims, dbVars, history
  <2>. QED  BY <2>1 DEF Inv, Shape, Rows, Claims, Holds
<1>2. CASE UNCHANGED vars
  BY <1>2 DEF Inv, Shape, Rows, Claims, Holds, vars, dbVars, history
<1>. QED  BY <1>1, <1>2, UsersKeeps, InsertKeeps, ClaimKeeps, SendKeeps, MessageKeeps, CrashKeeps DEF Next, Steps

\* However many threads handle the messages of a user's nicks, and wherever the process
\* dies, no tell is sent twice or before it is due, and once told it is sent unless the
\* process died in between (deliver_tell claims the rows in one statement).
THEOREM TellsOnce == Spec => []AtMostOnce
BY InvInit, InvNext, ClaimsMeanOnce, PTL DEF Spec, Inv

----------------------------------------------------------------------------
(* What waits can be had.                                                  *)

\* users who are given what is told to them under their own name
Origins == {u \in Nicks \cap user : alias[u] \in {None, u}}
NoRow(b) == \A k \in DOMAIN tells : tells[k].user # b
NoMember(b) == \A m \in grp : m[2] # b

\* Threads of user_update and deliver_tell
Light(t) ==
  /\ t.at \in {"idle", "resolvenick", "touch", "claim", "send"}
  /\ t.at = "resolvenick" => t.nick \in Nicks /\ t.name \in Nicks /\ t.ret \in {"touch", "claim"}
  /\ t.at = "touch" => t.nick \in Nicks /\ t.found \in Nicks \cup {None}

Resolving == {"resolve", "known", "raw"}
Grouping == {"lookupgroup", "groupname"}
Lookups(t) ==
  /\ t.at \in Resolving => t.name \in Names
  /\ t.at = "known" => t.canon \in Origins
  /\ t.at = "raw" => alias[t.name] \in {None, t.name}

\* of commands but alias: the users they hold are origins
Talking(t) ==
  /\ t.at \in {"idle", "insert", "members", "groupfree", "newgroup", "groupadd", "drop", "dropall",
               "unalias", "ungroupalias"} \cup Resolving \cup Grouping
  /\ t.at = "idle" => t = Idle
  /\ Lookups(t)
  /\ t.at \in Resolving => t.ret \in {"caller", "target", "member", "dropper"}
  /\ t.at \in Grouping => t.ret \in {"members", "group", "drop", "dropall"}
  /\ t.at \in {"newgroup", "groupadd"} => t.ret = "group"
  /\ t.at \in {"newgroup", "groupadd"} \cup Grouping /\ t.ret = "group" => t.b \in Origins
  /\ t.at = "groupfree" => t.b \in Names
  /\ t.todo \in Seq(Names) /\ t.users \in Seq(Origins)
  /\ t.at = "insert" => t.users # <<>>

\* of alias: the source is an origin, and once it is to be bound the target has nothing left
Renaming == {"rename", "regroup", "origin", "bind"}
Taking == Grouping \cup {"inuse"} \cup Renaming
Aliasing(t) ==
  /\ t.at \in Resolving \cup Taking
       \cup {"targetuser", "aliasgroup", "groupexists", "groupunused", "groupnew", "groupbind"}
  /\ t.b \in Names /\ Lookups(t)
  /\ t.at \in Resolving => t.ret = "source"
  /\ t.at \in Taking => t.ret = "unused" /\ t.a # t.b
  /\ t.at \in Taking \cup {"targetuser"} => t.a \in Origins
  /\ t.at \in Grouping \cup {"inuse"} => \/ t.canon = t.b
                                         \/ t.canon = None /\ NoRow(t.b) /\ NoMember(t.b)
  /\ t.at = "rename" => t.canon = t.b
  /\ t.at \in Renaming => alias[t.b] = None
  /\ t.at \in {"regroup", "origin", "bind"} => NoRow(t.b)
  /\ t.at \in {"origin", "bind"} => NoMember(t.b)
  /\ t.at = "bind" => alias[t.a] = t.a

Commanding(t) == IF t.cmd = "alias" THEN Aliasing(t) ELSE Talking(t)

\* the tables, whatever is under way: only between rename_user and the update of aliasgrp is
\* there a member who is no origin
SoundTables ==
  /\ user \subseteq Nicks /\ alias \in [Names -> Names \cup {None}] /\ IsFiniteSet(grp)
  /\ \A n \in Names : alias[n] # None => alias[n] \in Origins /\ alias[alias[n]] = alias[n]
  /\ \A k \in DOMAIN tells : tells[k].user \in Origins
  /\ \A m \in grp : m[2] \in Origins \/ \E i \in Threads : At(i, "regroup") /\ m[2] = thread[i].b

Command(i) == i[2] = "command"
SoundThread(i) == IF Command(i) THEN Commanding(thread[i]) ELSE Light(thread[i])

\* no name that alias takes is one another command goes by
Sound == SoundTables /\ (\A i \in Threads : SoundThread(i)) /\ ~Clash
Settled == ~crashed /\ ~orphaned /\ ~raced => Sound

LEMMA IdleIs == Idle.at = "idle" /\ Idle.cmd = ""
BY DEF Idle

LEMMA IdleIsSound == Light(Idle) /\ Talking(Idle) /\ Idle.cmd # "alias"
BY DEF Light, Talking, Idle, Lookups, Resolving, Grouping

LEMMA AskedUser ==
  ASSUME NEW t, IsThread(t), NEW n, NEW pc
  PROVE  LET u == GetUsername(t, n, pc) IN
         /\ u.at = "resolve" /\ u.name = n /\ u.ret = pc /\ u.cmd = t.cmd /\ u.a = t.a /\ u.b = t.b
         /\ u.todo = t.todo /\ u.users = t.users
BY DEF IsThread, Fields, GetUsername

LEMMA AskedGroup ==
  ASSUME NEW t, IsThread(t), NEW n, NEW pc
  PROVE  LET u == GetGroupname(t, n, pc) IN
         /\ u.at = "lookupgroup" /\ u.name = n /\ u.ret = pc /\ u.cmd = t.cmd /\ u.a = t.a /\ u.b = t.b
         /\ u.todo = t.todo /\ u.users = t.users /\ u.canon = t.canon
BY DEF IsThread, Fields, GetGroupname

\* Commands other than alias.
LEMMA NextNameTalks ==
  ASSUME NEW t, IsThread(t), t.cmd # "alias", t.todo \in Seq(Names), t.users \in Seq(Origins)
  PROVE  LET u == NextName(t) IN Talking(u) /\ u.cmd # "alias"
<1>. DEFINE u == NextName(t)
<1>1. CASE t.todo # <<>>
  <2>. DEFINE g == GetUsername(t, Head(t.todo), "target")
  <2>1. u = [g EXCEPT !.todo = Tail(t.todo)]
    BY <1>1 DEF NextName, GetUsername, IsThread, Fields
  <2>2. IsThread(g)
    BY GoesCalm DEF Rets, Calm
  <2>5. g.at = "resolve" /\ g.name = Head(t.todo) /\ g.ret = "target" /\ g.cmd = t.cmd /\ g.users = t.users
    BY AskedUser
  <2>. HIDE DEF g
  <2>3. /\ u.at = "resolve" /\ u.name = Head(t.todo) /\ u.ret = "target" /\ u.cmd = t.cmd
        /\ u.users = t.users /\ u.todo = Tail(t.todo)
    BY <2>1, <2>2, <2>5 DEF IsThread, Fields
  <2>4. Head(t.todo) \in Names /\ Tail(t.todo) \in Seq(Names)
    BY <1>1
  <2>. HIDE DEF u
  <2>9. Talking(u) /\ u.cmd # "alias"
    BY <2>3, <2>4 DEF Talking, Lookups, Resolving, Grouping
  <2>. QED  BY <2>9 DEF u
<1>2. CASE t.todo = <<>> /\ t.users # <<>>
  <2>1. u = [t EXCEPT !.at = "insert"]
    BY <1>2 DEF NextName
  <2>2. u.at = "insert" /\ u.cmd = t.cmd /\ u.users = t.users /\ u.todo = t.todo
    BY <2>1 DEF IsThread, Fields
  <2>. HIDE DEF u
  <2>9. Talking(u) /\ u.cmd # "alias"
    BY <1>2, <2>2 DEF Talking, Lookups, Resolving, Grouping
  <2>. QED  BY <2>9 DEF u
<1>3. CASE t.todo = <<>> /\ t.users = <<>>
  BY <1>3, IdleIsSound DEF NextName
<1>. QED  BY <1>1, <1>2, <1>3

LEMMA Listed == ASSUME NEW S, NEW T, IsFiniteSet(S), S \subseteq T PROVE SetToSeq(S) \in Seq(T)
<1>. DEFINE n == Cardinality(S)
<1>1. n \in Nat /\ ExistsBijection(1..n, S)
  BY FS_CardinalityType
<1>2. \E f \in [1..n -> S] : IsInjective(f)
  BY <1>1 DEF ExistsBijection, Bijection, Injection
<1>3. SetToSeq(S) \in [1..n -> S]
  BY <1>2 DEF SetToSeq, Injection
<1>4. SetToSeq(S) \in [1..n -> T]
  BY <1>3
<1>. QED  BY <1>1, <1>4, IsASeq

\* the users Collect adds
New(t, S) == {u \in S : u \notin ToSet(t.users) /\ ~(t.cmd = "tell" /\ u = t.a)}

LEMMA CollectTalks ==
  ASSUME NEW t, IsThread(t), t.cmd # "alias", t.todo \in Seq(Names), t.users \in Seq(Origins),
         NEW S, IsFiniteSet(S), New(t, S) \subseteq Origins
  PROVE  LET u == Collect(t, S) IN Talking(u) /\ u.cmd # "alias"
<1>. DEFINE q == t.users \o SetToSeq(New(t, S))
            v == [t EXCEPT !.users = q]
<1>1. SetToSeq(New(t, S)) \in Seq(Origins)
  <2>1. IsFiniteSet(New(t, S))
    BY FS_Subset DEF New
  <2>. QED  BY <2>1, Listed
<1>2. q \in Seq(Origins)
  BY <1>1
<1>3. Collect(t, S) = NextName(v)
  BY DEF Collect, New
<1>. HIDE DEF q
<1>4. IsThread(v) /\ v.cmd = t.cmd /\ v.todo = t.todo /\ v.users = q
  BY DEF IsThread, Fields
<1>. QED  BY <1>2, <1>3, <1>4, NextNameTalks

LEMMA CollectHas ==
  ASSUME NEW t, IsThread(t), NEW T, t.users \in Seq(T), NEW S, IsFiniteSet(S), NEW u \in New(t, S)
  PROVE  u \in ToSet(Collect(t, S).users)
<1>. DEFINE p == SetToSeq(New(t, S))
            q == t.users \o p
            v == [t EXCEPT !.users = q]
<1>1. IsFiniteSet(New(t, S))
  BY FS_Subset DEF New
<1>2. ToSet(p) = New(t, S) /\ p \in Seq(New(t, S))
  BY <1>1, AllListed, Listed
<1>3. PICK k \in 1..Len(p) : p[k] = u
  <2>. HIDE DEF p
  <2>. QED  BY <1>2 DEF ToSet
<1>4. Len(t.users) + k \in 1..Len(q) /\ q[Len(t.users) + k] = u /\ q # <<>> /\ DOMAIN q = 1..Len(q)
  <2>. DEFINE U == T \cup New(t, S)
  <2>1. t.users \in Seq(U) /\ p \in Seq(U)
    <3>. HIDE DEF p
    <3>1. \A X, Y, x : X \subseteq Y /\ x \in Seq(X) => x \in Seq(Y)
      OBVIOUS
    <3>. QED  BY <1>2, <3>1
  <2>. HIDE DEF p, U
  <2>2. q \in Seq(U) /\ Len(q) = Len(t.users) + Len(p) /\ Len(p) \in Nat /\ Len(t.users) \in Nat
    BY <2>1
  <2>3. q[Len(t.users) + k] = p[k]
    BY <2>1, <2>2, <1>3
  <2>4. Len(q) # 0
    BY <2>2, <1>3
  <2>5. q # <<>>
    BY <2>4
  <2>. HIDE DEF q
  <2>. QED  BY <1>3, <2>2, <2>3, <2>5
<1>5. u \in ToSet(q)
  <2>. HIDE DEF q
  <2>. QED  BY <1>4 DEF ToSet
<1>6. Collect(t, S) = NextName(v)
  BY DEF Collect, New
<1>. HIDE DEF q
<1>7. IsThread(v) /\ v.users = q
  BY DEF IsThread, Fields
<1>. HIDE DEF v
<1>8. NextName(v).users = q
  <2>1. CASE v.todo # <<>>
    <3>1. NextName(v) = [GetUsername(v, Head(v.todo), "target") EXCEPT !.todo = Tail(v.todo)]
      BY <2>1 DEF NextName, GetUsername
    <3>. QED  BY <1>7, <3>1 DEF GetUsername, IsThread, Fields
  <2>2. CASE v.todo = <<>>
    <3>1. NextName(v) = [v EXCEPT !.at = "insert"]
      BY <1>4, <1>7, <2>2 DEF NextName
    <3>. QED  BY <1>7, <3>1 DEF IsThread, Fields
  <2>. QED  BY <2>1, <2>2
<1>. QED  BY <1>5, <1>6, <1>8

LEMMA ContinueTalks ==
  ASSUME NEW t, IsThread(t), t.cmd # "alias", t.todo \in Seq(Names), t.users \in Seq(Origins),
         t.ret \in {"caller", "target", "member", "dropper", "members", "group", "drop", "dropall"},
         t.ret \in {"caller", "target", "member", "dropper"} => t.found \in Origins \cup {None},
         t.ret = "group" => t.b \in Origins
  PROVE  LET u == Continue(t) IN Talking(u) /\ u.cmd # "alias"
<1>. DEFINE u == Continue(t)
<1>1. CASE t.ret = "caller"
  <2>1. PICK x : u = NextName([t EXCEPT !.a = x])
    BY <1>1 DEF Continue
  <2>. DEFINE v == [t EXCEPT !.a = x]
  <2>2. IsThread(v) /\ v.cmd = t.cmd /\ v.todo = t.todo /\ v.users = t.users
    BY DEF IsThread, Fields
  <2>. QED  BY <2>1, <2>2, NextNameTalks
<1>2. CASE t.ret = "target" /\ t.found # None
  <2>1. u = Collect(t, {t.found})
    BY <1>2 DEF Continue
  <2>2. IsFiniteSet({t.found}) /\ New(t, {t.found}) \subseteq Origins
    BY <1>2, FS_Singleton DEF New
  <2>. QED  BY <2>1, <2>2, CollectTalks
<1>3. CASE t.ret = "target" /\ t.found = None
  <2>1. u = [t EXCEPT !.at = "lookupgroup", !.ret = "members"]
    BY <1>3 DEF Continue
  <2>2. u.at = "lookupgroup" /\ u.ret = "members" /\ u.cmd = t.cmd /\ u.users = t.users /\ u.todo = t.todo
    BY <2>1 DEF IsThread, Fields
  <2>. HIDE DEF u
  <2>9. Talking(u) /\ u.cmd # "alias"
    BY <2>2 DEF Talking, Lookups, Resolving, Grouping
  <2>. QED  BY <2>9 DEF u
<1>4. CASE t.ret = "members"
  <2>1. PICK x : u = [t EXCEPT !.at = "members", !.name = x]
    BY <1>4 DEF Continue, IsThread, Fields
  <2>2. u.at = "members" /\ u.cmd = t.cmd /\ u.users = t.users /\ u.todo = t.todo
    BY <2>1 DEF IsThread, Fields
  <2>. HIDE DEF u
  <2>9. Talking(u) /\ u.cmd # "alias"
    BY <2>2 DEF Talking, Lookups, Resolving, Grouping
  <2>. QED  BY <2>9 DEF u
<1>5. CASE t.ret \in {"member", "dropper"} /\ t.found # None
  <2>. DEFINE v == [t EXCEPT !.b = t.found]
  <2>1. PICK to \in {"group", "drop"} : u = GetGroupname(v, t.a, to)
    BY <1>5 DEF Continue
  <2>2. IsThread(v) /\ v.cmd = t.cmd /\ v.todo = t.todo /\ v.users = t.users /\ v.b = t.found
    BY DEF IsThread, Fields
  <2>. HIDE DEF v
  <2>3. /\ u.at = "lookupgroup" /\ u.ret = to /\ u.cmd = t.cmd /\ u.b = t.found /\ u.todo = t.todo
        /\ u.users = t.users
    <3>. HIDE DEF u
    <3>. QED  BY <2>1, <2>2, AskedGroup
  <2>. HIDE DEF u
  <2>9. Talking(u) /\ u.cmd # "alias"
    BY <1>5, <2>3 DEF Talking, Lookups, Resolving, Grouping
  <2>. QED  BY <2>9 DEF u
<1>6. CASE t.ret = "group" /\ (t.found # None \/ t.cmd = "group")
  <2>2. /\ u.at \in {"newgroup", "groupadd"} /\ u.ret = t.ret /\ u.cmd = t.cmd /\ u.users = t.users
        /\ u.todo = t.todo /\ u.b = t.b
    <3>1. CASE t.found # None
      <4>1. u = [t EXCEPT !.at = "groupadd", !.a = t.found]
        BY <1>6, <3>1 DEF Continue
      <4>. QED  BY <4>1 DEF IsThread, Fields
    <3>2. CASE t.found = None
      <4>1. u = [t EXCEPT !.at = "newgroup"]
        BY <1>6, <3>2 DEF Continue
      <4>. QED  BY <4>1 DEF IsThread, Fields
    <3>. QED  BY <3>1, <3>2
  <2>. HIDE DEF u
  <2>9. Talking(u) /\ u.cmd # "alias"
    BY <1>6, <2>2 DEF Talking, Lookups, Resolving, Grouping
  <2>. QED  BY <2>9 DEF u
<1>7. CASE t.ret \in {"drop", "dropall"} /\ t.found # None
  <2>1. u = [t EXCEPT !.at = t.ret, !.a = t.found]
    BY <1>7 DEF Continue
  <2>2. u.at \in {"drop", "dropall"} /\ u.cmd = t.cmd /\ u.users = t.users /\ u.todo = t.todo
    BY <1>7, <2>1 DEF IsThread, Fields
  <2>. HIDE DEF u
  <2>9. Talking(u) /\ u.cmd # "alias"
    BY <2>2 DEF Talking, Lookups, Resolving, Grouping
  <2>. QED  BY <2>9 DEF u
<1>8. CASE /\ t.ret \in {"member", "dropper", "drop", "dropall", "group"} /\ t.found = None
           /\ ~(t.ret = "group" /\ t.cmd = "group")
  <2>1. u = Idle
    BY <1>8 DEF Continue
  <2>. QED  BY <2>1, IdleIsSound
<1>. QED  BY <1>1, <1>2, <1>3, <1>4, <1>5, <1>6, <1>7, <1>8

\* The alias command.
LEMMA ContinueAliases ==
  ASSUME NEW t, IsThread(t), t.cmd = "alias", t.b \in Names, t.ret \in {"source", "unused"},
         t.ret = "source" => t.found \in Origins \cup {None},
         t.ret = "unused" => /\ t.a \in Origins /\ t.a # t.b
                             /\ t.canon = t.b \/ (t.canon = None /\ NoRow(t.b) /\ NoMember(t.b))
  PROVE  Commanding(Continue(t))
<1>. DEFINE u == Continue(t)
<1>1. CASE t.ret = "source" /\ t.found = None
  <2>1. u = [t EXCEPT !.at = "aliasgroup"]
    BY <1>1 DEF Continue
  <2>2. u.at = "aliasgroup" /\ u.cmd = t.cmd /\ u.b = t.b
    BY <2>1 DEF IsThread, Fields
  <2>. HIDE DEF u
  <2>. QED  BY <2>2 DEF Commanding, Aliasing, Lookups, Resolving, Grouping, Taking, Renaming, u
<1>2. CASE t.ret = "source" /\ t.found # None
  <2>1. u = [t EXCEPT !.a = t.found, !.at = "targetuser"]
    BY <1>2 DEF Continue
  <2>2. u.at = "targetuser" /\ u.cmd = t.cmd /\ u.b = t.b /\ u.a = t.found
    BY <2>1 DEF IsThread, Fields
  <2>. HIDE DEF u
  <2>3. Aliasing(u)
    BY <1>2, <2>2 DEF Aliasing, Lookups, Resolving, Grouping, Taking, Renaming
  <2>. QED  BY <2>2, <2>3 DEF Commanding, u
<1>3. CASE t.ret = "unused" /\ t.found = None
  <2>1. u = [t EXCEPT !.at = "inuse"]
    BY <1>3 DEF Continue
  <2>2. u.at = "inuse" /\ u.ret = t.ret /\ u.cmd = t.cmd /\ u.b = t.b /\ u.a = t.a /\ u.canon = t.canon
    BY <2>1 DEF IsThread, Fields
  <2>. HIDE DEF u
  <2>3. Aliasing(u)
    BY <1>3, <2>2 DEF Aliasing, Lookups, Resolving, Grouping, Taking, Renaming
  <2>. QED  BY <2>2, <2>3 DEF Commanding, u
<1>4. CASE t.ret = "unused" /\ t.found # None
  <2>1. u = Idle
    BY <1>4 DEF Continue
  <2>. QED  BY <2>1, IdleIsSound DEF Commanding
<1>. QED  BY <1>1, <1>2, <1>3, <1>4

\* Threads in general.
LEMMA IdleStaysSound == Talking(Idle)' /\ Commanding(Idle)'
<1>1. Talking(Idle)'
  BY DEF Talking, Idle, Lookups, Resolving, Grouping
<1>. QED  BY <1>1, IdleIsSound DEF Commanding

\* who is at a query of light threads, of commands, of alias
LEMMA Places ==
  ASSUME Sound, NEW i \in Threads
  PROVE  /\ thread[i].at \in {"resolvenick", "touch", "claim", "send"} => ~Command(i)
         /\ thread[i].at \in Resolving \cup Grouping => Command(i)
         /\ thread[i].at \in {"insert", "members", "groupfree", "newgroup", "groupadd", "drop", "dropall",
                              "unalias", "ungroupalias"} => Command(i) /\ thread[i].cmd # "alias"
         /\ thread[i].at \in Renaming \cup {"targetuser", "inuse", "aliasgroup", "groupexists", "groupunused",
                              "groupnew", "groupbind"} => Command(i) /\ thread[i].cmd = "alias"
         /\ Command(i) /\ At(i, "idle") => thread[i] = Idle
BY DEF Sound, SoundThread, Commanding, Light, Talking, Aliasing, Resolving, Grouping, Taking, Renaming, At

\* What a step of thread i leaves to the threads that go by other names.
Taken(t, n) == Takes(t) /\ n = t.b
Leaves(i) ==
  /\ \A u \in Origins : u \in Origins' \/ Taken(thread[i], u)
  /\ \A n \in Names : alias[n] \in {None, n} => alias'[n] \in {None, n} \/ Taken(thread[i], n)
  /\ \A n \in Names : alias[n] = None => alias'[n] = None \/ GoesBy(thread[i], n)
  /\ \A n \in Names : NoRow(n) => NoRow(n)' \/ GoesBy(thread[i], n)
  /\ \A n \in Names : NoMember(n) => NoMember(n)' \/ GoesBy(thread[i], n)
  /\ \A j \in Threads \ {i} :
       LET a == thread[j].a
       IN At(j, "bind") /\ a \in Names /\ alias[a] = a => alias'[a] = a \/ Taken(thread[i], a)

LEMMA UsersIn == ASSUME NEW s, NEW S, NEW T, s \in Seq(S), ToSet(s) \subseteq T PROVE s \in Seq(T)
<1>1. s \in [1..Len(s) -> S] /\ Len(s) \in Nat
  OBVIOUS
<1>2. \A k \in 1..Len(s) : s[k] \in T
  BY <1>1 DEF ToSet
<1>3. s \in [1..Len(s) -> T]
  BY <1>1, <1>2
<1>. QED  BY <1>1, <1>3, IsASeq

LEMMA UsersOf == ASSUME NEW s, NEW S, s \in Seq(S) PROVE ToSet(s) \subseteq S
BY DEF ToSet

LEMMA OriginsAreNames == Origins \subseteq Names /\ None \notin Origins
BY TellAssumption, UsersAssumption DEF Origins

\* The others stay sound: what they go by is not taken, what they take nobody else goes by.
LEMMA OthersStay ==
  ASSUME Sound, NEW i \in Threads, Leaves(i), NEW j \in Threads \ {i}, thread'[j] = thread[j]
  PROVE  SoundThread(j)'
<1>1. PICK t : t = thread[j]
  OBVIOUS
<1>2. /\ \A n : Taken(thread[i], n) => ~GoesBy(t, n)
      /\ Takes(t) => ~GoesBy(thread[i], t.b)
  BY <1>1 DEF Sound, Clash, Taken
<1>3. SoundThread(j)
  BY DEF Sound
<1>4. CASE ~Command(j)
  BY <1>3, <1>4 DEF SoundThread, Light, Command
<1>5. Lookups(t) => Lookups(t)'
  <2>. SUFFICES ASSUME Lookups(t) PROVE Lookups(t)'
    OBVIOUS
  <2>1. t.at = "known" => t.canon \in Origins'
    BY <1>2 DEF Lookups, Leaves, GoesBy
  <2>2. t.at = "raw" => alias'[t.name] \in {None, t.name}
    <3>. SUFFICES ASSUME t.at = "raw" PROVE alias'[t.name] \in {None, t.name}
      OBVIOUS
    <3>1. t.name \in Names /\ alias[t.name] \in {None, t.name} /\ GoesBy(t, t.name)
      BY DEF Lookups, Resolving, GoesBy
    <3>. QED  BY <1>2, <3>1 DEF Leaves
  <2>. QED  BY <2>1, <2>2 DEF Lookups
<1>6. CASE Command(j) /\ t.cmd # "alias"
  <2>1. Talking(t)
    BY <1>1, <1>3, <1>6 DEF SoundThread, Commanding
  <2>2. t.users \in Seq(Origins')
    <3>1. t.users \in Seq(Origins)
      BY <2>1 DEF Talking
    <3>2. ToSet(t.users) \subseteq Origins
      BY <3>1, UsersOf
    <3>3. \A u \in ToSet(t.users) : u \in Origins'
      BY <1>2, <3>2 DEF Leaves, GoesBy
    <3>. QED  BY <3>1, <3>3, UsersIn
  <2>3. t.at \in {"newgroup", "groupadd"} \cup Grouping /\ t.ret = "group" => t.b \in Origins'
    BY <1>2, <2>1 DEF Talking, Leaves, GoesBy
  <2>4. Talking(t)'
    BY <1>5, <2>1, <2>2, <2>3 DEF Talking
  <2>. QED  BY <1>1, <1>6, <2>4 DEF SoundThread, Commanding, Command
<1>7. CASE Command(j) /\ t.cmd = "alias"
  <2>1. Aliasing(t) /\ t.b \in Names
    BY <1>1, <1>3, <1>7 DEF SoundThread, Commanding, Aliasing
  <2>2. t.at \in Taking \cup {"targetuser"} => t.a \in Origins' /\ GoesBy(t, t.a) /\ t.a \in Names
    BY <1>2, <2>1, OriginsAreNames DEF Aliasing, Leaves, GoesBy
  <2>3. t.at \in Grouping \cup {"inuse"} /\ t.canon # t.b => NoRow(t.b)' /\ NoMember(t.b)' /\ t.canon = None
    <3>. SUFFICES ASSUME t.at \in Grouping \cup {"inuse"}, t.canon # t.b
                  PROVE  NoRow(t.b)' /\ NoMember(t.b)' /\ t.canon = None
      OBVIOUS
    <3>1. t.canon = None /\ NoRow(t.b) /\ NoMember(t.b) /\ t.ret = "unused"
      BY <2>1 DEF Aliasing, Taking
    <3>2. ~GoesBy(thread[i], t.b)
      BY <1>2, <3>1 DEF Takes
    <3>. QED  BY <2>1, <3>1, <3>2 DEF Leaves
  <2>4. t.at \in Renaming => ~GoesBy(thread[i], t.b)
    BY <1>2, <2>1 DEF Aliasing, Taking, Takes, Renaming
  <2>5. t.at \in Renaming => alias'[t.b] = None
    BY <2>1, <2>4 DEF Aliasing, Leaves
  <2>6. t.at \in {"regroup", "origin", "bind"} => NoRow(t.b)'
    BY <2>1, <2>4 DEF Aliasing, Leaves, Renaming
  <2>7. t.at \in {"origin", "bind"} => NoMember(t.b)'
    BY <2>1, <2>4 DEF Aliasing, Leaves, Renaming
  <2>8. t.at = "bind" => alias'[t.a] = t.a
    <3>. SUFFICES ASSUME t.at = "bind" PROVE alias'[t.a] = t.a
      OBVIOUS
    <3>1. GoesBy(t, t.a) /\ t.a \in Names /\ alias[t.a] = t.a
      BY <2>1, <2>2 DEF Aliasing, Taking, Renaming
    <3>. QED  BY <1>1, <1>2, <3>1 DEF Leaves, At
  <2>9. Aliasing(t)'
    BY <1>5, <2>1, <2>2, <2>3, <2>5, <2>6, <2>7, <2>8 DEF Aliasing
  <2>. QED  BY <1>1, <1>7, <2>9 DEF SoundThread, Commanding, Command
<1>. QED  BY <1>1, <1>4, <1>6, <1>7

\* A thread goes on, and the others are as sound as before.
LEMMA StepKeeps ==
  ASSUME Shape, Sound, ~Clash', NEW i \in Threads, NEW t, Goes(i, t), SoundTables', Leaves(i),
         SoundThread(i)'
  PROVE  Sound'
<1>1. \A j \in Threads \ {i} : thread'[j] = thread[j]
  BY DEF Shape, Goes
<1>2. \A j \in Threads \ {i} : SoundThread(j)'
  BY <1>1, OthersStay
<1>. QED  BY <1>2 DEF Sound

LEMMA TalkingStays ==
  ASSUME NEW t, Talking(t), Origins \subseteq Origins',
         \A n \in Names : alias[n] \in {None, n} => alias'[n] \in {None, n}
  PROVE  Talking(t)'
<1>1. Lookups(t)'
  BY DEF Talking, Lookups, Resolving
<1>2. t.users \in Seq(Origins')
  <2>1. t.users \in Seq(Origins)
    BY DEF Talking
  <2>. HIDE DEF Talking
  <2>2. \A S, T : S \subseteq T /\ t.users \in Seq(S) => t.users \in Seq(T)
    OBVIOUS
  <2>. QED  BY <2>1, <2>2
<1>. QED  BY <1>1, <1>2 DEF Talking

SameUsers == DOMAIN tells' = DOMAIN tells /\ \A k \in DOMAIN tells : tells'[k].user = tells[k].user

LEMMA AliasingStays ==
  ASSUME NEW t, Aliasing(t), Origins \subseteq Origins', UNCHANGED <<alias, grp>>, SameUsers
  PROVE  Aliasing(t)'
<1>1. Lookups(t)'
  BY DEF Aliasing, Lookups
<1>2. (NoRow(t.b) => NoRow(t.b)') /\ (NoMember(t.b) => NoMember(t.b)')
  BY DEF NoRow, NoMember, SameUsers
<1>. QED  BY <1>1, <1>2 DEF Aliasing

\* members stay origins, or are those a thread is about to regroup
LEMMA MembersStay ==
  ASSUME Shape, Sound, NEW i \in Threads, ~At(i, "regroup"), NEW t, Goes(i, t), Origins \subseteq Origins',
         \A m \in grp' : m \in grp \/ m[2] \in Origins
  PROVE  \A m \in grp' : m[2] \in Origins' \/ \E x \in Threads : At(x, "regroup")' /\ m[2] = thread'[x].b
<1>. SUFFICES ASSUME NEW m \in grp', NEW x \in Threads, At(x, "regroup"), m[2] = thread[x].b
              PROVE  At(x, "regroup")' /\ m[2] = thread'[x].b
  BY DEF Sound, SoundTables
<1>. QED  BY DEF At, Shape, Goes

\* a step that only adds users: those of user_update and deliver_tell, and queries
LEMMA TablesStay ==
  ASSUME Shape, Sound, NEW i \in Threads, ~At(i, "regroup"), NEW t, Goes(i, t),
         UNCHANGED <<alias, grp>>, user \subseteq user', user' \subseteq Nicks, SameUsers
  PROVE  SoundTables' /\ Origins \subseteq Origins' /\ Leaves(i)
<1>1. Origins \subseteq Origins'
  BY DEF Origins
<1>2. \A m \in grp' : m[2] \in Origins' \/ \E x \in Threads : At(x, "regroup")' /\ m[2] = thread'[x].b
  BY <1>1, MembersStay
<1>3. SoundTables'
  BY <1>1, <1>2 DEF Sound, SoundTables, SameUsers
<1>4. Leaves(i)
  BY <1>1 DEF Leaves, NoRow, NoMember, SameUsers
<1>. QED  BY <1>1, <1>3, <1>4

LEMMA LightKeeps ==
  ASSUME Shape, Sound, ~Clash', NEW i \in Threads, ~Command(i), NEW t, Light(t), Goes(i, t),
         UNCHANGED <<alias, grp>>, user \subseteq user', user' \subseteq Nicks, SameUsers
  PROVE  Sound'
<1>1. ~At(i, "regroup")
  BY Places DEF At, Renaming
<1>2. SoundTables' /\ Leaves(i)
  BY <1>1, TablesStay
<1>3. thread'[i] = t
  BY DEF Shape, Goes
<1>4. SoundThread(i)'
  BY <1>3 DEF SoundThread, Light, Command
<1>. QED  BY <1>2, <1>4, StepKeeps

LEMMA TalkKeeps ==
  ASSUME Shape, Sound, ~Clash', NEW i \in Threads, Command(i),
         NEW t, Talking(t), t.cmd # "alias", Goes(i, t), SoundTables', Leaves(i),
         Origins \subseteq Origins', \A n \in Names : alias[n] \in {None, n} => alias'[n] \in {None, n}
  PROVE  Sound'
<1>1. thread'[i] = t
  BY DEF Shape, Goes
<1>2. SoundThread(i)'
  BY <1>1, TalkingStays DEF SoundThread, Commanding, Command
<1>. QED  BY <1>2, StepKeeps

LEMMA AliasKeeps ==
  ASSUME Shape, Sound, ~Clash', NEW i \in Threads, Command(i), NEW t, Goes(i, t), SoundTables', Leaves(i),
         Commanding(thread[i])'
  PROVE  Sound'
<1>1. SoundThread(i)'
  BY DEF SoundThread, Command
<1>. QED  BY <1>1, StepKeeps

\* a command's query of the tables
LEMMA ReadKeeps ==
  ASSUME Shape, Sound, ~Clash', NEW i \in Threads, Command(i), ~At(i, "regroup"),
         NEW t, Goes(i, t), Commanding(t), UNCHANGED <<user, alias, grp, tells>>
  PROVE  Sound'
<1>1. SameUsers /\ user' \subseteq Nicks
  BY DEF SameUsers, Sound, SoundTables
<1>2. SoundTables' /\ Origins \subseteq Origins' /\ Leaves(i)
  BY <1>1, TablesStay
<1>3. Commanding(t)' /\ thread'[i] = t
  BY <1>1, <1>2, AliasingStays, TalkingStays DEF Commanding, Goes, Shape
<1>4. Commanding(thread[i])'
  BY <1>3
<1>. QED  BY <1>2, <1>4, AliasKeeps

\* In no state but a raced one does a thread go by a name that another takes.
LEMMA NobodyElse ==
  ASSUME ~Clash', NEW i \in Threads, NEW j \in Threads \ {i}, Takes(thread'[i])
  PROVE  ~GoesBy(thread'[j], thread'[i].b)
BY DEF Clash, Takes, GoesBy

LEMMA RegroupTakes ==
  ASSUME Sound, NEW x \in Threads, At(x, "regroup")
  PROVE  Takes(thread[x])
BY Places DEF Sound, SoundThread, Commanding, Aliasing, Takes, Taking, Renaming, At

\* A thread with another place, or another answer.
LEMMA Moved ==
  ASSUME NEW t, IsThread(t), NEW pc
  PROVE  LET u == [t EXCEPT !.at = pc] IN
         /\ u.at = pc /\ u.name = t.name /\ u.ret = t.ret /\ u.cmd = t.cmd /\ u.a = t.a /\ u.b = t.b
         /\ u.canon = t.canon /\ u.todo = t.todo /\ u.users = t.users
BY DEF IsThread, Fields

LEMMA Answered ==
  ASSUME NEW t, IsThread(t), NEW f
  PROVE  LET u == [t EXCEPT !.found = f] IN
         /\ IsThread(u) /\ u.found = f
         /\ u.at = t.at /\ u.name = t.name /\ u.ret = t.ret /\ u.cmd = t.cmd /\ u.a = t.a /\ u.b = t.b
         /\ u.canon = t.canon /\ u.todo = t.todo /\ u.users = t.users /\ u.nick = t.nick
BY DEF IsThread, Fields

\* user_update and deliver_tell
LEMMA ResolveNickKeeps == ASSUME Inv, Sound, ~Clash', NEW i \in Threads, ResolveNick(i) PROVE Sound'
<1>. DEFINE f == alias[thread[i].name]
            v == [thread[i] EXCEPT !.found = f]
            t == Continue(v)
<1>1. ~Command(i) /\ thread[i].at = "resolvenick"
  BY Places DEF ResolveNick, At
<1>2. Light(thread[i]) /\ thread[i].name \in Nicks
  BY <1>1 DEF Sound, SoundThread, Light
<1>3. f \in Nicks \cup {None}
  BY <1>2, TellAssumption DEF Sound, SoundTables, Origins
<1>4. IsThread(thread[i]) /\ IsThread(v) /\ v.found = f /\ v.ret = thread[i].ret /\ v.nick = thread[i].nick
  BY Answered DEF Inv, Shape
<1>5. t = [v EXCEPT !.at = v.ret]
  BY <1>1, <1>2, <1>4 DEF Light, Continue
<1>6. t.at = v.ret /\ t.found = f /\ t.nick = v.nick
  <2>. HIDE DEF v, t
  <2>. QED  BY <1>4, <1>5 DEF IsThread, Fields
<1>7. Light(t)
  <2>. HIDE DEF v, t, f
  <2>. QED  BY <1>1, <1>2, <1>3, <1>4, <1>6 DEF Light
<1>8. Goes(i, t) /\ UNCHANGED <<user, alias, grp, tells>>
  BY DEF ResolveNick, Returns, Reads, dbVars
<1>. HIDE DEF t
<1>. QED  BY <1>1, <1>7, <1>8, LightKeeps DEF Inv, Sound, SoundTables, SameUsers

LEMMA TouchKeeps == ASSUME Inv, Sound, ~Clash', NEW i \in Threads, Touch(i) PROVE Sound'
<1>1. ~Command(i) /\ thread[i].at = "touch"
  BY Places DEF Touch, At
<1>2. thread[i].nick \in Nicks /\ thread[i].found \in Nicks \cup {None}
  BY <1>1 DEF Sound, SoundThread, Light
<1>3. Goes(i, Idle) /\ UNCHANGED <<alias, grp, tells>> /\ user \subseteq user' /\ user' \subseteq Nicks
  BY <1>2 DEF Touch, Ends, Sound, SoundTables
<1>. QED  BY <1>1, <1>3, IdleIsSound, LightKeeps DEF Inv, SameUsers

LEMMA ClaimKeepsSound == ASSUME Inv, Sound, ~Clash', NEW i \in Threads, Claim(i) PROVE Sound'
<1>1. ~Command(i) /\ IsThread(thread[i])
  BY Places DEF Claim, At, Inv, Shape
<1>2. UNCHANGED <<user, alias, grp>>
  BY DEF Claim
<1>3. SameUsers
  <2>1. PICK S : tells' = [k \in DOMAIN tells |-> IF k \in S THEN [tells[k] EXCEPT !.told = now] ELSE tells[k]]
    BY DEF Claim
  <2>2. \A k \in DOMAIN tells : [tells[k] EXCEPT !.told = now].user = tells[k].user
    BY DEF Inv, Rows, IsRow
  <2>. QED  BY <2>1, <2>2 DEF SameUsers
<1>4. \E t : Light(t) /\ Goes(i, t)
  <2>1. CASE Ends(i)
    BY <2>1, IdleIsSound DEF Ends
  <2>2. CASE \E q : Goes(i, [thread[i] EXCEPT !.at = "send", !.todo = q])
    <3>1. \A q : Light([thread[i] EXCEPT !.at = "send", !.todo = q])
      BY <1>1 DEF Light, IsThread, Fields
    <3>. QED  BY <2>2, <3>1
  <2>. QED  BY <2>1, <2>2 DEF Claim
<1>. QED  BY <1>1, <1>2, <1>3, <1>4, LightKeeps DEF Inv, Sound, SoundTables

LEMMA SendKeepsSound == ASSUME Inv, Sound, ~Clash', NEW i \in Threads, Send(i) PROVE Sound'
<1>1. ~Command(i)
  BY Places DEF Send, At
<1>2. UNCHANGED <<user, alias, grp>> /\ Goes(i, Idle)
  BY DEF Send, Ends
<1>3. SameUsers
  <2>1. \A k \in DOMAIN tells :
          [tells[k] EXCEPT !.sent = @ + 1, !.told = IF @ = NotTold THEN now ELSE @].user = tells[k].user
    BY DEF Inv, Rows, IsRow
  <2>. QED  BY <2>1 DEF Send, SameUsers
<1>. QED  BY <1>1, <1>2, <1>3, IdleIsSound, LightKeeps DEF Inv, Sound, SoundTables

\* get_username and get_groupname
LEMMA ReturnsKeeps ==
  ASSUME Inv, Sound, ~Clash', NEW i \in Threads, Command(i), thread[i].at \in Resolving \cup Grouping,
         NEW f, thread[i].at \in Resolving => f \in Origins \cup {None},
         Returns(i, f), UNCHANGED <<user, alias, grp, tells>>
  PROVE  Sound'
<1>. DEFINE v == [thread[i] EXCEPT !.found = f]
            t == Continue(v)
<1>1. Commanding(thread[i]) /\ IsThread(thread[i])
  BY DEF Sound, SoundThread, Inv, Shape
<1>2. /\ IsThread(v) /\ v.found = f /\ v.ret = thread[i].ret /\ v.cmd = thread[i].cmd /\ v.a = thread[i].a
      /\ v.b = thread[i].b /\ v.canon = thread[i].canon /\ v.todo = thread[i].todo /\ v.users = thread[i].users
  BY <1>1, Answered
<1>3. Goes(i, t) /\ ~At(i, "regroup")
  BY DEF Returns, At, Resolving, Grouping
<1>. HIDE DEF v
<1>4. CASE thread[i].cmd # "alias"
  <2>1. Talking(thread[i])
    BY <1>1, <1>4 DEF Commanding
  <2>2. /\ v.cmd # "alias" /\ v.todo \in Seq(Names) /\ v.users \in Seq(Origins)
        /\ v.ret \in {"caller", "target", "member", "dropper", "members", "group", "drop", "dropall"}
        /\ v.ret \in {"caller", "target", "member", "dropper"} => v.found \in Origins \cup {None}
        /\ v.ret = "group" => v.b \in Origins
    BY <1>2, <1>4, <2>1 DEF Talking, Resolving, Grouping
  <2>3. Talking(t) /\ t.cmd # "alias"
    <3>. HIDE DEF Talking
    <3>. QED  BY <1>2, <2>2, ContinueTalks
  <2>. HIDE DEF t
  <2>. QED  BY <1>3, <2>3, ReadKeeps DEF Commanding, Inv
<1>5. CASE thread[i].cmd = "alias"
  <2>1. Aliasing(thread[i])
    BY <1>1, <1>5 DEF Commanding
  <2>2. /\ v.cmd = "alias" /\ v.b \in Names /\ v.ret \in {"source", "unused"}
        /\ v.ret = "source" => v.found \in Origins \cup {None}
        /\ v.ret = "unused" => /\ v.a \in Origins /\ v.a # v.b
                               /\ v.canon = v.b \/ (v.canon = None /\ NoRow(v.b) /\ NoMember(v.b))
    BY <1>2, <1>5, <2>1 DEF Aliasing, Resolving, Grouping, Taking
  <2>3. Commanding(t)
    BY <1>2, <2>2, ContinueAliases
  <2>. HIDE DEF t
  <2>. QED  BY <1>3, <1>5, <2>3, ReadKeeps DEF Inv
<1>. QED  BY <1>4, <1>5

LEMMA ResolveKeeps == ASSUME Inv, Sound, ~Clash', NEW i \in Threads, Resolve(i) PROVE Sound'
<1>. DEFINE f == alias[thread[i].name]
            pc == IF f = None THEN "raw" ELSE "known"
            t == [thread[i] EXCEPT !.canon = f, !.at = pc]
<1>1. Command(i) /\ thread[i].at = "resolve" /\ ~At(i, "regroup")
  BY Places DEF Resolve, At, Resolving
<1>2. Commanding(thread[i]) /\ IsThread(thread[i])
  BY <1>1 DEF Sound, SoundThread, Inv, Shape
<1>3. thread[i].name \in Names
  BY <1>1, <1>2 DEF Commanding, Talking, Aliasing, Lookups, Resolving
<1>4. f # None => f \in Origins
  BY <1>3 DEF Sound, SoundTables
<1>5. /\ t.at = pc /\ t.name = thread[i].name /\ t.ret = thread[i].ret /\ t.cmd = thread[i].cmd
      /\ t.a = thread[i].a /\ t.b = thread[i].b /\ t.canon = f /\ t.todo = thread[i].todo
      /\ t.users = thread[i].users
  BY <1>2 DEF IsThread, Fields
<1>6. Goes(i, t) /\ UNCHANGED <<user, alias, grp, tells>>
  BY DEF Resolve, Reads, dbVars
<1>. HIDE DEF t
<1>7. Lookups(t)
  BY <1>3, <1>4, <1>5 DEF Lookups, Resolving
<1>8. pc \in {"raw", "known"}
  OBVIOUS
<1>. HIDE DEF pc
<1>9. Commanding(t)
  <2>1. CASE thread[i].cmd = "alias"
    <3>1. Aliasing(t)
      BY <1>1, <1>2, <1>5, <1>7, <1>8, <2>1 DEF Commanding, Aliasing, Resolving, Grouping, Taking, Renaming
    <3>. QED  BY <1>5, <2>1, <3>1 DEF Commanding
  <2>2. CASE thread[i].cmd # "alias"
    <3>1. Talking(t)
      BY <1>1, <1>2, <1>5, <1>7, <1>8, <2>2 DEF Commanding, Talking, Resolving, Grouping
    <3>. QED  BY <1>5, <2>2, <3>1 DEF Commanding
  <2>. QED  BY <2>1, <2>2
<1>. QED  BY <1>1, <1>5, <1>6, <1>9, ReadKeeps DEF Inv

LEMMA KnownKeeps == ASSUME Inv, Sound, ~Clash', NEW i \in Threads, Known(i) PROVE Sound'
<1>1. Command(i) /\ thread[i].at = "known"
  BY Places DEF Known, At, Resolving
<1>2. thread[i].canon \in Origins
  BY <1>1 DEF Sound, SoundThread, Commanding, Talking, Aliasing, Lookups
<1>3. Returns(i, thread[i].canon) /\ UNCHANGED <<user, alias, grp, tells>>
  BY <1>2 DEF Known, Origins, Reads, dbVars
<1>. QED  BY <1>1, <1>2, <1>3, ReturnsKeeps DEF Resolving

LEMMA RawKeeps == ASSUME Inv, Sound, ~Clash', NEW i \in Threads, Raw(i) PROVE Sound'
<1>1. Command(i) /\ thread[i].at = "raw"
  BY Places DEF Raw, At, Resolving
<1>2. alias[thread[i].name] \in {None, thread[i].name}
  BY <1>1 DEF Sound, SoundThread, Commanding, Talking, Aliasing, Lookups
<1>3. thread[i].name \in user => thread[i].name \in Origins
  BY <1>2 DEF Origins, Sound, SoundTables
<1>4. /\ Returns(i, IF thread[i].name \in user THEN thread[i].name ELSE None)
      /\ UNCHANGED <<user, alias, grp, tells>>
  BY DEF Raw, Reads, dbVars
<1>. QED  BY <1>1, <1>3, <1>4, ReturnsKeeps DEF Resolving

LEMMA GroupnameKeeps == ASSUME Inv, Sound, ~Clash', NEW i \in Threads, Groupname(i) PROVE Sound'
<1>1. Command(i) /\ thread[i].at = "groupname"
  BY Places DEF Groupname, At, Grouping
<1>2. \E f : Returns(i, f) /\ UNCHANGED <<user, alias, grp, tells>>
  BY DEF Groupname, Reads, dbVars
<1>. QED  BY <1>1, <1>2, ReturnsKeeps DEF Resolving, Grouping

LEMMA LookupGroupKeeps == ASSUME Inv, Sound, ~Clash', NEW i \in Threads, LookupGroup(i) PROVE Sound'
<1>1. Command(i) /\ thread[i].at = "lookupgroup" /\ ~At(i, "regroup")
  BY Places DEF LookupGroup, At, Grouping
<1>2. UNCHANGED <<user, alias, grp, tells>>
  BY DEF LookupGroup, Reads, dbVars
<1>3. CASE \E f : Returns(i, f)
  BY <1>1, <1>2, <1>3, ReturnsKeeps DEF Resolving, Grouping
<1>4. CASE Moves(i, "groupname")
  <2>. DEFINE t == [thread[i] EXCEPT !.at = "groupname"]
  <2>1. Commanding(thread[i]) /\ IsThread(thread[i])
    BY <1>1 DEF Sound, SoundThread, Inv, Shape
  <2>2. /\ t.at = "groupname" /\ t.ret = thread[i].ret /\ t.cmd = thread[i].cmd
        /\ t.a = thread[i].a /\ t.b = thread[i].b /\ t.canon = thread[i].canon /\ t.todo = thread[i].todo
        /\ t.users = thread[i].users
    BY <2>1, Moved
  <2>3. Goes(i, t)
    BY <1>4 DEF Moves
  <2>. HIDE DEF t
  <2>4. Commanding(t)
    <3>1. CASE thread[i].cmd = "alias"
      <4>1. Aliasing(t)
        BY <1>1, <2>1, <2>2, <3>1 DEF Commanding, Aliasing, Lookups, Resolving, Grouping, Taking, Renaming
      <4>. QED  BY <2>2, <3>1, <4>1 DEF Commanding
    <3>2. CASE thread[i].cmd # "alias"
      <4>1. Talking(t)
        BY <1>1, <2>1, <2>2, <3>2 DEF Commanding, Talking, Lookups, Resolving, Grouping
      <4>. QED  BY <2>2, <3>2, <4>1 DEF Commanding
    <3>. QED  BY <3>1, <3>2
  <2>. QED  BY <1>1, <1>2, <2>2, <2>3, <2>4, ReadKeeps DEF Inv
<1>. QED  BY <1>3, <1>4 DEF LookupGroup

\* Commands but alias.
LEMMA TalkingTables ==
  ASSUME Inv, Sound, NEW i \in Threads, Command(i), thread[i].cmd # "alias"
  PROVE  Talking(thread[i]) /\ IsThread(thread[i]) /\ ~At(i, "regroup")
<1>1. Talking(thread[i]) /\ IsThread(thread[i])
  BY DEF Sound, SoundThread, Commanding, Inv, Shape
<1>. QED  BY <1>1 DEF Talking, At, Resolving, Grouping

\* what is new in the groups are origins that the thread goes by
LEMMA GroupsKeep ==
  ASSUME Inv, Sound, ~Clash', NEW i \in Threads, Command(i), thread[i].cmd # "alias",
         NEW t, Talking(t), t.cmd # "alias", Goes(i, t), UNCHANGED <<user, alias, tells>>,
         IsFiniteSet(grp'), \A m \in grp' : m \in grp \/ (m[2] \in Origins /\ GoesBy(thread[i], m[2]))
  PROVE  Sound'
<1>1. ~At(i, "regroup")
  BY TalkingTables
<1>2. Origins' = Origins
  BY DEF Origins
<1>3. \A m \in grp' : m[2] \in Origins' \/ \E x \in Threads : At(x, "regroup")' /\ m[2] = thread'[x].b
  BY <1>1, <1>2, MembersStay DEF Inv
<1>4. SoundTables'
  BY <1>2, <1>3 DEF Sound, SoundTables
<1>5. Leaves(i)
  BY <1>2 DEF Leaves, NoRow, NoMember
<1>. QED  BY <1>2, <1>4, <1>5, TalkKeeps DEF Inv

LEMMA MembersKeeps == ASSUME Inv, Sound, ~Clash', NEW i \in Threads, Members(i) PROVE Sound'
<1>. DEFINE S == {m[2] : m \in {x \in grp : x[1] = thread[i].name}}
            t == Collect(thread[i], S)
<1>1. Command(i) /\ thread[i].cmd # "alias"
  BY Places DEF Members, At
<1>2. Talking(thread[i]) /\ IsThread(thread[i]) /\ ~At(i, "regroup")
  BY <1>1, TalkingTables
<1>3. IsFiniteSet(S)
  <2>. DEFINE R == {x \in grp : x[1] = thread[i].name}
  <2>1. IsFiniteSet(R)
    BY FS_Subset DEF Sound, SoundTables
  <2>2. [m \in R |-> m[2]] \in Surjection(R, S)
    BY DEF Surjection
  <2>. HIDE DEF R
  <2>. QED  BY <2>1, <2>2, FS_Surjection
<1>4. thread[i].todo \in Seq(Names) /\ thread[i].users \in Seq(Origins)
  BY <1>2 DEF Talking
<1>5. Goes(i, t) /\ UNCHANGED <<user, alias, grp, tells>>
  BY DEF Members, Reads, dbVars
<1>6. New(thread[i], S) \subseteq Origins
  <2>. SUFFICES ASSUME NEW u \in New(thread[i], S), u \notin Origins PROVE FALSE
    OBVIOUS
  <2>1. PICK x \in Threads : At(x, "regroup") /\ u = thread[x].b
    <3>1. u \in S
      BY DEF New
    <3>. QED  BY <3>1 DEF Sound, SoundTables
  <2>. HIDE DEF S
  <2>2. x # i
    BY <1>2, <2>1
  <2>3. u \in ToSet(t.users)
    BY <1>2, <1>3, <1>4, CollectHas
  <2>. HIDE DEF t
  <2>4. thread'[i] = t /\ thread'[x] = thread[x]
    BY <1>5, <2>2 DEF Goes, Inv, Shape
  <2>5. Takes(thread'[x]) /\ thread'[x].b = u
    BY <2>1, <2>4, RegroupTakes
  <2>6. GoesBy(thread'[i], u)
    BY <2>3, <2>4 DEF GoesBy
  <2>. QED  BY <2>2, <2>5, <2>6, NobodyElse
<1>. HIDE DEF S
<1>7. Talking(t) /\ t.cmd # "alias"
  <2>. HIDE DEF Talking
  <2>. QED  BY <1>1, <1>2, <1>3, <1>4, <1>6, CollectTalks
<1>. HIDE DEF t
<1>. QED  BY <1>1, <1>2, <1>5, <1>7, ReadKeeps DEF Commanding, Inv

LEMMA GroupFreeKeeps == ASSUME Inv, Sound, ~Clash', NEW i \in Threads, GroupFree(i) PROVE Sound'
<1>1. Command(i) /\ thread[i].cmd # "alias" /\ thread[i].at = "groupfree"
  BY Places DEF GroupFree, At
<1>2. Talking(thread[i]) /\ IsThread(thread[i]) /\ ~At(i, "regroup")
  BY <1>1, TalkingTables
<1>3. UNCHANGED <<user, alias, grp, tells>>
  BY DEF GroupFree, Reads, dbVars
<1>4. CASE Ends(i)
  BY <1>1, <1>2, <1>3, <1>4, IdleIsSound, ReadKeeps DEF Ends, Commanding, Inv
<1>5. CASE Goes(i, GetUsername(thread[i], thread[i].b, "member"))
  <2>. DEFINE t == GetUsername(thread[i], thread[i].b, "member")
  <2>1. /\ t.at = "resolve" /\ t.name = thread[i].b /\ t.ret = "member" /\ t.cmd = thread[i].cmd
        /\ t.todo = thread[i].todo /\ t.users = thread[i].users
    BY <1>2, AskedUser
  <2>. HIDE DEF t
  <2>2. Talking(t)
    BY <1>1, <1>2, <2>1 DEF Talking, Lookups, Resolving, Grouping
  <2>. QED  BY <1>1, <1>2, <1>3, <1>5, <2>1, <2>2, ReadKeeps DEF t, Commanding, Inv
<1>. QED  BY <1>4, <1>5 DEF GroupFree

LEMMA NewGroupKeeps == ASSUME Inv, Sound, ~Clash', NEW i \in Threads, NewGroup(i) PROVE Sound'
<1>. DEFINE t == [thread[i] EXCEPT !.at = "groupadd"]
<1>1. Command(i) /\ thread[i].cmd # "alias" /\ thread[i].at = "newgroup"
  BY Places DEF NewGroup, At
<1>2. Talking(thread[i]) /\ IsThread(thread[i]) /\ ~At(i, "regroup")
  BY <1>1, TalkingTables
<1>3. /\ t.at = "groupadd" /\ t.ret = thread[i].ret /\ t.cmd = thread[i].cmd /\ t.b = thread[i].b
      /\ t.todo = thread[i].todo /\ t.users = thread[i].users
  BY <1>2, Moved
<1>4. Goes(i, t) /\ UNCHANGED <<user, alias, grp, tells>>
  BY DEF NewGroup, Moves
<1>. HIDE DEF t
<1>5. Talking(t)
  BY <1>1, <1>2, <1>3 DEF Talking, Lookups, Resolving, Grouping
<1>. QED  BY <1>1, <1>2, <1>3, <1>4, <1>5, ReadKeeps DEF Commanding, Inv

LEMMA GroupAddKeeps == ASSUME Inv, Sound, ~Clash', NEW i \in Threads, GroupAdd(i) PROVE Sound'
<1>1. Command(i) /\ thread[i].cmd # "alias" /\ thread[i].at = "groupadd"
  BY Places DEF GroupAdd, At
<1>2. thread[i].b \in Origins /\ GoesBy(thread[i], thread[i].b)
  BY <1>1, TalkingTables DEF Talking, GoesBy
<1>3. Goes(i, Idle) /\ grp' = grp \cup {<<thread[i].a, thread[i].b>>} /\ UNCHANGED <<user, alias, tells>>
  BY DEF GroupAdd, Ends
<1>4. IsFiniteSet(grp')
  BY <1>3, FS_AddElement DEF Sound, SoundTables
<1>5. \A m \in grp' : m \in grp \/ (m[2] \in Origins /\ GoesBy(thread[i], m[2]))
  BY <1>2, <1>3
<1>. QED  BY <1>1, <1>3, <1>4, <1>5, IdleIsSound, GroupsKeep

LEMMA DropsKeep == ASSUME Inv, Sound, ~Clash', NEW i \in Threads, Drop(i) \/ DropAll(i) PROVE Sound'
<1>1. Command(i) /\ thread[i].cmd # "alias"
  BY Places DEF Drop, DropAll, At
<1>2. Goes(i, Idle) /\ grp' \subseteq grp /\ UNCHANGED <<user, alias, tells>>
  BY DEF Drop, DropAll, Ends
<1>3. IsFiniteSet(grp')
  BY <1>2, FS_Subset DEF Sound, SoundTables
<1>. QED  BY <1>1, <1>2, <1>3, IdleIsSound, GroupsKeep

\* del_alias, of a name that stands for nobody else, nor is about to
LEMMA UnaliasKeeps ==
  ASSUME Inv, Sound, ~Clash', NEW i \in Threads, Unalias(i),
         \A n \in Names \ {thread[i].b} : alias[n] # thread[i].b,
         \A j \in Threads : At(j, "bind") => thread[j].a # thread[i].b
  PROVE  Sound'
<1>. DEFINE t == [thread[i] EXCEPT !.at = "ungroupalias"]
            b == thread[i].b
<1>1. Command(i) /\ thread[i].cmd # "alias" /\ thread[i].at = "unalias"
  BY Places DEF Unalias, At
<1>2. Talking(thread[i]) /\ IsThread(thread[i]) /\ ~At(i, "regroup")
  BY <1>1, TalkingTables
<1>3. /\ t.at = "ungroupalias" /\ t.cmd = thread[i].cmd /\ t.todo = thread[i].todo /\ t.users = thread[i].users
  BY <1>2, Moved
<1>4. Goes(i, t) /\ alias' = [alias EXCEPT ![b] = None] /\ UNCHANGED <<user, grp, tells>>
  BY DEF Unalias, Moves
<1>. HIDE DEF t
<1>5. Talking(t)
  BY <1>1, <1>2, <1>3 DEF Talking, Lookups, Resolving, Grouping
<1>6. alias' \in [Names -> Names \cup {None}] /\ \A n \in Names : alias'[n] = IF n = b THEN None ELSE alias[n]
  BY <1>4 DEF Sound, SoundTables
<1>7. Origins \subseteq Origins'
  BY <1>4, <1>6, TellAssumption DEF Origins
<1>8. \A n \in Names : alias'[n] # None => alias'[n] \in Origins' /\ alias'[alias'[n]] = alias'[n]
  <2>. SUFFICES ASSUME NEW n \in Names, alias'[n] # None
                PROVE  alias'[n] \in Origins' /\ alias'[alias'[n]] = alias'[n]
    OBVIOUS
  <2>1. n # b /\ alias'[n] = alias[n]
    BY <1>6
  <2>2. alias[n] \in Origins /\ alias[alias[n]] = alias[n] /\ alias[n] # b
    BY <2>1 DEF Sound, SoundTables
  <2>. QED  BY <1>6, <1>7, <2>1, <2>2, OriginsAreNames
<1>9. SoundTables'
  <2>1. \A k \in DOMAIN tells' : tells'[k].user \in Origins'
    BY <1>4, <1>7 DEF Sound, SoundTables
  <2>2. \A m \in grp' : m[2] \in Origins' \/ \E x \in Threads : At(x, "regroup")' /\ m[2] = thread'[x].b
    BY <1>2, <1>4, <1>7, MembersStay DEF Inv
  <2>. QED  BY <1>4, <1>6, <1>8, <2>1, <2>2 DEF Sound, SoundTables
<1>10. Leaves(i)
  BY <1>4, <1>6, <1>7 DEF Leaves, NoRow, NoMember
<1>. QED  BY <1>1, <1>3, <1>4, <1>5, <1>6, <1>7, <1>9, <1>10, TalkKeeps DEF Inv

LEMMA UngroupAliasKeeps == ASSUME Inv, Sound, ~Clash', NEW i \in Threads, UngroupAlias(i) PROVE Sound'
<1>1. Command(i) /\ thread[i].cmd # "alias"
  BY Places DEF UngroupAlias, At
<1>2. ~At(i, "regroup")
  BY <1>1, TalkingTables
<1>3. Goes(i, Idle) /\ UNCHANGED <<user, alias, grp, tells>>
  BY DEF UngroupAlias, Ends
<1>. QED  BY <1>1, <1>2, <1>3, IdleIsSound, ReadKeeps DEF Commanding, Inv

LEMMA InsertKeepsSound == ASSUME Inv, Sound, ~Clash', NEW i \in Threads, Insert(i) PROVE Sound'
<1>1. Command(i) /\ thread[i].cmd # "alias" /\ thread[i].at = "insert"
  BY Places DEF Insert, At
<1>2. Talking(thread[i]) /\ IsThread(thread[i]) /\ ~At(i, "regroup")
  BY <1>1, TalkingTables
<1>3. /\ thread[i].users \in Seq(Origins) /\ thread[i].users # <<>> /\ thread[i].todo \in Seq(Names)
  BY <1>1, <1>2 DEF Talking
<1>4. UNCHANGED <<user, alias, grp>> /\ Origins' = Origins
  BY DEF Insert, Origins
<1>5. \E t : Goes(i, t) /\ Talking(t) /\ t.cmd # "alias"
  <2>1. CASE Len(thread[i].users) = 1
    BY <2>1, IdleIsSound DEF Insert, Ends
  <2>2. CASE Len(thread[i].users) # 1
    <3>. DEFINE q == Tail(thread[i].users)
                t == [thread[i] EXCEPT !.users = q]
    <3>1. q \in Seq(Origins) /\ q # <<>>
      <4>1. Len(thread[i].users) \in Nat \ {0, 1}
        BY <1>3, <2>2
      <4>2. q \in Seq(Origins) /\ Len(q) = Len(thread[i].users) - 1
        BY <1>3
      <4>3. Len(q) # 0
        <5>. HIDE DEF q
        <5>. QED  BY <4>1, <4>2
      <4>4. Len(<<>>) = 0
        OBVIOUS
      <4>. HIDE DEF q
      <4>. QED  BY <4>2, <4>3, <4>4
    <3>2. Goes(i, t)
      BY <2>2 DEF Insert
    <3>. HIDE DEF q
    <3>3. t.at = "insert" /\ t.cmd = thread[i].cmd /\ t.users = q /\ t.todo = thread[i].todo
      BY <1>1, <1>2 DEF IsThread, Fields
    <3>. HIDE DEF t
    <3>4. Talking(t)
      BY <1>3, <3>1, <3>3 DEF Talking, Lookups, Resolving, Grouping
    <3>. QED  BY <1>1, <3>2, <3>3, <3>4
  <2>. QED  BY <2>1, <2>2
<1>6. PICK n \in Nat : tells = [k \in 1..n |-> tells[k]]
  BY DEF Inv, Rows
<1>7. PICK r : tells' = Append(tells, r) /\ r.user \in Origins /\ GoesBy(thread[i], r.user)
  <2>1. Head(thread[i].users) \in Origins /\ GoesBy(thread[i], Head(thread[i].users))
    BY <1>3 DEF GoesBy, ToSet
  <2>2. PICK d : tells' = Append(tells, [user |-> Head(thread[i].users), due |-> d, told |-> NotTold, sent |-> 0])
    BY DEF Insert
  <2>. QED  BY <2>1, <2>2
<1>8. /\ DOMAIN tells' = 1..(n + 1) /\ DOMAIN tells = 1..n
      /\ tells'[n + 1] = r /\ \A k \in 1..n : tells'[k] = tells[k]
  BY <1>6, <1>7, RowAdded
<1>9. \A k \in DOMAIN tells' : tells'[k] = r \/ (k \in DOMAIN tells /\ tells'[k] = tells[k])
  BY <1>8
<1>10. SoundTables'
  <2>1. \A m \in grp' : m[2] \in Origins' \/ \E x \in Threads : At(x, "regroup")' /\ m[2] = thread'[x].b
    BY <1>2, <1>4, <1>5, MembersStay DEF Inv
  <2>2. \A k \in DOMAIN tells' : tells'[k].user \in Origins
    BY <1>7, <1>9 DEF Sound, SoundTables
  <2>. QED  BY <1>4, <2>1, <2>2 DEF Sound, SoundTables
<1>11. Leaves(i)
  <2>1. \A x : NoRow(x) => NoRow(x)' \/ GoesBy(thread[i], x)
    BY <1>7, <1>9 DEF NoRow
  <2>. QED  BY <1>4, <2>1 DEF Leaves, NoMember
<1>. QED  BY <1>1, <1>4, <1>5, <1>10, <1>11, TalkKeeps DEF Inv

\* The alias command.
LEMMA AliasTables ==
  ASSUME Inv, Sound, NEW i \in Threads, Command(i), thread[i].cmd = "alias"
  PROVE  /\ Aliasing(thread[i]) /\ IsThread(thread[i])
         /\ Origins \subseteq Names \cap user /\ None \notin Origins
<1>1. Aliasing(thread[i]) /\ IsThread(thread[i])
  BY DEF Sound, SoundThread, Commanding, Inv, Shape
<1>. QED  BY <1>1, OriginsAreNames DEF Origins

\* its places that say no more than that b is a name
LEMMA GroupingKeeps ==
  ASSUME Inv, Sound, ~Clash', NEW i \in Threads, Command(i), thread[i].cmd = "alias", ~At(i, "regroup"),
         NEW t, Goes(i, t), t.cmd = "alias", t.b = thread[i].b,
         t.at \in {"aliasgroup", "groupexists", "groupunused", "groupnew", "groupbind"},
         UNCHANGED <<user, alias, grp, tells>>
  PROVE  Sound'
<1>1. Aliasing(thread[i])
  BY AliasTables
<1>2. Aliasing(t)
  BY <1>1 DEF Aliasing, Lookups, Resolving, Grouping, Taking, Renaming
<1>. QED  BY <1>1, <1>2, ReadKeeps DEF Commanding, Inv

LEMMA EndsKeeps ==
  ASSUME Inv, Sound, ~Clash', NEW i \in Threads, Command(i), ~At(i, "regroup"), Ends(i),
         UNCHANGED <<user, alias, grp, tells>>
  PROVE  Sound'
BY IdleIsSound, ReadKeeps DEF Ends, Commanding, Inv

LEMMA AliasGroupKeeps == ASSUME Inv, Sound, ~Clash', NEW i \in Threads, AliasGroup(i) PROVE Sound'
<1>1. Command(i) /\ thread[i].cmd = "alias" /\ ~At(i, "regroup")
  BY Places DEF AliasGroup, At
<1>2. IsThread(thread[i]) /\ UNCHANGED <<user, alias, grp, tells>>
  BY DEF Inv, Shape, AliasGroup, Reads, dbVars
<1>3. CASE Goes(i, [thread[i] EXCEPT !.a = grpalias[thread[i].a], !.at = "groupunused"])
  <2>. DEFINE t == [thread[i] EXCEPT !.a = grpalias[thread[i].a], !.at = "groupunused"]
  <2>1. t.at = "groupunused" /\ t.cmd = "alias" /\ t.b = thread[i].b
    BY <1>1, <1>2 DEF IsThread, Fields
  <2>2. Goes(i, t)
    BY <1>3
  <2>. HIDE DEF t
  <2>. QED  BY <1>1, <1>2, <2>1, <2>2, GroupingKeeps
<1>4. CASE Moves(i, "groupexists")
  <2>. DEFINE t == [thread[i] EXCEPT !.at = "groupexists"]
  <2>1. t.at = "groupexists" /\ t.cmd = "alias" /\ t.b = thread[i].b
    BY <1>1, <1>2, Moved
  <2>2. Goes(i, t)
    BY <1>4 DEF Moves
  <2>. HIDE DEF t
  <2>. QED  BY <1>1, <1>2, <2>1, <2>2, GroupingKeeps
<1>. QED  BY <1>3, <1>4 DEF AliasGroup

LEMMA GroupQueriesKeep ==
  ASSUME Inv, Sound, ~Clash', NEW i \in Threads, GroupExists(i) \/ GroupUnused(i) \/ GroupNew(i)
  PROVE  Sound'
<1>1. Command(i) /\ thread[i].cmd = "alias" /\ ~At(i, "regroup")
  BY Places DEF GroupExists, GroupUnused, GroupNew, At
<1>2. IsThread(thread[i]) /\ UNCHANGED <<user, alias, grp, tells>>
  BY DEF Inv, Shape, GroupExists, GroupUnused, GroupNew, Reads, dbVars
<1>3. CASE Ends(i)
  BY <1>1, <1>2, <1>3, EndsKeeps
<1>4. ASSUME NEW pc \in {"groupunused", "groupnew", "groupbind"}, Moves(i, pc) PROVE Sound'
  <2>. DEFINE t == [thread[i] EXCEPT !.at = pc]
  <2>1. t.at = pc /\ t.cmd = "alias" /\ t.b = thread[i].b
    BY <1>1, <1>2, Moved
  <2>2. Goes(i, t)
    BY <1>4 DEF Moves
  <2>. HIDE DEF t
  <2>. QED  BY <1>1, <1>2, <2>1, <2>2, GroupingKeeps
<1>. QED  BY <1>3, <1>4 DEF GroupExists, GroupUnused, GroupNew

LEMMA GroupBindKeeps == ASSUME Inv, Sound, ~Clash', NEW i \in Threads, GroupBind(i) PROVE Sound'
<1>1. Command(i) /\ ~At(i, "regroup")
  BY Places DEF GroupBind, At
<1>. QED  BY <1>1, EndsKeeps DEF GroupBind

LEMMA TargetUserKeeps == ASSUME Inv, Sound, ~Clash', NEW i \in Threads, TargetUser(i) PROVE Sound'
<1>. DEFINE b == thread[i].b
            x == IF b \in user THEN b ELSE None
            v == [thread[i] EXCEPT !.canon = x]
            t == GetGroupname(v, b, "unused")
<1>1. Command(i) /\ thread[i].cmd = "alias" /\ thread[i].at = "targetuser" /\ ~At(i, "regroup")
  BY Places DEF TargetUser, At
<1>2. Aliasing(thread[i]) /\ IsThread(thread[i]) /\ Origins \subseteq user
  BY <1>1, AliasTables
<1>3. UNCHANGED <<user, alias, grp, tells>>
  BY DEF TargetUser, Reads, dbVars
<1>4. CASE Ends(i)
  BY <1>1, <1>2, <1>3, <1>4, EndsKeeps
<1>5. CASE ~(b \in user /\ thread[i].a = b) /\ Goes(i, t)
  <2>1. IsThread(v) /\ v.canon = x /\ v.a = thread[i].a /\ v.b = b /\ v.cmd = "alias"
    BY <1>1, <1>2 DEF IsThread, Fields
  <2>. HIDE DEF x, v
  <2>2. t.at = "lookupgroup" /\ t.ret = "unused" /\ t.cmd = "alias" /\ t.a = thread[i].a /\ t.b = b /\ t.canon = x
    BY <2>1, AskedGroup
  <2>. HIDE DEF t
  <2>3. b \in Names /\ thread[i].a \in Origins
    BY <1>1, <1>2 DEF Aliasing
  <2>4. thread[i].a # b
    BY <1>2, <1>5, <2>3
  <2>5. x = b \/ (x = None /\ b \notin user)
    BY DEF x
  <2>6. b \notin user => NoRow(b)
    BY <1>2 DEF NoRow, Sound, SoundTables
  <2>7. b \notin user => NoMember(b)
    <3>. SUFFICES ASSUME b \notin user, NEW m \in grp, m[2] = b PROVE FALSE
      BY DEF NoMember
    <3>1. PICK y \in Threads : At(y, "regroup") /\ b = thread[y].b
      BY <1>2 DEF Sound, SoundTables
    <3>2. thread'[i] = t /\ thread'[y] = thread[y] /\ y # i
      BY <1>1, <1>5, <3>1 DEF Goes, Inv, Shape
    <3>3. Takes(thread'[y]) /\ thread'[y].b = b
      BY <3>1, <3>2, RegroupTakes
    <3>4. x = None
      BY DEF x
    <3>5. t.ret = "unused" /\ t.canon = None /\ t.b = b
      BY <2>2, <3>4
    <3>6. GoesBy(thread'[i], b)
      BY <3>2, <3>5 DEF GoesBy, Takes
    <3>. QED  BY <3>2, <3>3, <3>6, NobodyElse
  <2>. HIDE DEF b
  <2>8. Aliasing(t)
    BY <2>2, <2>3, <2>4, <2>5, <2>6, <2>7 DEF Aliasing, Lookups, Resolving, Grouping, Taking, Renaming
  <2>. QED  BY <1>1, <1>2, <1>3, <1>5, <2>2, <2>8, ReadKeeps DEF Commanding, Inv
<1>. QED  BY <1>4, <1>5 DEF TargetUser

LEMMA InUseKeeps == ASSUME Inv, Sound, ~Clash', NEW i \in Threads, InUse(i) PROVE Sound'
<1>. DEFINE a == thread[i].a
            b == thread[i].b
            x == thread[i].canon
<1>1. Command(i) /\ thread[i].cmd = "alias" /\ thread[i].at = "inuse" /\ ~At(i, "regroup")
  BY Places DEF InUse, At
<1>2. Aliasing(thread[i]) /\ IsThread(thread[i])
  BY <1>1, AliasTables
<1>3. UNCHANGED <<user, alias, grp, tells>>
  BY DEF InUse, Reads, dbVars
<1>4. CASE Ends(i)
  BY <1>1, <1>2, <1>3, <1>4, EndsKeeps
<1>5. CASE ~Ends(i)
  <2>. DEFINE pc == IF x = None THEN "origin" ELSE "rename"
              t == [thread[i] EXCEPT !.at = pc]
  <2>1. alias[b] = None /\ Goes(i, t)
    BY <1>5 DEF InUse, Moves
  <2>2. t.at = pc /\ t.ret = "unused" /\ t.cmd = "alias" /\ t.a = a /\ t.b = b /\ t.canon = x
    BY <1>1, <1>2, Moved DEF Aliasing, Taking
  <2>. HIDE DEF t
  <2>3. /\ a \in Origins /\ a # b /\ b \in Names
        /\ x = b \/ (x = None /\ NoRow(b) /\ NoMember(b))
    BY <1>1, <1>2 DEF Aliasing, Taking
  <2>. HIDE DEF a, b, x
  <2>4. CASE x = None
    <3>1. t.at = "origin" /\ NoRow(b) /\ NoMember(b)
      BY <2>2, <2>3, <2>4, UsersAssumption
    <3>2. Aliasing(t)
      BY <2>1, <2>2, <2>3, <3>1 DEF Aliasing, Lookups, Resolving, Grouping, Taking, Renaming
    <3>. QED  BY <1>1, <1>2, <1>3, <2>1, <2>2, <3>2, ReadKeeps DEF Commanding, Inv
  <2>5. CASE x # None
    <3>1. t.at = "rename" /\ x = b
      BY <2>2, <2>3, <2>5
    <3>2. Aliasing(t)
      BY <2>1, <2>2, <2>3, <3>1 DEF Aliasing, Lookups, Resolving, Grouping, Taking, Renaming
    <3>. QED  BY <1>1, <1>2, <1>3, <2>1, <2>2, <3>2, ReadKeeps DEF Commanding, Inv
  <2>. QED  BY <2>4, <2>5
<1>. QED  BY <1>4, <1>5

\* rename_user: nothing is left of the old name but its members
LEMMA RenameKeeps == ASSUME Inv, Sound, ~Clash', NEW i \in Threads, Rename(i) PROVE Sound'
<1>. DEFINE a == thread[i].a
            b == thread[i].b
            t == [thread[i] EXCEPT !.at = "regroup"]
<1>1. Command(i) /\ thread[i].cmd = "alias" /\ thread[i].at = "rename"
  BY Places DEF Rename, At, Renaming
<1>2. Aliasing(thread[i]) /\ IsThread(thread[i]) /\ Origins \subseteq Names \cap user
  BY <1>1, AliasTables
<1>3. /\ a \in Origins /\ a # b /\ b \in Names /\ thread[i].canon = b /\ alias[b] = None
      /\ thread[i].ret = "unused"
  BY <1>1, <1>2 DEF Aliasing, Taking, Renaming
<1>4. /\ t.at = "regroup" /\ t.ret = thread[i].ret /\ t.cmd = "alias" /\ t.a = a /\ t.b = b
  BY <1>1, <1>2, Moved
<1>5. /\ Goes(i, t) /\ user' = user \ {b} /\ UNCHANGED <<alias, grp>>
      /\ tells' = [k \in DOMAIN tells |-> IF tells[k].user = b THEN [tells[k] EXCEPT !.user = a] ELSE tells[k]]
  BY <1>3 DEF Rename, Moves
<1>6. thread'[i] = t
  BY <1>5 DEF Inv, Shape, Goes
<1>. HIDE DEF t
<1>7. \A u : u \in Origins /\ u # b => u \in Origins'
  BY <1>5 DEF Origins
<1>8. \A k \in DOMAIN tells' : tells'[k].user \in Origins' /\ tells'[k].user # b
  <2>. SUFFICES ASSUME NEW k \in DOMAIN tells PROVE tells'[k].user \in Origins' /\ tells'[k].user # b
    BY <1>5
  <2>1. tells[k].user \in Origins /\ IsRow(tells[k])
    BY DEF Sound, SoundTables, Inv, Rows
  <2>2. [tells[k] EXCEPT !.user = a].user = a
    BY <2>1 DEF IsRow
  <2>. HIDE DEF a, b
  <2>. QED  BY <1>3, <1>5, <1>7, <2>1, <2>2
<1>9. \A n \in Names : alias'[n] # None => alias'[n] \in Origins' /\ alias'[alias'[n]] = alias'[n]
  BY <1>2, <1>3, <1>5, <1>7, UsersAssumption DEF Sound, SoundTables
<1>10. \A m \in grp' : m[2] \in Origins' \/ \E x \in Threads : At(x, "regroup")' /\ m[2] = thread'[x].b
  <2>. SUFFICES ASSUME NEW m \in grp
                PROVE  m[2] \in Origins' \/ \E x \in Threads : At(x, "regroup")' /\ m[2] = thread'[x].b
    BY <1>5
  <2>1. CASE m[2] \in Origins /\ m[2] # b
    BY <1>7, <2>1
  <2>2. CASE m[2] = b
    BY <1>4, <1>6, <2>2 DEF At
  <2>3. ASSUME NEW x \in Threads, At(x, "regroup"), m[2] = thread[x].b
        PROVE  At(x, "regroup")' /\ m[2] = thread'[x].b
    <3>1. thread'[x] = thread[x]
      BY <1>1, <1>5, <2>3 DEF At, Goes, Inv, Shape
    <3>. QED  BY <2>3, <3>1 DEF At
  <2>. QED  BY <2>1, <2>2, <2>3 DEF Sound, SoundTables
<1>11. SoundTables'
  BY <1>5, <1>8, <1>9, <1>10 DEF Sound, SoundTables
<1>12. /\ thread'[i].at = "regroup" /\ thread'[i].ret = "unused" /\ thread'[i].cmd = "alias"
       /\ thread'[i].a = thread[i].a /\ thread'[i].b = thread[i].b
  BY <1>3, <1>4, <1>6
<1>13. NoRow(thread[i].b)'
  BY <1>8, <1>12 DEF NoRow
<1>14. Aliasing(thread[i])'
  BY <1>3, <1>5, <1>7, <1>12, <1>13 DEF Aliasing, Lookups, Resolving, Grouping, Taking, Renaming
<1>15. Commanding(thread[i])'
  BY <1>12, <1>14 DEF Commanding
<1>16. Leaves(i)
  <2>1. Taken(thread[i], b) /\ GoesBy(thread[i], a)
    BY <1>1, <1>3 DEF Taken, Takes, GoesBy
  <2>2. \A k \in DOMAIN tells' : k \in DOMAIN tells /\ (tells'[k].user = tells[k].user \/ tells'[k].user = a)
    <3>1. \A k \in DOMAIN tells : [tells[k] EXCEPT !.user = a].user = a
      BY DEF Inv, Rows, IsRow
    <3>. HIDE DEF a, b
    <3>. QED  BY <1>5, <3>1
  <2>. HIDE DEF a, b
  <2>3. \A x : NoRow(x) => NoRow(x)' \/ GoesBy(thread[i], x)
    BY <2>1, <2>2 DEF NoRow
  <2>. QED  BY <1>5, <1>7, <2>1, <2>3 DEF Leaves, NoMember
<1>. QED  BY <1>1, <1>5, <1>11, <1>15, <1>16, AliasKeeps DEF Inv

\* the groups follow
LEMMA RegroupKeeps == ASSUME Inv, Sound, ~Clash', NEW i \in Threads, Regroup(i) PROVE Sound'
<1>. DEFINE a == thread[i].a
            b == thread[i].b
            t == [thread[i] EXCEPT !.at = "origin"]
            f == [m \in grp |-> IF m[2] = b THEN <<m[1], a>> ELSE m]
<1>1. Command(i) /\ thread[i].cmd = "alias" /\ thread[i].at = "regroup"
  BY Places DEF Regroup, At, Renaming
<1>2. Aliasing(thread[i]) /\ IsThread(thread[i])
  BY <1>1, AliasTables
<1>3. /\ a \in Origins /\ a # b /\ b \in Names /\ alias[b] = None /\ NoRow(b)
      /\ thread[i].ret = "unused"
  BY <1>1, <1>2 DEF Aliasing, Taking, Renaming
<1>4. t.at = "origin" /\ t.ret = thread[i].ret /\ t.cmd = "alias" /\ t.a = a /\ t.b = b
  BY <1>1, <1>2, Moved
<1>5. Goes(i, t) /\ grp' = {f[m] : m \in grp} /\ UNCHANGED <<user, alias, tells>>
  BY DEF Regroup, Moves
<1>6. /\ thread'[i].at = "origin" /\ thread'[i].ret = "unused" /\ thread'[i].cmd = "alias"
      /\ thread'[i].a = thread[i].a /\ thread'[i].b = thread[i].b
  <2>1. thread'[i] = t
    BY <1>5 DEF Inv, Shape, Goes
  <2>. HIDE DEF t
  <2>. QED  BY <1>3, <1>4, <2>1
<1>. HIDE DEF t
<1>7. Origins' = Origins
  BY <1>5 DEF Origins
<1>8. IsFiniteSet(grp')
  <2>1. f \in Surjection(grp, grp')
    BY <1>5 DEF Surjection
  <2>. HIDE DEF f
  <2>. QED  BY <2>1, FS_Surjection DEF Sound, SoundTables
<1>9. \A m \in grp' : m[2] # b /\ (m \in grp \/ m[2] = a)
  <2>. SUFFICES ASSUME NEW m \in grp PROVE f[m][2] # b /\ (f[m] \in grp \/ f[m][2] = a)
    BY <1>5
  <2>. QED  BY <1>3
<1>10. \A m \in grp' : m[2] \in Origins' \/ \E x \in Threads : At(x, "regroup")' /\ m[2] = thread'[x].b
  <2>. SUFFICES ASSUME NEW m \in grp', m \in grp, m[2] # b,
                       NEW x \in Threads, At(x, "regroup"), m[2] = thread[x].b
                PROVE  At(x, "regroup")' /\ m[2] = thread'[x].b
    BY <1>3, <1>7, <1>9 DEF Sound, SoundTables
  <2>1. thread'[x] = thread[x]
    BY <1>5 DEF Goes, Inv, Shape
  <2>. QED  BY <2>1 DEF At
<1>11. SoundTables'
  BY <1>5, <1>7, <1>8, <1>10 DEF Sound, SoundTables
<1>12. NoRow(thread[i].b)' /\ NoMember(thread[i].b)'
  BY <1>3, <1>5, <1>6, <1>9 DEF NoRow, NoMember
<1>13. Aliasing(thread[i])'
  BY <1>3, <1>5, <1>6, <1>7, <1>12 DEF Aliasing, Lookups, Resolving, Grouping, Taking, Renaming
<1>14. Commanding(thread[i])'
  BY <1>6, <1>13 DEF Commanding
<1>15. Leaves(i)
  <2>1. GoesBy(thread[i], a)
    BY <1>3 DEF GoesBy
  <2>. HIDE DEF a, b, f
  <2>2. \A x : NoMember(x) => NoMember(x)' \/ GoesBy(thread[i], x)
    BY <1>9, <2>1 DEF NoMember
  <2>. QED  BY <1>5, <1>7, <2>2 DEF Leaves, NoRow
<1>. QED  BY <1>1, <1>5, <1>11, <1>14, <1>15, AliasKeeps DEF Inv

\* add_alias, twice
LEMMA OriginKeeps == ASSUME Inv, Sound, ~Clash', NEW i \in Threads, Origin(i) PROVE Sound'
<1>. DEFINE a == thread[i].a
            b == thread[i].b
            t == [thread[i] EXCEPT !.at = "bind"]
<1>1. Command(i) /\ thread[i].cmd = "alias" /\ thread[i].at = "origin"
  BY Places DEF Origin, At, Renaming
<1>2. Aliasing(thread[i]) /\ IsThread(thread[i]) /\ Origins \subseteq Names
  BY <1>1, AliasTables
<1>3. /\ a \in Origins /\ a # b /\ b \in Names /\ alias[b] = None /\ NoRow(b) /\ NoMember(b)
      /\ thread[i].ret = "unused"
  BY <1>1, <1>2 DEF Aliasing, Taking, Renaming
<1>4. t.at = "bind" /\ t.ret = thread[i].ret /\ t.cmd = "alias" /\ t.a = a /\ t.b = b
  BY <1>1, <1>2, Moved
<1>5. Goes(i, t) /\ alias' = [alias EXCEPT ![a] = a] /\ UNCHANGED <<user, grp, tells>>
  BY DEF Origin, Moves
<1>6. /\ thread'[i].at = "bind" /\ thread'[i].ret = "unused" /\ thread'[i].cmd = "alias"
      /\ thread'[i].a = thread[i].a /\ thread'[i].b = thread[i].b
  <2>1. thread'[i] = t
    BY <1>5 DEF Inv, Shape, Goes
  <2>. HIDE DEF t
  <2>. QED  BY <1>3, <1>4, <2>1
<1>. HIDE DEF t
<1>7. alias \in [Names -> Names \cup {None}] /\ alias' \in [Names -> Names \cup {None}] /\ alias'[a] = a
      /\ \A n : n # a => alias'[n] = alias[n]
  BY <1>2, <1>3, <1>5 DEF Sound, SoundTables
<1>8. Origins' = Origins
  BY <1>3, <1>5, <1>7 DEF Origins
<1>9. \A n \in Names : alias'[n] # None => alias'[n] \in Origins /\ alias'[alias'[n]] = alias'[n]
  BY <1>3, <1>7 DEF Sound, SoundTables
<1>10. SoundTables'
  <2>1. ~At(i, "regroup") /\ \E u : Goes(i, u)
    BY <1>1, <1>5 DEF At
  <2>2. \A m \in grp' : m[2] \in Origins' \/ \E x \in Threads : At(x, "regroup")' /\ m[2] = thread'[x].b
    BY <1>5, <1>8, <2>1, MembersStay DEF Inv
  <2>. QED  BY <1>5, <1>7, <1>8, <1>9, <2>2 DEF Sound, SoundTables
<1>11. NoRow(thread[i].b)' /\ NoMember(thread[i].b)'
  BY <1>3, <1>5, <1>6 DEF NoRow, NoMember
<1>12. Aliasing(thread[i])'
  BY <1>3, <1>6, <1>7, <1>8, <1>11 DEF Aliasing, Lookups, Resolving, Grouping, Taking, Renaming
<1>13. Commanding(thread[i])'
  BY <1>6, <1>12 DEF Commanding
<1>14. Leaves(i)
  <2>1. GoesBy(thread[i], a)
    BY <1>3 DEF GoesBy
  <2>. HIDE DEF a, b
  <2>2. \A x : (NoRow(x) => NoRow(x)') /\ (NoMember(x) => NoMember(x)')
    BY <1>5 DEF NoRow, NoMember
  <2>. QED  BY <1>7, <1>8, <2>1, <2>2 DEF Leaves
<1>. QED  BY <1>1, <1>5, <1>10, <1>13, <1>14, AliasKeeps DEF Inv

LEMMA BindKeeps == ASSUME Inv, Sound, ~Clash', NEW i \in Threads, Bind(i) PROVE Sound'
<1>. DEFINE a == thread[i].a
            b == thread[i].b
<1>1. Command(i) /\ thread[i].cmd = "alias" /\ thread[i].at = "bind"
  BY Places DEF Bind, At, Renaming
<1>2. Aliasing(thread[i]) /\ Origins \subseteq Names /\ None \notin Origins
  BY <1>1, AliasTables
<1>3. /\ a \in Origins /\ a # b /\ b \in Names /\ alias[b] = None /\ NoRow(b) /\ NoMember(b) /\ alias[a] = a
      /\ thread[i].ret = "unused"
  BY <1>1, <1>2 DEF Aliasing, Taking, Renaming
<1>4. Goes(i, Idle) /\ alias' = [alias EXCEPT ![b] = a] /\ UNCHANGED <<user, grp, tells>>
  BY DEF Bind, Ends
<1>5. alias \in [Names -> Names \cup {None}] /\ alias' \in [Names -> Names \cup {None}] /\ alias'[b] = a
      /\ \A n : n # b => alias'[n] = alias[n]
  BY <1>2, <1>3, <1>4 DEF Sound, SoundTables
<1>6. \A u : u \in Origins /\ u # b => u \in Origins'
  BY <1>4, <1>5 DEF Origins
<1>7. \A n \in Names : alias'[n] # None => alias'[n] \in Origins' /\ alias'[alias'[n]] = alias'[n]
  <2>. SUFFICES ASSUME NEW n \in Names, alias'[n] # None
                PROVE  alias'[n] \in Origins' /\ alias'[alias'[n]] = alias'[n]
    OBVIOUS
  <2>1. CASE n = b
    BY <1>3, <1>5, <1>6, <2>1
  <2>2. CASE n # b
    <3>1. alias'[n] = alias[n] /\ alias[n] \in Origins /\ alias[alias[n]] = alias[n]
      BY <1>5, <2>2 DEF Sound, SoundTables
    <3>2. alias[n] # b
      BY <1>2, <1>3, <3>1
    <3>. QED  BY <1>5, <1>6, <3>1, <3>2
  <2>. QED  BY <2>1, <2>2
<1>8. /\ \A k \in DOMAIN tells : tells[k].user \in Origins /\ tells[k].user # b
      /\ \A m \in grp : m[2] # b
  BY <1>3 DEF Sound, SoundTables, NoRow, NoMember
<1>9. SoundTables'
  <2>1. \A m \in grp' : m[2] \in Origins' \/ \E x \in Threads : At(x, "regroup")' /\ m[2] = thread'[x].b
    <3>. SUFFICES ASSUME NEW m \in grp, NEW x \in Threads, At(x, "regroup"), m[2] = thread[x].b
                  PROVE  At(x, "regroup")' /\ m[2] = thread'[x].b
      BY <1>4, <1>6, <1>8 DEF Sound, SoundTables
    <3>1. thread'[x] = thread[x]
      BY <1>1, <1>4 DEF At, Goes, Inv, Shape
    <3>. QED  BY <3>1 DEF At
  <2>. QED  BY <1>4, <1>5, <1>6, <1>7, <1>8, <2>1 DEF Sound, SoundTables
<1>10. Commanding(thread[i])'
  <2>1. thread'[i] = Idle
    BY <1>4 DEF Inv, Shape, Goes
  <2>2. Commanding(Idle)'
    BY IdleStaysSound
  <2>. QED  BY <2>1, <2>2
<1>11. Leaves(i)
  <2>1. Taken(thread[i], b) /\ GoesBy(thread[i], b)
    BY <1>1, <1>3 DEF Taken, Takes, GoesBy, Renaming
  <2>. HIDE DEF a, b
  <2>2. \A x : (NoRow(x) => NoRow(x)') /\ (NoMember(x) => NoMember(x)')
    BY <1>4 DEF NoRow, NoMember
  <2>. QED  BY <1>5, <1>6, <2>1, <2>2 DEF Leaves
<1>. QED  BY <1>1, <1>4, <1>9, <1>10, <1>11, AliasKeeps DEF Inv

\* Messages, and the rest.
LEMMA HandlerIsSound ==
  ASSUME NEW c \in Messages
  PROVE  Commanding(Handler(c)) /\ (Handler(c) = Idle \/ Handler(c).cmd = c.cmd)
<1>. DEFINE t == [Idle EXCEPT !.cmd = c.cmd, !.nick = c.nick, !.a = c.a, !.b = c.b, !.todo = c.targets, !.due = c.due]
            h == Handler(c)
<1>1. IsThread(t) /\ t.cmd = c.cmd /\ t.a = c.a /\ t.b = c.b /\ t.todo = c.targets /\ t.users = <<>>
  BY DEF IsThread, Idle, Fields, Rets
<1>2. /\ t.todo \in Seq(Names) /\ t.users \in Seq(Origins) /\ c.nick \in Names
      /\ c.cmd \in {"alias", "group", "drop", "unalias"} => c.b \in Names
      /\ c.cmd = "alias" => c.a \in Names
  <2>1. <<>> \in Seq(Origins)
    OBVIOUS
  <2>2. c.nick \in Names
    BY MessagesAssumption, TellAssumption
  <2>3. /\ c.targets \in Seq(Names)
        /\ c.cmd \in {"alias", "group", "drop", "unalias"} => c.b \in Names
        /\ c.cmd = "alias" => c.a \in Names
    BY MessagesAssumption
  <2>. HIDE DEF t
  <2>. QED  BY <1>1, <2>1, <2>2, <2>3
<1>3. CASE c.cmd \in {"tell", "remind", "alias", "drop"}
  <2>1. PICK n, pc : /\ h = GetUsername(t, n, pc) /\ n \in Names
                     /\ c.cmd = "alias" => pc = "source"
                     /\ c.cmd # "alias" => pc \in {"caller", "dropper"}
    BY <1>2, <1>3 DEF Handler
  <2>. HIDE DEF t, h
  <2>2. /\ h.at = "resolve" /\ h.name = n /\ h.ret = pc /\ h.cmd = c.cmd /\ h.a = c.a /\ h.b = c.b
        /\ h.todo = t.todo /\ h.users = t.users
    BY <1>1, <2>1, AskedUser
  <2>3. CASE c.cmd = "alias"
    <3>1. Aliasing(h)
      BY <1>2, <2>1, <2>2, <2>3 DEF Aliasing, Lookups, Resolving, Grouping, Taking, Renaming
    <3>. QED  BY <2>2, <2>3, <3>1 DEF Commanding, h
  <2>4. CASE c.cmd # "alias"
    <3>1. Talking(h)
      BY <1>2, <2>1, <2>2, <2>4 DEF Talking, Lookups, Resolving, Grouping
    <3>. QED  BY <2>2, <2>4, <3>1 DEF Commanding, h
  <2>. QED  BY <2>3, <2>4
<1>4. CASE c.cmd = "subscripe"
  <2>. DEFINE v == [t EXCEPT !.b = c.nick]
  <2>1. h = GetUsername(v, c.nick, "member")
    BY <1>4 DEF Handler
  <2>. HIDE DEF t, h
  <2>2. IsThread(v) /\ v.cmd = c.cmd /\ v.todo = t.todo /\ v.users = t.users
    BY <1>1 DEF IsThread, Fields
  <2>. HIDE DEF v
  <2>3. /\ h.at = "resolve" /\ h.name = c.nick /\ h.ret = "member" /\ h.cmd = c.cmd
        /\ h.todo = t.todo /\ h.users = t.users
    BY <2>1, <2>2, AskedUser
  <2>4. Talking(h)
    BY <1>2, <2>3 DEF Talking, Lookups, Resolving, Grouping
  <2>. QED  BY <1>4, <2>3, <2>4 DEF Commanding, h
<1>5. CASE c.cmd = "dropall"
  <2>. DEFINE v == [t EXCEPT !.b = c.a]
  <2>1. h = GetGroupname(v, c.a, "dropall")
    BY <1>5 DEF Handler
  <2>. HIDE DEF t, h
  <2>2. IsThread(v) /\ v.cmd = c.cmd /\ v.todo = t.todo /\ v.users = t.users
    BY <1>1 DEF IsThread, Fields
  <2>. HIDE DEF v
  <2>3. /\ h.at = "lookupgroup" /\ h.ret = "dropall" /\ h.cmd = c.cmd
        /\ h.todo = t.todo /\ h.users = t.users
    BY <2>1, <2>2, AskedGroup
  <2>4. Talking(h)
    BY <1>2, <2>3 DEF Talking, Lookups, Resolving, Grouping
  <2>. QED  BY <1>5, <2>3, <2>4 DEF Commanding, h
<1>6. CASE c.cmd \in {"unalias", "group"}
  <2>1. PICK pc \in {"unalias", "groupfree"} : h = [t EXCEPT !.at = pc] /\ (pc = "groupfree" => c.cmd = "group")
    BY <1>6 DEF Handler
  <2>. HIDE DEF t, h
  <2>2. h.at = pc /\ h.cmd = c.cmd /\ h.b = c.b /\ h.todo = t.todo /\ h.users = t.users
    BY <1>1, <2>1, Moved
  <2>3. Talking(h)
    BY <1>2, <2>1, <2>2 DEF Talking, Lookups, Resolving, Grouping
  <2>. QED  BY <1>6, <2>2, <2>3 DEF Commanding, h
<1>7. CASE c.cmd \notin {"tell", "remind", "alias", "drop", "subscripe", "dropall", "unalias", "group"}
  <2>1. h = Idle
    BY <1>7 DEF Handler
  <2>. HIDE DEF h
  <2>. QED  BY <2>1, IdleIsSound DEF Commanding, h
<1>. QED  BY <1>3, <1>4, <1>5, <1>6, <1>7

LEMMA MessageKeepsSound == ASSUME Inv, Sound, ~Clash', NEW c \in Messages, Message(c) PROVE Sound'
<1>1. PICK s \in 1..Slots :
        /\ Free(s)
        /\ thread' = [thread EXCEPT ![<<s, "update">>] = Updater(c.nick),
                                    ![<<s, "deliver">>] = Deliverer(c.nick), ![<<s, "command">>] = Handler(c)]
  BY DEF Message
<1>2. UNCHANGED <<user, alias, grp, tells>> /\ Origins' = Origins
  BY DEF Message, dbVars, Origins
<1>3. /\ \A j \in Threads : j[1] # s => thread'[j] = thread[j]
      /\ \A j \in Threads : j[1] = s /\ Command(j) => thread'[j] = Handler(c)
      /\ \A j \in Threads : j[1] = s /\ ~Command(j) => thread'[j] \in {Updater(c.nick), Deliverer(c.nick)}
      /\ \A j \in Threads : j[1] = s => At(j, "idle")
      /\ \A j, k \in Threads : j[1] = s /\ k[1] = s /\ Command(j) /\ Command(k) => j = k
  <2>1. \A j \in Threads : j = <<j[1], j[2]>> /\ j[2] \in {"update", "deliver", "command"}
    BY DEF Threads
  <2>2. DOMAIN thread = Threads
    BY DEF Inv, Shape
  <2>3. \A j \in Threads : j[1] # s => thread'[j] = thread[j]
    BY <1>1, <2>2
  <2>4. \A j \in Threads : j[1] = s /\ Command(j) => thread'[j] = Handler(c)
    BY <1>1, <2>1, <2>2 DEF Command
  <2>5. \A j \in Threads : j[1] = s /\ ~Command(j) => thread'[j] \in {Updater(c.nick), Deliverer(c.nick)}
    BY <1>1, <2>1, <2>2 DEF Command
  <2>6. \A j \in Threads : j[1] = s => At(j, "idle")
    BY <1>1 DEF Free
  <2>7. \A j, k \in Threads : j[1] = s /\ k[1] = s /\ Command(j) /\ Command(k) => j = k
    BY <2>1 DEF Command
  <2>. QED  BY <2>3, <2>4, <2>5, <2>6, <2>7
<1>4. c.nick \in Nicks
  BY MessagesAssumption
<1>5. Light(Updater(c.nick)) /\ Light(Deliverer(c.nick))
  BY <1>4 DEF Light, Updater, Deliverer, Idle
<1>6. SoundTables'
  <2>. SUFFICES ASSUME NEW m \in grp, NEW x \in Threads, At(x, "regroup"), m[2] = thread[x].b
                PROVE  At(x, "regroup")' /\ m[2] = thread'[x].b
    BY <1>2 DEF Sound, SoundTables
  <2>1. x[1] # s
    BY <1>3 DEF At
  <2>. QED  BY <1>3, <2>1 DEF At
<1>7. ASSUME NEW t PROVE /\ Light(t)' <=> Light(t)
                         /\ Commanding(t) => Commanding(t)'
  <2>1. Light(t)' <=> Light(t)
    BY DEF Light
  <2>2. SameUsers
    BY <1>2 DEF SameUsers
  <2>. QED  BY <1>2, <2>1, <2>2, TalkingStays, AliasingStays DEF Commanding
<1>8. ASSUME NEW j \in Threads PROVE SoundThread(j)'
  <2>1. \E t : thread'[j] = t /\ IF Command(j) THEN Commanding(t) ELSE Light(t)
    <3>1. CASE j[1] # s
      BY <1>3, <3>1 DEF Sound, SoundThread
    <3>2. CASE j[1] = s /\ Command(j)
      BY <1>3, <3>2, HandlerIsSound
    <3>3. CASE j[1] = s /\ ~Command(j)
      BY <1>3, <1>5, <3>3
    <3>. QED  BY <3>1, <3>2, <3>3
  <2>2. PICK t : thread'[j] = t /\ IF Command(j) THEN Commanding(t) ELSE Light(t)
    BY <2>1
  <2>3. IF Command(j) THEN Commanding(t)' ELSE Light(t)'
    BY <1>7, <2>2
  <2>. QED  BY <2>2, <2>3 DEF SoundThread, Command
<1>. QED  BY <1>6, <1>8 DEF Sound

LEMMA UsersKeepsSound ==
  ASSUME Inv, Sound, ~Clash', NEW i \in Threads, UsersStep(i), Orphans(i), ~orphaned'
  PROVE  Sound'
<1>1. CASE Unalias(i)
  <2>1. /\ \A n \in Names \ {thread[i].b} : alias[n] # thread[i].b
        /\ \A j \in Threads : At(j, "bind") => thread[j].a # thread[i].b
    BY <1>1 DEF Orphans, Unalias
  <2>. QED  BY <1>1, <2>1, UnaliasKeeps
<1>2. CASE \/ ResolveNick(i) \/ Resolve(i) \/ Known(i) \/ Raw(i) \/ Touch(i) \/ LookupGroup(i)
           \/ Groupname(i) \/ Members(i) \/ GroupFree(i) \/ NewGroup(i) \/ GroupAdd(i) \/ Drop(i)
           \/ DropAll(i)
  BY <1>2, ResolveNickKeeps, ResolveKeeps, KnownKeeps, RawKeeps, TouchKeeps, LookupGroupKeeps,
     GroupnameKeeps, MembersKeeps, GroupFreeKeeps, NewGroupKeeps, GroupAddKeeps, DropsKeep
<1>3. CASE \/ TargetUser(i) \/ InUse(i) \/ Rename(i) \/ Regroup(i) \/ Origin(i) \/ Bind(i)
           \/ AliasGroup(i) \/ GroupExists(i) \/ GroupUnused(i) \/ GroupNew(i) \/ GroupBind(i)
           \/ UngroupAlias(i)
  BY <1>3, TargetUserKeeps, InUseKeeps, RenameKeeps, RegroupKeeps, OriginKeeps, BindKeeps,
     AliasGroupKeeps, GroupQueriesKeep, GroupBindKeeps, UngroupAliasKeeps
<1>. QED  BY <1>1, <1>2, <1>3 DEF UsersStep

LEMMA SettledInit == Init => Settled
<1>. SUFFICES ASSUME Init PROVE Sound
  BY DEF Settled
<1>1. PICK t \in Tables : user = t.user /\ alias = t.alias /\ grp = t.grp /\ tells = t.tells
  BY DEF Init
<1>2. /\ user \subseteq Nicks /\ alias \in [Names -> Nicks \cup {None}] /\ IsFiniteSet(grp)
      /\ \A n \in Names : alias[n] # None => alias[n] \in user /\ alias[alias[n]] = alias[n]
      /\ \A u \in {m[2] : m \in grp} \cup {tells[k].user : k \in DOMAIN tells} :
           u \in user /\ alias[u] \in {None, u}
  BY <1>1, TablesAssumption
<1>3. SoundTables
  <2>1. alias \in [Names -> Names \cup {None}]
    BY <1>2, TellAssumption
  <2>2. \A n \in Names : alias[n] # None => alias[n] \in Origins /\ alias[alias[n]] = alias[n]
    BY <1>2 DEF Origins
  <2>3. \A k \in DOMAIN tells : tells[k].user \in Origins
    BY <1>2 DEF Origins
  <2>4. \A m \in grp : m[2] \in Origins
    BY <1>2 DEF Origins
  <2>. QED  BY <1>2, <2>1, <2>2, <2>3, <2>4 DEF SoundTables
<1>4. \A i \in Threads : thread[i] = Idle
  BY DEF Init
<1>5. \A i \in Threads : ~Takes(thread[i])
  <2>1. ~Takes(Idle)
    BY DEF Takes, Idle
  <2>. QED  BY <1>4, <2>1
<1>. QED  BY <1>3, <1>4, <1>5, IdleIsSound DEF Sound, SoundThread, Commanding, Clash

LEMMA NothingKeeps ==
  ASSUME Sound, ~Clash', UNCHANGED <<user, alias, grp, tells, thread>>
  PROVE  Sound'
<1>1. SoundTables'
  BY DEF Sound, SoundTables, Origins, At
<1>2. SameUsers /\ Origins \subseteq Origins'
  BY DEF SameUsers, Origins
<1>3. ASSUME NEW t PROVE (Commanding(t) => Commanding(t)') /\ (Light(t) => Light(t)')
  <2>1. Light(t) => Light(t)'
    BY DEF Light
  <2>. QED  BY <1>2, <2>1, TalkingStays, AliasingStays DEF Commanding
<1>4. ASSUME NEW i \in Threads PROVE SoundThread(i)'
  <2>1. PICK t : t = thread[i]
    OBVIOUS
  <2>2. IF Command(i) THEN Commanding(t) ELSE Light(t)
    BY <2>1 DEF Sound, SoundThread
  <2>3. IF Command(i) THEN Commanding(t)' ELSE Light(t)'
    BY <1>3, <2>2
  <2>. QED  BY <2>1, <2>3 DEF SoundThread, Command
<1>. QED  BY <1>1, <1>4 DEF Sound

LEMMA SettledNext == Inv /\ Settled /\ [Next]_vars => Settled'
<1>. SUFFICES ASSUME Inv, Settled, [Next]_vars, ~crashed', ~orphaned', ~raced' PROVE Sound'
  BY DEF Settled
<1>1. CASE Next
  <2>1. ~raced /\ ~Clash' /\ Steps
    BY <1>1 DEF Next, Races
  <2>2. ASSUME NEW i \in Threads, UsersStep(i), Orphans(i), UNCHANGED crashed PROVE Sound'
    <3>1. ~orphaned
      BY <2>2 DEF Orphans
    <3>. QED  BY <2>1, <2>2, <3>1, UsersKeepsSound DEF Settled
  <2>3. ASSUME NEW i \in Threads, Insert(i) \/ Claim(i) \/ Send(i) PROVE Sound'
    <3>1. UNCHANGED <<crashed, orphaned>>
      BY <2>3 DEF Insert, Claim, Send
    <3>. QED  BY <2>1, <2>3, <3>1, InsertKeepsSound, ClaimKeepsSound, SendKeepsSound DEF Settled
  <2>4. ASSUME NEW c \in Messages, Message(c) PROVE Sound'
    <3>1. ~crashed /\ ~orphaned
      BY <2>4 DEF Message
    <3>. QED  BY <2>1, <2>4, <3>1, MessageKeepsSound DEF Settled
  <2>5. CASE Tick
    <3>1. Sound /\ UNCHANGED <<user, alias, grp, tells, thread>>
      BY <2>1, <2>5 DEF Tick, Settled, dbVars
    <3>. QED  BY <2>1, <3>1, NothingKeeps
  <2>6. CASE Crash
    BY <2>6 DEF Crash
  <2>. QED  BY <2>1, <2>2, <2>3, <2>4, <2>5, <2>6 DEF Steps
<1>2. CASE UNCHANGED vars
  <2>1. Sound /\ UNCHANGED <<user, alias, grp, tells, thread>>
    BY <1>2 DEF vars, dbVars, history, Settled
  <2>2. ~Clash'
    BY <2>1 DEF Sound, Clash, Takes, GoesBy
  <2>. QED  BY <2>1, <2>2, NothingKeeps
<1>. QED  BY <1>1, <1>2

LEMMA OriginsAreReached == Origins \subseteq Reached
<1>. SUFFICES ASSUME NEW u \in Origins PROVE u \in Reached
  OBVIOUS
<1>1. u \in Nicks /\ Speaks(u) = u
  BY DEF Origins, Speaks
<1>. QED  BY <1>1 DEF Reached

LEMMA SettledMeansReached == Settled => NothingStranded /\ MembersAreReached
<1>. SUFFICES ASSUME Sound, Quiet PROVE /\ \A k \in DOMAIN tells : tells[k].user \in Reached
                                       /\ {m[2] : m \in grp} \subseteq Reached
  BY DEF Settled, NothingStranded, MembersAreReached
<1>1. \A k \in DOMAIN tells : tells[k].user \in Reached
  BY OriginsAreReached DEF Sound, SoundTables
<1>2. \A m \in grp : m[2] \in Origins
  BY DEF Sound, SoundTables, Quiet, At
<1>. QED  BY <1>1, <1>2, OriginsAreReached

\* Whatever renames, aliases and groups came and went, at rest every row that waits is one
\* that somebody's messages claim (rename_user with _user_rename).  Handlers' queries may
\* fall anyhow but for three cases, in which the code strands a row: an alias command took a
\* name that another command had looked up and not yet written (raced), the process died
\* between a rename and its alias (crashed), or a user's own alias was deleted while others
\* led to it (orphaned).
THEOREM TellsReached == Spec => []NothingStranded
<1>1. Inv /\ Settled /\ [Next]_vars => Inv' /\ Settled'
  BY InvNext, SettledNext
<1>. QED  BY InvInit, SettledInit, SettledMeansReached, <1>1, PTL DEF Spec

\* So is every member of a group (aliasuser's update of aliasgrp, group and subscripe
\* through get_username), but for the same three cases.
THEOREM MembersReached == Spec => []MembersAreReached
<1>1. Inv /\ Settled /\ [Next]_vars => Inv' /\ Settled'
  BY InvNext, SettledNext
<1>. QED  BY InvInit, SettledInit, SettledMeansReached, <1>1, PTL DEF Spec
=============================================================================
