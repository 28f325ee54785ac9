----------------------- MODULE WebhookListenerProofs -----------------------
(***************************************************************************)
(* Proofs about WebhookListener: where the port ends up listening, and how  *)
(* often an event reloads the bot, whatever reloads come between.           *)
(***************************************************************************)
EXTENDS WebhookListener, FiniteSetTheorems, SequenceTheorems, TLAPS

----------------------------------------------------------------------------
(* The listener.                                                           *)

Step == Addresses \cup {"stop"}          \* what _chain holds
Call == {"init", "unload"}               \* what a turn holds

ListenerTyped ==
  /\ config \in Configs /\ taken \subseteq Addresses /\ handler \in BOOLEAN
  /\ address \in Addresses \cup {NoAddress} /\ port \in Addresses \cup {NoAddress}
  /\ chain \in Seq(Step) /\ turn \in Seq(Call)
  /\ unclaimed \in Nat

\* A step that starts finds the port stopped: the step before it in the chain does that,
\* or has done.
StopsFirst(c, p) ==
  \A i \in 1..Len(c) : c[i] # "stop" => IF i = 1 THEN p = NoAddress ELSE c[i - 1] = "stop"
StartsAfterStop == StopsFirst(chain, port)

\* The address that is claimed is the one the chain ends with, unless it was found taken;
\* and when the chain has run it is where the port is.
ChainEndsAtClaim ==
  IF chain = <<>> THEN port = address /\ address \notin taken
  ELSE LET last == chain[Len(chain)] IN
       IF last = "stop" THEN address = NoAddress
       ELSE address = last \/ (address = NoAddress /\ last \in taken)

\* Between turns a module that is loaded has claimed what its options say.
ClaimFollowsConfig ==
  /\ turn = <<>> /\ handler => /\ config.address # NoAddress
                               /\ \/ address = config.address
                                  \/ address = NoAddress /\ config.address \in taken
  /\ ~handler /\ unclaimed = 0 => address = NoAddress

ListenerInv == ListenerTyped /\ StartsAfterStop /\ ChainEndsAtClaim /\ ClaimFollowsConfig

LEMMA ServersCounted == Cardinality(Servers) \in Nat \ {0}
BY WebhookAssumption, FS_CardinalityType, FS_EmptySet

LEMMA ConfigTyped == ASSUME NEW c \in Configs PROVE c.address \in Addresses \cup {NoAddress}
BY WebhookAssumption

LEMMA InitsTyped ==
  ASSUME NEW n \in Nat
  PROVE  Inits(n) \in Seq(Call) /\ (Inits(n) = <<>> <=> n = 0)
BY DEF Inits, Call

LEMMA ListenerInit == Init => ListenerInv
<1>. SUFFICES ASSUME Init PROVE ListenerInv
  OBVIOUS
<1>1. turn \in Seq(Call) /\ turn # <<>>
  BY ServersCounted, InitsTyped DEF Init
<1>2. ListenerTyped
  <2>1. config \in Configs /\ taken \subseteq Addresses /\ handler \in BOOLEAN /\ unclaimed \in Nat
    BY DEF Init
  <2>2. address \in Addresses \cup {NoAddress} /\ port \in Addresses \cup {NoAddress}
    BY DEF Init
  <2>3. chain \in Seq(Step)
    BY DEF Init
  <2>. QED  BY <1>1, <2>1, <2>2, <2>3 DEF ListenerTyped
<1>3. StartsAfterStop
  BY DEF Init, StartsAfterStop, StopsFirst
<1>4. ChainEndsAtClaim
  BY WebhookAssumption DEF Init, ChainEndsAtClaim
<1>5. ClaimFollowsConfig
  BY <1>1 DEF Init, ClaimFollowsConfig
<1>. QED  BY <1>2, <1>3, <1>4, <1>5 DEF ListenerInv

\* What is true of a chain without its first step, and of one with steps behind it.
LEMMA Shorter ==
  ASSUME NEW S, NEW s \in Seq(S), s # <<>>
  PROVE  /\ Tail(s) \in Seq(S) /\ Head(s) = s[1] /\ Head(s) \in S
         /\ Len(s) \in Nat \ {0} /\ Len(Tail(s)) = Len(s) - 1
         /\ \A i \in 1..Len(Tail(s)) : Tail(s)[i] = s[i + 1] /\ i + 1 \in 1..Len(s) /\ i + 1 # 1
         /\ Tail(s) = <<>> <=> Len(s) = 1
<1>1. Tail(s) \in Seq(S) /\ Head(s) = s[1] /\ Len(s) \in Nat \ {0} /\ Len(Tail(s)) = Len(s) - 1
  OBVIOUS
<1>2. \A i \in 1..Len(Tail(s)) : Tail(s)[i] = s[i + 1]
  OBVIOUS
<1>3. Tail(s) = <<>> <=> Len(Tail(s)) = 0
  BY <1>1, EmptySeq
<1>4. s[1] \in S
  BY <1>1
<1>. QED  BY <1>1, <1>2, <1>3, <1>4

LEMMA Longer ==
  ASSUME NEW S, NEW s \in Seq(S), NEW x \in S
  PROVE  /\ Append(s, x) \in Seq(S) /\ Append(s, x) # <<>> /\ Len(s) \in Nat
         /\ Len(Append(s, x)) = Len(s) + 1 /\ Append(s, x)[Len(s) + 1] = x
         /\ \A i \in 1..Len(s) : Append(s, x)[i] = s[i]
OBVIOUS

LEMMA TwoLonger ==
  ASSUME NEW S, NEW s \in Seq(S), NEW x \in S, NEW y \in S
  PROVE  s \o <<x, y>> = Append(Append(s, x), y)
OBVIOUS

\* _stop_port
LEMMA StopPortKeeps == ASSUME ListenerInv, StopPort PROVE ListenerInv'
<1>1. /\ chain \in Seq(Step) /\ chain # <<>> /\ Head(chain) = "stop"
      /\ chain' = Tail(chain) /\ port' = NoAddress
      /\ UNCHANGED <<address, config, taken, handler, unclaimed, turn>>
  BY DEF StopPort, Running, ListenerInv, ListenerTyped
<1>2. ListenerTyped'
  BY <1>1, Shorter DEF ListenerInv, ListenerTyped
<1>3. StartsAfterStop'
  <2>. SUFFICES ASSUME NEW i \in 1..Len(chain'), chain'[i] # "stop"
                PROVE  i = 1 \/ chain'[i - 1] = "stop"
    BY <1>1 DEF StartsAfterStop, StopsFirst
  <2>. SUFFICES ASSUME i # 1 PROVE chain'[i - 1] = "stop"
    OBVIOUS
  <2>1. /\ i - 1 \in 1..Len(chain') /\ chain'[i] = chain[i + 1] /\ i + 1 \in 1..Len(chain)
        /\ chain'[i - 1] = chain[i] /\ i + 1 # 1 /\ (i + 1) - 1 = i
    BY <1>1, Shorter
  <2>. QED  BY <2>1 DEF ListenerInv, StartsAfterStop, StopsFirst
<1>4. ChainEndsAtClaim'
  <2>1. CASE Len(chain) = 1
    <3>1. chain' = <<>> /\ chain[Len(chain)] = "stop"
      BY <1>1, <2>1, Shorter
    <3>2. address = NoAddress
      BY <1>1, <3>1 DEF ListenerInv, ChainEndsAtClaim
    <3>. QED  BY <1>1, <3>1, <3>2, WebhookAssumption DEF ChainEndsAtClaim, ListenerInv, ListenerTyped
  <2>2. CASE Len(chain) # 1
    <3>1. chain' # <<>> /\ chain'[Len(chain')] = chain[Len(chain)]
      BY <1>1, <2>2, Shorter
    <3>. QED  BY <1>1, <3>1 DEF ChainEndsAtClaim, ListenerInv
  <2>. QED  BY <2>1, <2>2
<1>5. ClaimFollowsConfig'
  BY <1>1 DEF ListenerInv, ClaimFollowsConfig
<1>. QED  BY <1>2, <1>3, <1>4, <1>5 DEF ListenerInv

\* _start_port
LEMMA StartPortKeeps == ASSUME ListenerInv, StartPort PROVE ListenerInv'
<1>1. /\ chain \in Seq(Step) /\ chain # <<>> /\ Head(chain) # "stop"
      /\ chain' = Tail(chain) /\ closing = {}
      /\ UNCHANGED <<config, taken, handler, unclaimed, turn>>
  BY DEF StartPort, Running, ListenerInv, ListenerTyped
<1>2. Head(chain) \in Addresses /\ Head(chain) # NoAddress /\ port = NoAddress
  <2>1. Head(chain) \in Step /\ Head(chain) = chain[1] /\ 1 \in 1..Len(chain)
    BY <1>1, Shorter
  <2>. QED  BY <1>1, <2>1, WebhookAssumption DEF Step, ListenerInv, StartsAfterStop, StopsFirst
<1>3. \/ address # Head(chain) /\ address' = address /\ port' = NoAddress
      \/ address = Head(chain) /\ address \in taken /\ address' = NoAddress /\ port' = NoAddress
      \/ address = Head(chain) /\ address \notin taken /\ address' = address /\ port' = address
  BY <1>1, <1>2 DEF StartPort
<1>4. ListenerTyped'
  BY <1>1, <1>3, Shorter DEF ListenerInv, ListenerTyped
<1>5. \A i \in 1..Len(chain') : chain'[i] # "stop" => i # 1 /\ chain'[i - 1] = "stop"
  <2>. SUFFICES ASSUME NEW i \in 1..Len(chain'), chain'[i] # "stop"
                PROVE  i # 1 /\ chain'[i - 1] = "stop"
    OBVIOUS
  <2>1. chain'[i] = chain[i + 1] /\ i + 1 \in 1..Len(chain) /\ i + 1 # 1 /\ (i + 1) - 1 = i
    BY <1>1, Shorter
  <2>2. chain[i] = "stop"
    BY <2>1 DEF ListenerInv, StartsAfterStop, StopsFirst
  <2>3. i # 1
    BY <1>1, <2>2, Shorter
  <2>4. i - 1 \in 1..Len(chain') /\ chain'[i - 1] = chain[i]
    BY <1>1, <2>3, Shorter
  <2>. QED  BY <2>2, <2>3, <2>4
<1>6. StartsAfterStop'
  BY <1>5 DEF StartsAfterStop, StopsFirst
<1>7. ChainEndsAtClaim'
  <2>1. CASE Len(chain) = 1
    <3>1. chain' = <<>> /\ chain[Len(chain)] = Head(chain)
      BY <1>1, <2>1, Shorter
    <3>2. address = Head(chain) \/ address = NoAddress
      BY <1>1, <3>1 DEF ListenerInv, ChainEndsAtClaim
    <3>3. port' = address' /\ address' \notin taken
      BY <1>2, <1>3, <3>2, WebhookAssumption DEF ListenerInv, ListenerTyped
    <3>. QED  BY <1>1, <3>1, <3>3 DEF ChainEndsAtClaim
  <2>2. CASE Len(chain) # 1
    <3>1. chain' # <<>> /\ chain'[Len(chain')] = chain[Len(chain)]
      BY <1>1, <2>2, Shorter
    <3>. QED  BY <1>1, <1>2, <1>3, <3>1 DEF ChainEndsAtClaim, ListenerInv
  <2>. QED  BY <2>1, <2>2
<1>8. ClaimFollowsConfig'
  BY <1>1, <1>2, <1>3 DEF ListenerInv, ClaimFollowsConfig
<1>. QED  BY <1>4, <1>6, <1>7, <1>8 DEF ListenerInv

\* A claim's two steps, or one more stop, make a chain longer that stops before it starts.
LEMMA StopAdded ==
  ASSUME NEW c \in Seq(Step), NEW p, StopsFirst(c, p)
  PROVE  /\ Append(c, "stop") \in Seq(Step) /\ Append(c, "stop") # <<>>
         /\ Len(Append(c, "stop")) \in Nat
         /\ Append(c, "stop")[Len(Append(c, "stop"))] = "stop" /\ StopsFirst(Append(c, "stop"), p)
<1>. DEFINE d == Append(c, "stop")
<1>1. "stop" \in Step
  BY DEF Step
<1>2. /\ d \in Seq(Step) /\ d # <<>> /\ Len(c) \in Nat /\ Len(d) = Len(c) + 1
      /\ d[Len(c) + 1] = "stop"
      /\ \A i \in 1..Len(c) : d[i] = c[i]
  BY <1>1, Longer
<1>. HIDE DEF d
<1>3. ASSUME NEW i \in 1..Len(d), d[i] # "stop"
      PROVE  IF i = 1 THEN p = NoAddress ELSE d[i - 1] = "stop"
  <2>1. i \in 1..Len(c) /\ d[i] = c[i]
    BY <1>2, <1>3
  <2>2. i # 1 => i - 1 \in 1..Len(c)
    BY <1>2, <2>1
  <2>3. i # 1 => d[i - 1] = c[i - 1]
    BY <1>2, <2>2
  <2>. QED  BY <1>3, <2>1, <2>3 DEF StopsFirst
<1>. QED  BY <1>2, <1>3 DEF StopsFirst, d

LEMMA StartAdded ==
  ASSUME NEW c \in Seq(Step), NEW p, NEW a \in Step, StopsFirst(c, p), c # <<>>, c[Len(c)] = "stop"
  PROVE  /\ Append(c, a) \in Seq(Step) /\ Append(c, a) # <<>>
         /\ Append(c, a)[Len(Append(c, a))] = a /\ StopsFirst(Append(c, a), p)
<1>. DEFINE d == Append(c, a)
<1>1. /\ d \in Seq(Step) /\ d # <<>> /\ Len(c) \in Nat /\ Len(d) = Len(c) + 1
      /\ d[Len(c) + 1] = a /\ Len(c) # 0
      /\ \A i \in 1..Len(c) : d[i] = c[i]
  BY Longer, EmptySeq
<1>. HIDE DEF d
<1>2. ASSUME NEW i \in 1..Len(d), d[i] # "stop"
      PROVE  IF i = 1 THEN p = NoAddress ELSE d[i - 1] = "stop"
  <2>1. CASE i = Len(c) + 1
    <3>1. i # 1 /\ i - 1 = Len(c) /\ Len(c) \in 1..Len(c)
      BY <1>1, <2>1
    <3>. QED  BY <1>1, <3>1
  <2>2. CASE i # Len(c) + 1
    <3>1. i \in 1..Len(c) /\ d[i] = c[i]
      BY <1>1, <2>2
    <3>2. i # 1 => i - 1 \in 1..Len(c)
      BY <1>1, <3>1
    <3>3. i # 1 => d[i - 1] = c[i - 1]
      BY <1>1, <3>2
    <3>. QED  BY <1>2, <3>1, <3>3 DEF StopsFirst
  <2>. QED  BY <2>1, <2>2
<1>. QED  BY <1>1, <1>2 DEF StopsFirst, d

LEMMA ClaimAdded ==
  ASSUME NEW c \in Seq(Step), NEW p, NEW a \in Step, StopsFirst(c, p)
  PROVE  /\ c \o <<"stop", a>> \in Seq(Step) /\ c \o <<"stop", a>> # <<>>
         /\ (c \o <<"stop", a>>)[Len(c \o <<"stop", a>>)] = a /\ StopsFirst(c \o <<"stop", a>>, p)
<1>. DEFINE d == Append(c, "stop")
<1>1. d \in Seq(Step) /\ d # <<>> /\ d[Len(d)] = "stop" /\ StopsFirst(d, p)
  BY StopAdded
<1>2. "stop" \in Step
  BY DEF Step
<1>3. c \o <<"stop", a>> = Append(d, a)
  BY <1>2, TwoLonger
<1>. HIDE DEF d
<1>4. /\ Append(d, a) \in Seq(Step) /\ Append(d, a) # <<>>
      /\ Append(d, a)[Len(Append(d, a))] = a /\ StopsFirst(Append(d, a), p)
  BY <1>1, StartAdded
<1>. QED  BY <1>3, <1>4

LEMMA StopIfUnclaimedKeeps == ASSUME ListenerInv, StopIfUnclaimed PROVE ListenerInv'
<1>1. /\ unclaimed > 0 /\ turn = <<>> /\ unclaimed' = unclaimed - 1
      /\ UNCHANGED <<port, config, taken, handler, turn>>
  BY DEF StopIfUnclaimed, Quiet
<1>2. CASE handler
  <2>1. UNCHANGED <<address, chain>>
    BY <1>2 DEF StopIfUnclaimed
  <2>2. ListenerTyped'
    <3>1. unclaimed' \in Nat
      BY <1>1 DEF ListenerInv, ListenerTyped
    <3>. QED  BY <1>1, <2>1, <3>1 DEF ListenerInv, ListenerTyped
  <2>3. StartsAfterStop' /\ ChainEndsAtClaim'
    BY <1>1, <2>1 DEF ListenerInv, StartsAfterStop, StopsFirst, ChainEndsAtClaim
  <2>4. ClaimFollowsConfig'
    BY <1>1, <1>2, <2>1 DEF ListenerInv, ClaimFollowsConfig
  <2>. QED  BY <2>2, <2>3, <2>4 DEF ListenerInv
<1>3. CASE ~handler
  <2>1. address' = NoAddress /\ chain' = Append(chain, "stop")
    BY <1>3 DEF StopIfUnclaimed
  <2>2. /\ chain' \in Seq(Step) /\ chain' # <<>>
        /\ chain'[Len(chain')] = "stop" /\ StartsAfterStop'
    <3>1. chain \in Seq(Step) /\ StopsFirst(chain, port)
      BY DEF ListenerInv, ListenerTyped, StartsAfterStop
    <3>. QED  BY <1>1, <2>1, <3>1, StopAdded DEF StartsAfterStop
  <2>3. ListenerTyped'
    BY <1>1, <2>1, <2>2 DEF ListenerInv, ListenerTyped
  <2>4. ChainEndsAtClaim'
    BY <2>1, <2>2 DEF ChainEndsAtClaim
  <2>5. ClaimFollowsConfig'
    BY <1>1, <1>3, <2>1 DEF ClaimFollowsConfig
  <2>. QED  BY <2>2, <2>3, <2>4, <2>5 DEF ListenerInv
<1>. QED  BY <1>2, <1>3

\* listen or release, in a turn
LEMMA ModuleCallKeeps == ASSUME ListenerInv, ModuleCall PROVE ListenerInv'
<1>1. /\ turn # <<>> /\ turn' = Tail(turn) /\ turn' \in Seq(Call)
      /\ UNCHANGED <<config, taken, port>> /\ config.address \in Addresses \cup {NoAddress}
  BY Shorter, ConfigTyped DEF ModuleCall, Listen, Release, netVars, ListenerInv, ListenerTyped
<1>2. CASE Release
  <2>1. handler' = FALSE /\ unclaimed' = unclaimed + 1 /\ UNCHANGED <<address, chain>>
    BY <1>2 DEF Release, netVars
  <2>2. ListenerTyped'
    <3>1. unclaimed \in Nat
      BY DEF ListenerInv, ListenerTyped
    <3>2. unclaimed' \in Nat
      BY <2>1, <3>1
    <3>3. handler' \in BOOLEAN
      BY <2>1
    <3>. QED  BY <1>1, <2>1, <3>2, <3>3 DEF ListenerInv, ListenerTyped
  <2>3. StartsAfterStop' /\ ChainEndsAtClaim'
    BY <1>1, <2>1 DEF ListenerInv, StartsAfterStop, StopsFirst, ChainEndsAtClaim
  <2>4. ClaimFollowsConfig'
    BY <2>1 DEF ListenerInv, ListenerTyped, ClaimFollowsConfig
  <2>. QED  BY <2>2, <2>3, <2>4 DEF ListenerInv
<1>3. CASE config.address # NoAddress /\ Listen(config.address)
  <2>. DEFINE a == config.address
  <2>1. a \in Addresses /\ a # "stop" /\ handler' = TRUE /\ address' = a /\ unclaimed' = unclaimed
    BY <1>1, <1>3, WebhookAssumption DEF Listen
  <2>2. ClaimFollowsConfig'
    BY <1>1, <1>3, <2>1 DEF ClaimFollowsConfig
  <2>3. CASE address = a
    <3>1. UNCHANGED <<address, chain>>
      BY <1>3, <2>3 DEF Listen
    <3>2. ListenerTyped'
      BY <1>1, <2>1, <3>1 DEF ListenerInv, ListenerTyped
    <3>3. StartsAfterStop' /\ ChainEndsAtClaim'
      BY <1>1, <3>1 DEF ListenerInv, StartsAfterStop, StopsFirst, ChainEndsAtClaim
    <3>. QED  BY <2>2, <3>2, <3>3 DEF ListenerInv
  <2>4. CASE address # a
    <3>1. chain' = chain \o <<"stop", a>>
      BY <1>3, <2>4 DEF Listen
    <3>2. /\ chain' \in Seq(Step) /\ chain' # <<>>
          /\ chain'[Len(chain')] = a /\ StartsAfterStop'
      <4>1. chain \in Seq(Step) /\ StopsFirst(chain, port) /\ a \in Step
        BY <2>1 DEF Step, ListenerInv, ListenerTyped, StartsAfterStop
      <4>. HIDE DEF a
      <4>. QED  BY <1>1, <3>1, <4>1, ClaimAdded DEF StartsAfterStop
    <3>3. ListenerTyped'
      BY <1>1, <2>1, <3>2 DEF ListenerInv, ListenerTyped
    <3>4. ChainEndsAtClaim'
      BY <2>1, <3>2 DEF ChainEndsAtClaim
    <3>. QED  BY <2>2, <3>2, <3>3, <3>4 DEF ListenerInv
  <2>. QED  BY <2>3, <2>4
<1>. QED  BY <1>2, <1>3 DEF ModuleCall

LEMMA ReloadAllKeeps == ASSUME ListenerInv, ReloadAll PROVE ListenerInv'
<1>1. /\ config' \in Configs /\ UNCHANGED <<taken, handler, address, port, chain, unclaimed>>
  BY DEF ReloadAll, netVars
<1>2. PICK n \in 0..Cardinality(Servers), before \in {<<>>, <<"unload">>} :
        /\ before = <<>> => ~handler
        /\ turn' = before \o Inits(n)
  BY DEF ReloadAll
<1>3. Inits(n) \in Seq(Call) /\ before \in Seq(Call)
  <2>1. n \in Nat
    BY ServersCounted
  <2>2. <<>> \in Seq(Call) /\ <<"unload">> \in Seq(Call)
    BY DEF Call
  <2>. QED  BY <2>1, <2>2, InitsTyped
<1>4. turn' \in Seq(Call) /\ (turn' = <<>> => before = <<>>)
  BY <1>2, <1>3
<1>5. ListenerTyped'
  BY <1>1, <1>4 DEF ListenerInv, ListenerTyped
<1>6. StartsAfterStop' /\ ChainEndsAtClaim'
  BY <1>1 DEF ListenerInv, StartsAfterStop, StopsFirst, ChainEndsAtClaim
<1>7. ClaimFollowsConfig'
  BY <1>1, <1>2, <1>4 DEF ListenerInv, ClaimFollowsConfig
<1>. QED  BY <1>5, <1>6, <1>7 DEF ListenerInv

LEMMA ListenerStays ==
  ASSUME ListenerInv, UNCHANGED <<config, taken, handler, address, port, chain, unclaimed>>,
         UNCHANGED turn \/ turn' = <<"init">>
  PROVE  ListenerInv'
<1>1. ListenerTyped'
  <2>1. <<"init">> \in Seq(Call)
    BY DEF Call
  <2>. QED  BY <2>1 DEF ListenerInv, ListenerTyped
<1>2. StartsAfterStop' /\ ChainEndsAtClaim'
  BY DEF ListenerInv, StartsAfterStop, StopsFirst, ChainEndsAtClaim
<1>3. ClaimFollowsConfig'
  BY DEF ListenerInv, ClaimFollowsConfig
<1>. QED  BY <1>1, <1>2, <1>3 DEF ListenerInv

LEMMA ListenerNext == ListenerInv /\ [Next]_vars => ListenerInv'
<1>. SUFFICES ASSUME ListenerInv, [Next]_vars PROVE ListenerInv'
  OBVIOUS
<1>1. CASE OperatorReloads \/ \E e \in Threads : EventReloads(e)
  <2>1. CASE ReloadAll
    BY <2>1, ReloadAllKeeps
  <2>2. CASE ReloadRaises
    BY <2>2, ListenerStays DEF ReloadRaises, netVars
  <2>. QED  BY <1>1, <2>1, <2>2 DEF OperatorReloads, EventReloads
<1>2. CASE ReloadOwn \/ \E a \in Addresses : Closed(a)
  BY <1>2, ListenerStays DEF ReloadOwn, Closed, netVars
<1>3. CASE \/ \E r \in Request : Receive(r)
           \/ \E i \in Ids : Dispatch(i)
           \/ \E e \in Threads : Handle(e)
  BY <1>3, ListenerStays DEF Receive, Dispatch, Handle, netVars
<1>4. CASE UNCHANGED vars
  BY <1>4, ListenerStays DEF vars, netVars
<1>. QED  BY <1>1, <1>2, <1>3, <1>4, StopPortKeeps, StartPortKeeps, StopIfUnclaimedKeeps,
             ModuleCallKeeps DEF Next

\* Whatever order claims, releases, closes and late _stop_if_unclaimed calls come in, once
\* nothing is under way the port listens where the options of the last load say if the
\* module is loaded and the address is free, and nowhere otherwise (listen, release).
THEOREM ListensWhereClaimed == Spec => []PortFollowsClaim
<1>1. ListenerInv => PortFollowsClaim
  BY DEF ListenerInv, ListenerTyped, ChainEndsAtClaim, ClaimFollowsConfig, PortFollowsClaim, Settled
<1>. QED  BY <1>1, ListenerInit, ListenerNext, PTL DEF Spec

----------------------------------------------------------------------------
(* Reload events.                                                          *)

Records == [proof : Hooks \cup {NoHook}, authorized : BOOLEAN]
Work == Servers \X Nat \X Nat

\* the requests, and the generations their events were handed to
Marks == seen \cup {<<e[3], e[2]>> : e \in events \cup asked}

\* Each request is posted once and dispatched to one generation, so that one thread finds
\* it unseen: what waits to reload, and what has, was seen, and each but once.
EventInv ==
  /\ requests \in Seq(Records) /\ reloads \in Seq(Nat) /\ gen \in Nat
  /\ events \subseteq Work /\ asked \subseteq Work /\ seen \subseteq Nat \X Nat
  /\ \A i \in 1..Len(requests) : requests[i].authorized => requests[i].proof = ReloadHook
  /\ posted \subseteq 1..Len(requests)
  /\ \A g, i : <<g, i>> \in Marks => i \in 1..Len(requests) /\ i \notin posted
  /\ \A g, h, i : <<g, i>> \in Marks /\ <<h, i>> \in Marks => g = h
  /\ \A e \in asked : requests[e[2]].authorized /\ <<e[3], e[2]>> \in seen
  /\ \A e, f \in asked : e[2] = f[2] => e = f
  /\ \A n \in 1..Len(reloads) : /\ \E g : <<g, reloads[n]>> \in seen
                                /\ requests[reloads[n]].authorized
                                /\ \A e \in asked : e[2] # reloads[n]
  /\ \A m, n \in 1..Len(reloads) : reloads[m] = reloads[n] => m = n

LEMMA EventInit == Init => EventInv
BY DEF Init, EventInv, Marks

LEMMA EventsStay == ASSUME EventInv, UNCHANGED eventVars PROVE EventInv'
BY DEF EventInv, Marks, eventVars

\* _postEvent's events are those of a request nobody handled.
LEMMA DispatchKeeps == ASSUME EventInv, NEW i \in Ids, Dispatch(i) PROVE EventInv'
<1>1. /\ i \in posted /\ posted' = posted \ {i} /\ events' = events \cup (Servers \X {i} \X {gen})
      /\ UNCHANGED <<gen, requests, seen, asked, reloads>> /\ i \in Nat /\ gen \in Nat
  BY DEF Dispatch, Ids, EventInv
<1>2. Servers \X {i} \X {gen} \subseteq Work
  BY <1>1 DEF Work
<1>3. \A e \in Servers \X {i} \X {gen} : e[2] = i /\ e[3] = gen
  OBVIOUS
<1>4. \A g, j : <<g, j>> \in Marks' => <<g, j>> \in Marks \/ (g = gen /\ j = i)
  BY <1>1, <1>3 DEF Marks
<1>5. \A g : <<g, i>> \notin Marks
  BY <1>1 DEF EventInv
<1>6. \A g, j : <<g, j>> \in Marks' => j \in 1..Len(requests) /\ j \notin posted'
  BY <1>1, <1>4 DEF EventInv
<1>7. \A g, h, j : <<g, j>> \in Marks' /\ <<h, j>> \in Marks' => g = h
  BY <1>4, <1>5 DEF EventInv
<1>. QED  BY <1>1, <1>2, <1>6, <1>7 DEF EventInv

\* The first thread of a request to be seen asks for the reload, the others do not.
LEMMA HandleKeeps == ASSUME EventInv, NEW e \in Threads, Handle(e) PROVE EventInv'
<1>1. /\ e \in events /\ e \in Work /\ events' = events \ {e}
      /\ UNCHANGED <<gen, requests, posted, reloads>>
  BY DEF Handle, EventInv
<1>2. <<e[3], e[2]>> \in Nat \X Nat /\ <<e[3], e[2]>> \in Marks
  BY <1>1 DEF Work, Marks
<1>3. Marks' \subseteq Marks
  BY <1>1, <1>2 DEF Handle, Marks
<1>4. CASE UNCHANGED <<asked, seen>>
  BY <1>1, <1>3, <1>4 DEF EventInv
<1>5. CASE /\ requests[e[2]].authorized /\ <<e[3], e[2]>> \notin seen
           /\ asked' = asked \cup {e} /\ seen' = seen \cup {<<e[3], e[2]>>}
  <2>1. \A g : <<g, e[2]>> \in seen => g = e[3]
    BY <1>2 DEF EventInv, Marks
  <2>2. \A g : <<g, e[2]>> \notin seen
    BY <1>5, <2>1
  <2>3. \A f \in asked : f[2] # e[2]
    BY <2>2 DEF EventInv
  <2>4. \A n \in 1..Len(reloads) : reloads[n] # e[2]
    BY <2>2 DEF EventInv
  <2>5. \A f, d \in asked' : f[2] = d[2] => f = d
    BY <1>5, <2>3 DEF EventInv
  <2>6. \A f \in asked' : requests[f[2]].authorized /\ <<f[3], f[2]>> \in seen'
    BY <1>5 DEF EventInv
  <2>7. \A n \in 1..Len(reloads) : /\ \E g : <<g, reloads[n]>> \in seen'
                                   /\ requests[reloads[n]].authorized
                                   /\ \A f \in asked' : f[2] # reloads[n]
    BY <1>5, <2>4 DEF EventInv
  <2>. QED  BY <1>1, <1>2, <1>3, <1>5, <2>5, <2>6, <2>7 DEF EventInv
<1>. QED  BY <1>4, <1>5 DEF Handle

\* What reloads was the only one that waited for its request.
LEMMA EventReloadsKeeps == ASSUME EventInv, NEW e \in Threads, EventReloads(e) PROVE EventInv'
<1>1. /\ e \in asked /\ asked' = asked \ {e} /\ reloads' = Append(reloads, e[2])
      /\ (gen' = gen + 1 \/ gen' = gen) /\ UNCHANGED <<requests, posted, events, seen>>
  BY DEF EventReloads, ReloadAll, ReloadRaises
<1>2. e[2] \in Nat /\ reloads \in Seq(Nat) /\ gen' \in Nat
  BY <1>1 DEF EventInv, Work
<1>3. /\ reloads' \in Seq(Nat) /\ Len(reloads) \in Nat /\ Len(reloads') = Len(reloads) + 1
      /\ reloads'[Len(reloads) + 1] = e[2] /\ \A n \in 1..Len(reloads) : reloads'[n] = reloads[n]
      /\ \A n \in 1..Len(reloads') : n \in 1..Len(reloads) \/ n = Len(reloads) + 1
  BY <1>1, <1>2
<1>4. Marks' \subseteq Marks
  BY <1>1 DEF Marks
<1>5. \A n \in 1..Len(reloads) : reloads[n] # e[2]
  BY <1>1 DEF EventInv
<1>6. \A f \in asked' : f \in asked /\ f[2] # e[2]
  BY <1>1 DEF EventInv
<1>7. requests[e[2]].authorized /\ <<e[3], e[2]>> \in seen
  BY <1>1 DEF EventInv
<1>8. \A n \in 1..Len(reloads') : /\ \E g : <<g, reloads'[n]>> \in seen
                                  /\ requests[reloads'[n]].authorized
                                  /\ \A f \in asked' : f[2] # reloads'[n]
  BY <1>3, <1>6, <1>7, ZenonT(40) DEF EventInv
<1>9. \A m, n \in 1..Len(reloads') : reloads'[m] = reloads'[n] => m = n
  <2>. SUFFICES ASSUME NEW m \in 1..Len(reloads'), NEW n \in 1..Len(reloads'), reloads'[m] = reloads'[n]
                PROVE  m = n
    OBVIOUS
  <2>1. CASE m \in 1..Len(reloads) /\ n \in 1..Len(reloads)
    BY <1>3, <2>1 DEF EventInv
  <2>2. CASE m \notin 1..Len(reloads) \/ n \notin 1..Len(reloads)
    BY <1>3, <1>5, <2>2
  <2>. QED  BY <2>1, <2>2
<1>. QED  BY <1>1, <1>2, <1>3, <1>4, <1>6, <1>8, <1>9 DEF EventInv

LEMMA ReceiveKeeps == ASSUME EventInv, NEW r \in Request, Receive(r) PROVE EventInv'
<1>. DEFINE x == [proof |-> r.proof, authorized |-> Authorized(r)]
<1>1. /\ requests' = Append(requests, x) /\ posted' = posted \cup {Len(requests) + 1}
      /\ UNCHANGED <<gen, events, seen, asked, reloads>> /\ r.hook = ReloadHook
  BY DEF Receive
<1>2. x \in Records /\ (x.authorized => x.proof = ReloadHook)
  BY <1>1 DEF Records, Request, Authorized
<1>. HIDE DEF x
<1>3. /\ requests' \in Seq(Records) /\ Len(requests) \in Nat /\ Len(requests') = Len(requests) + 1
      /\ requests'[Len(requests) + 1] = x
      /\ \A i \in 1..Len(requests) : requests'[i] = requests[i] /\ i \in 1..Len(requests')
      /\ \A i \in 1..Len(requests') : i \in 1..Len(requests) \/ i = Len(requests) + 1
      /\ Len(requests) + 1 \in 1..Len(requests') /\ Len(requests) + 1 \notin 1..Len(requests)
  BY <1>1, <1>2 DEF EventInv
<1>4. Marks' = Marks
  BY <1>1 DEF Marks
<1>5. \A i \in 1..Len(requests') : requests'[i].authorized => requests'[i].proof = ReloadHook
  <2>1. \A i \in 1..Len(requests) : requests[i].authorized => requests[i].proof = ReloadHook
    BY DEF EventInv
  <2>. QED  BY <1>2, <1>3, <2>1
<1>6. posted' \subseteq 1..Len(requests')
  BY <1>1, <1>3 DEF EventInv
<1>7. \A g, i : <<g, i>> \in Marks' => i \in 1..Len(requests') /\ i \notin posted'
  BY <1>1, <1>3, <1>4 DEF EventInv
<1>8. \A g, i : <<g, i>> \in seen => requests'[i] = requests[i]
  BY <1>3 DEF EventInv, Marks
<1>9. \A e \in asked : requests'[e[2]].authorized
  BY <1>8 DEF EventInv
<1>10. \A n \in 1..Len(reloads) : requests'[reloads[n]].authorized
  BY <1>8 DEF EventInv
<1>. QED  BY <1>1, <1>3, <1>4, <1>5, <1>6, <1>7, <1>9, <1>10 DEF EventInv

LEMMA EventNext == EventInv /\ [Next]_vars => EventInv'
<1>. SUFFICES ASSUME EventInv, [Next]_vars PROVE EventInv'
  OBVIOUS
<1>1. CASE \/ StopPort \/ StartPort \/ StopIfUnclaimed \/ ModuleCall \/ ReloadOwn
           \/ \E a \in Addresses : Closed(a)
           \/ UNCHANGED vars
  BY <1>1, EventsStay DEF StopPort, StartPort, StopIfUnclaimed, ModuleCall, ReloadOwn, Closed, vars
<1>2. CASE OperatorReloads
  <2>1. gen' = gen + 1 /\ UNCHANGED <<requests, posted, events, seen, asked, reloads>>
    BY <1>2 DEF OperatorReloads, ReloadAll
  <2>2. gen' \in Nat /\ Marks' = Marks
    BY <2>1 DEF EventInv, Marks
  <2>. QED  BY <2>1, <2>2 DEF EventInv
<1>. QED  BY <1>1, <1>2, DispatchKeeps, HandleKeeps, EventReloadsKeeps, ReceiveKeeps DEF Next

\* However many servers' threads handle an event, and whatever generation of the module
\* they belong to, it reloads the bot once, and only if it proved to know the reload
\* hook's secret (reload_event with _seen_events, is_authorized).
THEOREM ReloadsOnce == Spec => []OneReloadPerRequest
<1>1. EventInv => OneReloadPerRequest
  <2>. SUFFICES ASSUME EventInv PROVE OneReloadPerRequest
    OBVIOUS
  <2>1. DOMAIN reloads = 1..Len(reloads)
    BY DEF EventInv
  <2>2. \A n \in 1..Len(reloads) : reloads[n] \in 1..Len(requests) /\ requests[reloads[n]].authorized
    BY DEF EventInv, Marks
  <2>3. \A n \in 1..Len(reloads) : requests[reloads[n]].proof = ReloadHook
    BY <2>2 DEF EventInv
  <2>4. IsInjective(reloads)
    BY <2>1 DEF EventInv, IsInjective
  <2>. QED  BY <2>1, <2>3, <2>4 DEF OneReloadPerRequest
<1>. QED  BY <1>1, EventInit, EventNext, PTL DEF Spec
============================================================================
