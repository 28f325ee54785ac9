------------------------------ MODULE BbmProofs ------------------------------
(***************************************************************************)
(* Proofs about Bbm and CodexTurn, for any number of lines, turns, replies    *)
(* and frames: a turn's answer is whole, conversations are sound, and a       *)
(* muted channel is left alone.                                              *)
(***************************************************************************)
EXTENDS Bbm, SequenceTheorems, FiniteSetTheorems, FunctionTheorems, TLAPS

----------------------------------------------------------------------------
(* Messages on their way.                                                  *)

Msgs == [kind : {"none", "result", "refusal", "item", "other", "completed", "fatal"}, n : Nat]
Frames == [op : {"text", "more", "ping", "close"}, fin : BOOLEAN, msg : Msgs]
Client == [phase : {"idle", "call", "drain", "read", "done", "failed"}, call : Nat, open : BOOLEAN,
           pending : Seq(Msgs), texts : Seq(Nat), late : BOOLEAN]
Server == [frames : Seq(Frames), answered : Nat, said : Seq(Nat), over : BOOLEAN,
           completed : BOOLEAN]

\* Of L messages T, the items are those after a up to m, in order, and no item comes
\* after the end of the turn, if that is among them.
Ordered(L, T, a, m, c) ==
  /\ a <= m
  /\ \A k \in 1..L : T[k].kind = "item" => a < T[k].n /\ T[k].n <= m
  /\ \A n \in (a + 1)..m : \E k \in 1..L : T[k].kind = "item" /\ T[k].n = n
  /\ \A j, k \in 1..L : j < k /\ T[j].kind = "item" /\ T[k].kind = "item" => T[j].n < T[k].n
  /\ \A k \in 1..L : T[k].kind = "completed" => c /\ \A j \in 1..L : j > k => T[j].kind # "item"

LEMMA OrderedSame ==
  ASSUME NEW L \in Nat, NEW T, NEW U, NEW a, NEW m, NEW c, Ordered(L, T, a, m, c),
         \A k \in 1..L : U[k] = T[k]
  PROVE  Ordered(L, U, a, m, c)
BY DEF Ordered

\* A message that is no item goes where it likes, before the end of the turn or after it.
LEMMA OrderedGrows ==
  ASSUME NEW L \in Nat, NEW T, NEW U, NEW a, NEW m, NEW c, NEW d, Ordered(L, T, a, m, c),
         \A k \in 1..L : U[k] = T[k], U[L + 1].kind # "item", c => d, U[L + 1].kind = "completed" => d
  PROVE  Ordered(L + 1, U, a, m, d)
<1>1. \A k \in 1..(L + 1) : k \in 1..L \/ k = L + 1
  OBVIOUS
<1>2. \A k \in 1..L : k \in 1..(L + 1) /\ ~(k > L + 1)
  OBVIOUS
<1>. QED  BY <1>1, <1>2 DEF Ordered

\* The next item comes after all others while the turn goes on.
LEMMA OrderedItem ==
  ASSUME NEW L \in Nat, NEW T, NEW U, NEW a \in Nat, NEW m \in Nat, Ordered(L, T, a, m, FALSE),
         \A k \in 1..L : U[k] = T[k], U[L + 1].kind = "item", U[L + 1].n = m + 1,
         \A k \in 1..L : T[k].n \in Nat
  PROVE  Ordered(L + 1, U, a, m + 1, FALSE)
<1>1. \A k \in 1..(L + 1) : k \in 1..L \/ k = L + 1
  OBVIOUS
<1>2. \A k \in 1..L : k \in 1..(L + 1) /\ k < L + 1 /\ ~(L + 1 < k)
  OBVIOUS
<1>3. L + 1 \in 1..(L + 1) /\ ~(L + 1 < L + 1)
  OBVIOUS
<1>4. \A k \in 1..(L + 1) : U[k].kind = "item" => a < U[k].n /\ U[k].n <= m + 1
  BY <1>1 DEF Ordered
<1>5. ASSUME NEW n \in (a + 1)..(m + 1) PROVE \E k \in 1..(L + 1) : U[k].kind = "item" /\ U[k].n = n
  <2>1. CASE n = m + 1
    BY <1>3, <2>1
  <2>2. CASE n # m + 1
    <3>1. n \in (a + 1)..m
      BY <2>2
    <3>. QED  BY <1>2, <3>1 DEF Ordered
  <2>. QED  BY <2>1, <2>2
<1>6. ASSUME NEW j \in 1..(L + 1), NEW k \in 1..(L + 1), j < k, U[j].kind = "item", U[k].kind = "item"
      PROVE  U[j].n < U[k].n
  <2>1. j \in 1..L
    BY <1>6
  <2>2. CASE k \in 1..L
    BY <1>6, <2>1, <2>2 DEF Ordered
  <2>3. CASE k = L + 1
    <3>1. T[j].n <= m /\ T[j].n \in Nat
      BY <1>6, <2>1 DEF Ordered
    <3>. QED  BY <2>1, <2>3, <3>1
  <2>. QED  BY <1>1, <2>2, <2>3
<1>7. \A k \in 1..(L + 1) : U[k].kind # "completed"
  BY <1>1 DEF Ordered
<1>. QED  BY <1>4, <1>5, <1>6, <1>7 DEF Ordered

\* A message that is no item may go.
LEMMA OrderedDrops ==
  ASSUME NEW L \in Nat, NEW d \in 1..L, NEW T, NEW U, NEW a, NEW m, NEW c, Ordered(L, T, a, m, c),
         T[d].kind # "item", \A k \in 1..(L - 1) : U[k] = IF k < d THEN T[k] ELSE T[k + 1]
  PROVE  Ordered(L - 1, U, a, m, c)
<1>. DEFINE at(k) == IF k < d THEN k ELSE k + 1
<1>1. \A k \in 1..(L - 1) : at(k) \in 1..L /\ U[k] = T[at(k)]
  OBVIOUS
<1>2. \A j, k \in 1..(L - 1) : j < k => at(j) < at(k)
  OBVIOUS
<1>3. ASSUME NEW k \in 1..L, T[k].kind = "item" PROVE \E j \in 1..(L - 1) : k = at(j)
  <2>1. CASE k < d
    <3>1. k \in 1..(L - 1) /\ k = at(k)
      BY <2>1
    <3>. QED  BY <3>1
  <2>2. CASE k > d
    <3>1. k - 1 \in 1..(L - 1) /\ k = at(k - 1)
      BY <2>2
    <3>. QED  BY <3>1
  <2>. QED  BY <1>3, <2>1, <2>2
<1>. HIDE DEF at
<1>4. \A k \in 1..(L - 1) : U[k].kind = "item" => a < U[k].n /\ U[k].n <= m
  BY <1>1 DEF Ordered
<1>5. ASSUME NEW n \in (a + 1)..m PROVE \E k \in 1..(L - 1) : U[k].kind = "item" /\ U[k].n = n
  <2>1. PICK k \in 1..L : T[k].kind = "item" /\ T[k].n = n
    BY DEF Ordered
  <2>. QED  BY <1>1, <1>3, <2>1
<1>6. \A j, k \in 1..(L - 1) : j < k /\ U[j].kind = "item" /\ U[k].kind = "item" => U[j].n < U[k].n
  BY <1>1, <1>2 DEF Ordered
<1>7. ASSUME NEW k \in 1..(L - 1), U[k].kind = "completed"
      PROVE  c /\ \A j \in 1..(L - 1) : j > k => U[j].kind # "item"
  <2>1. T[at(k)].kind = "completed" /\ at(k) \in 1..L
    BY <1>1, <1>7
  <2>2. c /\ \A j \in 1..L : j > at(k) => T[j].kind # "item"
    BY <2>1 DEF Ordered
  <2>3. \A j \in 1..(L - 1) : j > k => at(j) > at(k)
    BY <1>2
  <2>. QED  BY <1>1, <2>2, <2>3
<1>. QED  BY <1>4, <1>5, <1>6, <1>7 DEF Ordered

\* The first message, if it is an item, is the next one; and if it ends the turn, all items
\* have been taken.
LEMMA OrderedTakes ==
  ASSUME NEW L \in Nat, L > 0, NEW T, NEW U, NEW a \in Nat, NEW m \in Nat, NEW c, Ordered(L, T, a, m, c),
         \A k \in 1..L : T[k].n \in Nat, \A k \in 1..(L - 1) : U[k] = T[k + 1]
  PROVE  /\ T[1].kind = "item" => T[1].n = a + 1 /\ Ordered(L - 1, U, a + 1, m, c)
         /\ T[1].kind # "item" => Ordered(L - 1, U, a, m, c)
         /\ T[1].kind = "completed" => c /\ a = m
<1>1. ASSUME T[1].kind = "item" PROVE T[1].n = a + 1 /\ Ordered(L - 1, U, a + 1, m, c)
  <2>1. 1 \in 1..L /\ a < T[1].n /\ T[1].n <= m
    BY <1>1 DEF Ordered
  <2>2. T[1].n = a + 1
    <3>1. a + 1 \in (a + 1)..m
      BY <2>1
    <3>2. PICK k \in 1..L : T[k].kind = "item" /\ T[k].n = a + 1
      BY <3>1 DEF Ordered
    <3>3. k # 1 => T[1].n < T[k].n
      BY <1>1, <2>1, <3>2 DEF Ordered
    <3>. QED  BY <2>1, <3>2, <3>3
  <2>3. \A k \in 1..(L - 1) : k + 1 \in 1..L /\ 1 < k + 1 /\ U[k] = T[k + 1]
    OBVIOUS
  <2>4. ASSUME NEW k \in 1..(L - 1), U[k].kind = "item" PROVE a + 1 < U[k].n /\ U[k].n <= m
    <3>1. PICK j \in 1..L : j = k + 1 /\ 1 < j
      BY <2>3
    <3>. QED  BY <1>1, <2>1, <2>2, <2>4, <3>1 DEF Ordered
  <2>5. ASSUME NEW n \in (a + 2)..m PROVE \E k \in 1..(L - 1) : U[k].kind = "item" /\ U[k].n = n
    <3>1. n \in (a + 1)..m /\ n # a + 1
      OBVIOUS
    <3>2. PICK k \in 1..L : T[k].kind = "item" /\ T[k].n = n
      BY <3>1 DEF Ordered
    <3>3. k # 1
      BY <2>2, <3>1, <3>2
    <3>4. k - 1 \in 1..(L - 1) /\ U[k - 1] = T[k]
      BY <3>3
    <3>. QED  BY <3>2, <3>4
  <2>6. ASSUME NEW j \in 1..(L - 1), NEW k \in 1..(L - 1), j < k, U[j].kind = "item", U[k].kind = "item"
        PROVE  U[j].n < U[k].n
    <3>1. PICK x \in 1..L, y \in 1..L : x = j + 1 /\ y = k + 1 /\ x < y
      BY <2>3, <2>6
    <3>. QED  BY <2>6, <3>1 DEF Ordered
  <2>7. ASSUME NEW k \in 1..(L - 1), U[k].kind = "completed"
        PROVE  c /\ \A j \in 1..(L - 1) : j > k => U[j].kind # "item"
    <3>1. PICK x \in 1..L : x = k + 1
      BY <2>3
    <3>2. c /\ \A y \in 1..L : y > x => T[y].kind # "item"
      BY <2>7, <3>1 DEF Ordered
    <3>. QED  BY <2>3, <3>1, <3>2
  <2>8. a + 1 <= m /\ (a + 1) + 1 = a + 2
    BY <2>1, <2>2
  <2>. QED  BY <2>2, <2>4, <2>5, <2>6, <2>7, <2>8 DEF Ordered
<1>2. ASSUME T[1].kind # "item" PROVE Ordered(L - 1, U, a, m, c)
  <2>1. 1 \in 1..L /\ \A k \in 1..(L - 1) : U[k] = IF k < 1 THEN T[k] ELSE T[k + 1]
    OBVIOUS
  <2>. QED  BY <1>2, <2>1, OrderedDrops
<1>3. ASSUME T[1].kind = "completed" PROVE c /\ a = m
  <2>1. 1 \in 1..L
    OBVIOUS
  <2>2. c /\ \A j \in 1..L : j > 1 => T[j].kind # "item"
    BY <1>3, <2>1 DEF Ordered
  <2>3. \A k \in 1..L : T[k].kind # "item"
    BY <1>3, <2>2
  <2>4. a < m => a + 1 \in (a + 1)..m
    OBVIOUS
  <2>. QED  BY <2>2, <2>3, <2>4 DEF Ordered
<1>. QED  BY <1>1, <1>2, <1>3

\* What is kept and what is still in frames, as one sequence of messages.
Way(pd, fr) == [k \in 1..(Len(pd) + Len(fr)) |-> IF k <= Len(pd) THEN pd[k] ELSE fr[k - Len(pd)].msg]
Fine(pd, fr, a, m, c) == Ordered(Len(pd) + Len(fr), Way(pd, fr), a, m, c)

LEMMA WayTyped ==
  ASSUME NEW pd \in Seq(Msgs), NEW fr \in Seq(Frames)
  PROVE  /\ Len(pd) \in Nat /\ Len(fr) \in Nat
         /\ \A k \in 1..(Len(pd) + Len(fr)) : Way(pd, fr)[k] \in Msgs /\ Way(pd, fr)[k].n \in Nat
<1>1. \A f \in Frames : f.msg \in Msgs
  BY DEF Frames
<1>2. \A x \in Msgs : x.n \in Nat
  BY DEF Msgs
<1>3. ASSUME NEW k \in 1..(Len(pd) + Len(fr)) PROVE Way(pd, fr)[k] \in Msgs
  <2>1. CASE k <= Len(pd)
    BY <2>1 DEF Way
  <2>2. CASE ~(k <= Len(pd))
    <3>1. k - Len(pd) \in 1..Len(fr)
      BY <2>2
    <3>. QED  BY <1>1, <2>2, <3>1 DEF Way
  <2>. QED  BY <2>1, <2>2
<1>. QED  BY <1>2, <1>3

\* One more frame.
LEMMA WayPut ==
  ASSUME NEW pd \in Seq(Msgs), NEW fr \in Seq(Frames), NEW f \in Frames
  PROVE  /\ Append(fr, f) \in Seq(Frames)
         /\ Len(pd) + Len(Append(fr, f)) = (Len(pd) + Len(fr)) + 1
         /\ \A k \in 1..(Len(pd) + Len(fr)) : Way(pd, Append(fr, f))[k] = Way(pd, fr)[k]
         /\ Way(pd, Append(fr, f))[(Len(pd) + Len(fr)) + 1] = f.msg
<1>1. /\ Append(fr, f) \in Seq(Frames) /\ Len(Append(fr, f)) = Len(fr) + 1
      /\ Len(fr) \in Nat /\ Len(pd) \in Nat
      /\ \A k \in 1..Len(fr) : Append(fr, f)[k] = fr[k]
      /\ Append(fr, f)[Len(fr) + 1] = f
  OBVIOUS
<1>. DEFINE g == Append(fr, f)
<1>. HIDE DEF g
<1>2. g \in Seq(Frames) /\ Len(g) = Len(fr) + 1 /\ (\A k \in 1..Len(fr) : g[k] = fr[k]) /\ g[Len(fr) + 1] = f
  BY <1>1 DEF g
<1>3. ASSUME NEW k \in 1..(Len(pd) + Len(fr)) PROVE Way(pd, g)[k] = Way(pd, fr)[k]
  <2>1. k \in 1..(Len(pd) + Len(g)) /\ (~(k <= Len(pd)) => k - Len(pd) \in 1..Len(fr))
    BY <1>1, <1>2
  <2>. QED  BY <1>2, <2>1 DEF Way
<1>4. Way(pd, g)[(Len(pd) + Len(fr)) + 1] = f.msg
  <2>1. (Len(pd) + Len(fr)) + 1 \in 1..(Len(pd) + Len(g)) /\ ~((Len(pd) + Len(fr)) + 1 <= Len(pd))
        /\ ((Len(pd) + Len(fr)) + 1) - Len(pd) = Len(fr) + 1
    BY <1>1, <1>2
  <2>. QED  BY <1>2, <2>1 DEF Way
<1>. QED  BY <1>1, <1>2, <1>3, <1>4 DEF g

LEMMA PutOther ==
  ASSUME NEW pd \in Seq(Msgs), NEW fr \in Seq(Frames), NEW f \in Frames, NEW a, NEW m, NEW c, NEW d,
         Fine(pd, fr, a, m, c), f.msg.kind # "item", c => d, f.msg.kind = "completed" => d
  PROVE  Append(fr, f) \in Seq(Frames) /\ Fine(pd, Append(fr, f), a, m, d)
<1>1. Len(pd) + Len(fr) \in Nat
  BY WayTyped
<1>2. /\ Append(fr, f) \in Seq(Frames) /\ Len(pd) + Len(Append(fr, f)) = (Len(pd) + Len(fr)) + 1
      /\ \A k \in 1..(Len(pd) + Len(fr)) : Way(pd, Append(fr, f))[k] = Way(pd, fr)[k]
      /\ Way(pd, Append(fr, f))[(Len(pd) + Len(fr)) + 1] = f.msg
  BY WayPut
<1>3. Ordered((Len(pd) + Len(fr)) + 1, Way(pd, Append(fr, f)), a, m, d)
  <2>. DEFINE L == Len(pd) + Len(fr)
              T == Way(pd, fr)
              U == Way(pd, Append(fr, f))
  <2>1. L \in Nat /\ Ordered(L, T, a, m, c) /\ (\A k \in 1..L : U[k] = T[k]) /\ U[L + 1].kind # "item"
        /\ (U[L + 1].kind = "completed" => d)
    BY <1>1, <1>2 DEF Fine
  <2>. HIDE DEF L, T, U
  <2>2. Ordered(L + 1, U, a, m, d)
    BY <2>1, OrderedGrows
  <2>. QED  BY <2>2 DEF L, U
<1>. QED  BY <1>2, <1>3 DEF Fine

LEMMA PutItem ==
  ASSUME NEW pd \in Seq(Msgs), NEW fr \in Seq(Frames), NEW f \in Frames, NEW a \in Nat, NEW m \in Nat,
         Fine(pd, fr, a, m, FALSE), f.msg.kind = "item", f.msg.n = m + 1
  PROVE  Append(fr, f) \in Seq(Frames) /\ Fine(pd, Append(fr, f), a, m + 1, FALSE)
<1>1. Len(pd) + Len(fr) \in Nat /\ \A k \in 1..(Len(pd) + Len(fr)) : Way(pd, fr)[k].n \in Nat
  BY WayTyped
<1>2. /\ Append(fr, f) \in Seq(Frames) /\ Len(pd) + Len(Append(fr, f)) = (Len(pd) + Len(fr)) + 1
      /\ \A k \in 1..(Len(pd) + Len(fr)) : Way(pd, Append(fr, f))[k] = Way(pd, fr)[k]
      /\ Way(pd, Append(fr, f))[(Len(pd) + Len(fr)) + 1] = f.msg
  BY WayPut
<1>3. Ordered((Len(pd) + Len(fr)) + 1, Way(pd, Append(fr, f)), a, m + 1, FALSE)
  BY <1>1, <1>2, OrderedItem DEF Fine
<1>. QED  BY <1>2, <1>3 DEF Fine

\* only the last frame of a message carries it
Carried(fr) == \A k \in DOMAIN fr : fr[k].msg.kind # "none" => fr[k].op \in {"text", "more"} /\ fr[k].fin

LEMMA CarriedOn ==
  ASSUME NEW fr \in Seq(Frames), NEW f \in Frames, Carried(fr),
         f.msg.kind # "none" => f.op \in {"text", "more"} /\ f.fin
  PROVE  Carried(Append(fr, f))
<1>1. /\ DOMAIN Append(fr, f) = 1..(Len(fr) + 1) /\ DOMAIN fr = 1..Len(fr) /\ Len(fr) \in Nat
      /\ \A k \in 1..Len(fr) : Append(fr, f)[k] = fr[k]
      /\ Append(fr, f)[Len(fr) + 1] = f
  OBVIOUS
<1>2. \A k \in 1..(Len(fr) + 1) : k \in 1..Len(fr) \/ k = Len(fr) + 1
  BY <1>1
<1>. QED  BY <1>1, <1>2 DEF Carried

\* A message in one frame, in two, or in two with a ping in between.
LEMMA Framed1 ==
  ASSUME NEW x \in Msgs, NEW fs \in Framings(x), NEW fr \in Seq(Frames)
  PROVE  \/ fr \o fs = Append(fr, Frame("text", TRUE, x))
         \/ fr \o fs = Append(Append(fr, Bare("text", FALSE)), Frame("more", TRUE, x))
         \/ fr \o fs = Append(Append(Append(fr, Bare("text", FALSE)), Bare("ping", TRUE)),
                             Frame("more", TRUE, x))
<1>1. /\ Bare("text", FALSE) \in Frames /\ Bare("ping", TRUE) \in Frames
      /\ Frame("text", TRUE, x) \in Frames /\ Frame("more", TRUE, x) \in Frames
  BY DEF Bare, Frame, Frames, Message, Msgs
<1>2. /\ \A f \in Frames : fr \o <<f>> = Append(fr, f)
      /\ \A f \in Frames, g \in Frames : fr \o <<f, g>> = Append(Append(fr, f), g)
      /\ \A f \in Frames, g \in Frames, h \in Frames : fr \o <<f, g, h>> = Append(Append(Append(fr, f), g), h)
  OBVIOUS
<1>3. CASE fs = <<Frame("text", TRUE, x)>>
  BY <1>1, <1>2, <1>3
<1>4. CASE fs = <<Bare("text", FALSE), Frame("more", TRUE, x)>>
  BY <1>1, <1>2, <1>4
<1>5. CASE fs = <<Bare("text", FALSE), Bare("ping", TRUE), Frame("more", TRUE, x)>>
  BY <1>1, <1>2, <1>5
<1>. QED  BY <1>3, <1>4, <1>5 DEF Framings

\* What a message put on its way makes of it.
LEMMA MessagePut ==
  ASSUME NEW pd \in Seq(Msgs), NEW fr \in Seq(Frames), NEW x \in Msgs, NEW fs \in Framings(x),
         NEW a \in Nat, NEW m \in Nat, NEW l \in Nat, NEW c \in BOOLEAN, NEW d \in BOOLEAN,
         Fine(pd, fr, a, m, c), Carried(fr), c => d, x.kind = "completed" => d,
         IF x.kind = "item" THEN x.n = m + 1 /\ l = m + 1 /\ ~c /\ ~d ELSE l = m
  PROVE  fr \o fs \in Seq(Frames) /\ Carried(fr \o fs) /\ Fine(pd, fr \o fs, a, l, d)
<1>1. /\ Bare("text", FALSE) \in Frames /\ Bare("ping", TRUE) \in Frames
      /\ Bare("text", FALSE).msg.kind = "none" /\ Bare("ping", TRUE).msg.kind = "none"
      /\ Frame("text", TRUE, x) \in Frames /\ Frame("more", TRUE, x) \in Frames
      /\ Frame("text", TRUE, x).msg = x /\ Frame("more", TRUE, x).msg = x
      /\ Frame("text", TRUE, x).op = "text" /\ Frame("more", TRUE, x).op = "more"
      /\ Frame("text", TRUE, x).fin /\ Frame("more", TRUE, x).fin
  BY DEF Bare, Frame, Frames, Message, Msgs
<1>2. ASSUME NEW f \in Frames, NEW g \in Seq(Frames), f.msg = x, f.op \in {"text", "more"}, f.fin,
             Fine(pd, g, a, m, c), Carried(g)
      PROVE  Append(g, f) \in Seq(Frames) /\ Carried(Append(g, f)) /\ Fine(pd, Append(g, f), a, l, d)
  <2>1. Carried(Append(g, f))
    BY <1>2, CarriedOn
  <2>2. CASE x.kind # "item"
    BY <1>2, <2>1, <2>2, PutOther
  <2>3. CASE x.kind = "item"
    <3>1. c = FALSE /\ d = FALSE /\ l = m + 1 /\ x.n = m + 1
      BY <2>3
    <3>. QED  BY <1>2, <2>1, <2>3, <3>1, PutItem
  <2>. QED  BY <2>2, <2>3
<1>3. ASSUME NEW f \in Frames, NEW g \in Seq(Frames), f.msg.kind = "none", Fine(pd, g, a, m, c), Carried(g)
      PROVE  Append(g, f) \in Seq(Frames) /\ Carried(Append(g, f)) /\ Fine(pd, Append(g, f), a, m, c)
  BY <1>3, CarriedOn, PutOther
<1>. HIDE DEF Bare, Frame
<1>. DEFINE f1 == Append(fr, Bare("text", FALSE))
            f2 == Append(f1, Bare("ping", TRUE))
<1>4. f1 \in Seq(Frames) /\ Carried(f1) /\ Fine(pd, f1, a, m, c)
  BY <1>1, <1>3
<1>. HIDE DEF f1
<1>5. f2 \in Seq(Frames) /\ Carried(f2) /\ Fine(pd, f2, a, m, c)
  BY <1>1, <1>3, <1>4
<1>. HIDE DEF f2
<1>6. \/ fr \o fs = Append(fr, Frame("text", TRUE, x))
      \/ fr \o fs = Append(f1, Frame("more", TRUE, x))
      \/ fr \o fs = Append(f2, Frame("more", TRUE, x))
  BY Framed1 DEF f1, f2
<1>. QED  BY <1>1, <1>2, <1>4, <1>5, <1>6
LEMMA Tails ==
  ASSUME NEW S, NEW s \in Seq(S), s # <<>>
  PROVE  /\ Len(s) \in Nat /\ Len(s) > 0 /\ Head(s) = s[1] /\ Head(s) \in S /\ 1 \in 1..Len(s)
         /\ Tail(s) \in Seq(S) /\ Len(Tail(s)) = Len(s) - 1
         /\ \A k \in 1..(Len(s) - 1) : Tail(s)[k] = s[k + 1]
OBVIOUS

LEMMA CarriedTail ==
  ASSUME NEW fr \in Seq(Frames), fr # <<>>, Carried(fr)
  PROVE  /\ Carried(Tail(fr))
         /\ Head(fr).msg.kind # "none" => Head(fr).op \in {"text", "more"} /\ Head(fr).fin
<1>1. /\ Len(fr) \in Nat /\ Len(fr) > 0 /\ Head(fr) = fr[1] /\ 1 \in 1..Len(fr)
      /\ Tail(fr) \in Seq(Frames) /\ Len(Tail(fr)) = Len(fr) - 1
      /\ \A k \in 1..(Len(fr) - 1) : Tail(fr)[k] = fr[k + 1]
  BY Tails
<1>2. DOMAIN Tail(fr) = 1..(Len(fr) - 1) /\ DOMAIN fr = 1..Len(fr)
  BY <1>1
<1>3. \A k \in 1..(Len(fr) - 1) : k + 1 \in 1..Len(fr)
  BY <1>1
<1>. QED  BY <1>1, <1>2, <1>3 DEF Carried

\* A frame that carries no item goes.
LEMMA FrameGoes ==
  ASSUME NEW pd \in Seq(Msgs), NEW fr \in Seq(Frames), fr # <<>>, NEW a, NEW m, NEW c,
         Fine(pd, fr, a, m, c), Head(fr).msg.kind # "item"
  PROVE  Fine(pd, Tail(fr), a, m, c)
<1>. DEFINE P == Len(pd)
            F == Len(fr)
            g == Tail(fr)
<1>1. /\ F \in Nat /\ F > 0 /\ Head(fr) = fr[1] /\ P \in Nat
      /\ g \in Seq(Frames) /\ Len(g) = F - 1
      /\ \A k \in 1..(F - 1) : g[k] = fr[k + 1]
  BY Tails
<1>. HIDE DEF g
<1>2. P + F \in Nat /\ P + 1 \in 1..(P + F) /\ P + Len(g) = (P + F) - 1
  BY <1>1
<1>3. Way(pd, fr)[P + 1] = fr[1].msg
  BY <1>1, <1>2 DEF Way
<1>4. ASSUME NEW k \in 1..((P + F) - 1)
      PROVE  Way(pd, g)[k] = IF k < P + 1 THEN Way(pd, fr)[k] ELSE Way(pd, fr)[k + 1]
  <2>1. /\ k \in 1..(P + Len(g)) /\ k \in 1..(P + F) /\ k + 1 \in 1..(P + F)
        /\ (k < P + 1 <=> k <= P) /\ ~(k + 1 <= P /\ ~(k <= P))
    BY <1>1
  <2>2. CASE k <= P
    BY <2>1, <2>2 DEF Way
  <2>3. CASE ~(k <= P)
    <3>1. k - P \in 1..(F - 1) /\ (k - P) + 1 = (k + 1) - P /\ ~(k + 1 <= P)
      BY <1>1, <2>3
    <3>2. Way(pd, g)[k] = g[k - P].msg /\ Way(pd, fr)[k + 1] = fr[(k + 1) - P].msg
      BY <2>1, <2>3, <3>1 DEF Way
    <3>. QED  BY <1>1, <2>1, <2>3, <3>1, <3>2
  <2>. QED  BY <2>2, <2>3
<1>5. Way(pd, fr)[P + 1].kind # "item" /\ Ordered(P + F, Way(pd, fr), a, m, c)
  BY <1>1, <1>3 DEF Fine
<1>. DEFINE T == Way(pd, fr)
            U == Way(pd, g)
            L == P + F
            d == P + 1
<1>6. /\ L \in Nat /\ d \in 1..L /\ Ordered(L, T, a, m, c) /\ T[d].kind # "item"
      /\ \A k \in 1..(L - 1) : U[k] = IF k < d THEN T[k] ELSE T[k + 1]
  BY <1>2, <1>4, <1>5
<1>. HIDE DEF T, U, L, d
<1>7. Ordered(L - 1, U, a, m, c)
  BY <1>6, OrderedDrops
<1>. QED  BY <1>2, <1>7 DEF Fine, L, U, g

\* A message that is no answer to the call is kept.
LEMMA FrameKept ==
  ASSUME NEW pd \in Seq(Msgs), NEW fr \in Seq(Frames), fr # <<>>, NEW a, NEW m, NEW c,
         Fine(pd, fr, a, m, c)
  PROVE  Fine(Append(pd, Head(fr).msg), Tail(fr), a, m, c)
<1>. DEFINE P == Len(pd)
            F == Len(fr)
            g == Tail(fr)
            q == Append(pd, Head(fr).msg)
<1>1. /\ F \in Nat /\ F > 0 /\ Head(fr) = fr[1] /\ P \in Nat
      /\ g \in Seq(Frames) /\ Len(g) = F - 1
      /\ \A k \in 1..(F - 1) : g[k] = fr[k + 1]
  BY Tails
<1>2. Len(q) = P + 1 /\ (\A k \in 1..P : q[k] = pd[k]) /\ q[P + 1] = fr[1].msg
  BY <1>1
<1>. HIDE DEF g, q
<1>3. Len(q) + Len(g) = P + F /\ P + F \in Nat
  BY <1>1, <1>2
<1>4. ASSUME NEW k \in 1..(P + F) PROVE Way(q, g)[k] = Way(pd, fr)[k]
  <2>1. CASE k <= P
    BY <1>1, <1>2, <1>3, <2>1 DEF Way
  <2>2. CASE k = P + 1
    BY <1>1, <1>2, <1>3, <2>2 DEF Way
  <2>3. CASE k > P + 1
    <3>1. k - (P + 1) \in 1..(F - 1) /\ (k - (P + 1)) + 1 = k - P /\ ~(k <= P) /\ ~(k <= P + 1)
      BY <1>1, <2>3
    <3>2. Way(q, g)[k] = g[k - (P + 1)].msg /\ Way(pd, fr)[k] = fr[k - P].msg
      BY <1>2, <1>3, <3>1 DEF Way
    <3>. QED  BY <1>1, <3>1, <3>2
  <2>. QED  BY <1>1, <2>1, <2>2, <2>3
<1>5. Ordered(P + F, Way(pd, fr), a, m, c)
  BY DEF Fine
<1>6. Ordered(P + F, Way(q, g), a, m, c)
  BY <1>3, <1>4, <1>5, OrderedSame
<1>. QED  BY <1>3, <1>6 DEF Fine, g, q

\* What taking the first message, x, does: of the rest, W is what is on its way.
TakenOf(x, pd, fr, a, m, c) ==
  /\ x.kind = "item" => x.n = a + 1 /\ Fine(pd, fr, a + 1, m, c)
  /\ x.kind # "item" => Fine(pd, fr, a, m, c)
  /\ x.kind = "completed" => c /\ a = m

LEMMA FrameTaken ==
  ASSUME NEW fr \in Seq(Frames), fr # <<>>, NEW a \in Nat, NEW m \in Nat, NEW c, Fine(<<>>, fr, a, m, c)
  PROVE  TakenOf(Head(fr).msg, <<>>, Tail(fr), a, m, c)
<1>. DEFINE F == Len(fr)
            g == Tail(fr)
            T == Way(<<>>, fr)
            U == Way(<<>>, g)
<1>1. /\ F \in Nat /\ F > 0 /\ Head(fr) = fr[1] /\ 1 \in 1..F
      /\ g \in Seq(Frames) /\ Len(g) = F - 1
      /\ \A k \in 1..(F - 1) : g[k] = fr[k + 1]
  BY Tails
<1>2. <<>> \in Seq(Msgs) /\ Len(<<>>) = 0 /\ 0 + F = F /\ 0 + (F - 1) = F - 1
  BY <1>1
<1>3. \A k \in 1..F : T[k].n \in Nat
  BY <1>2, WayTyped
<1>. HIDE DEF g
<1>4. \A k \in 1..F : T[k] = fr[k].msg
  BY <1>1, <1>2 DEF Way
<1>5. \A k \in 1..(F - 1) : U[k] = g[k].msg
  BY <1>1, <1>2 DEF Way
<1>6. \A k \in 1..(F - 1) : U[k] = T[k + 1]
  BY <1>1, <1>4, <1>5
<1>7. Ordered(F, T, a, m, c) /\ T[1] = Head(fr).msg
  BY <1>1, <1>2, <1>4 DEF Fine
<1>. HIDE DEF F, T, U
<1>8. F \in Nat /\ F > 0
  BY <1>1
<1>9. Ordered(F, T, a, m, c)
  BY <1>7
<1>10. /\ T[1].kind = "item" => T[1].n = a + 1 /\ Ordered(F - 1, U, a + 1, m, c)
       /\ T[1].kind # "item" => Ordered(F - 1, U, a, m, c)
       /\ T[1].kind = "completed" => c /\ a = m
  BY <1>3, <1>6, <1>8, <1>9, OrderedTakes
<1>. QED  BY <1>1, <1>2, <1>7, <1>10 DEF Fine, TakenOf, F, U, g

LEMMA PendingTaken ==
  ASSUME NEW pd \in Seq(Msgs), pd # <<>>, NEW fr \in Seq(Frames), NEW a \in Nat, NEW m \in Nat, NEW c,
         Fine(pd, fr, a, m, c)
  PROVE  TakenOf(Head(pd), Tail(pd), fr, a, m, c)
<1>. DEFINE P == Len(pd)
            F == Len(fr)
            q == Tail(pd)
            L == P + F
            T == Way(pd, fr)
            U == Way(q, fr)
<1>1. /\ P \in Nat /\ P > 0 /\ Head(pd) = pd[1] /\ F \in Nat
      /\ q \in Seq(Msgs) /\ Len(q) = P - 1
      /\ \A k \in 1..(P - 1) : q[k] = pd[k + 1]
  BY Tails
<1>2. L \in Nat /\ L > 0 /\ Len(q) + F = L - 1 /\ \A k \in 1..L : T[k].n \in Nat
  BY <1>1, WayTyped
<1>. HIDE DEF q
<1>3. ASSUME NEW k \in 1..(L - 1) PROVE U[k] = T[k + 1]
  <2>1. k \in 1..(Len(q) + F) /\ k + 1 \in 1..L
    BY <1>1, <1>2
  <2>2. CASE k <= P - 1
    <3>1. k \in 1..(P - 1) /\ k <= Len(q) /\ k + 1 <= P
      BY <1>1, <2>2
    <3>2. U[k] = q[k] /\ T[k + 1] = pd[k + 1]
      BY <2>1, <3>1 DEF Way
    <3>. QED  BY <1>1, <3>1, <3>2
  <2>3. CASE ~(k <= P - 1)
    <3>1. ~(k <= Len(q)) /\ ~(k + 1 <= P) /\ k - Len(q) = (k + 1) - P
      BY <1>1, <2>3
    <3>2. U[k] = fr[k - Len(q)].msg /\ T[k + 1] = fr[(k + 1) - P].msg
      BY <2>1, <3>1 DEF Way
    <3>. QED  BY <3>1, <3>2
  <2>. QED  BY <2>2, <2>3
<1>4. Ordered(L, T, a, m, c) /\ T[1] = Head(pd)
  <2>1. 1 \in 1..L /\ 1 <= P
    BY <1>1, <1>2
  <2>. QED  BY <1>1, <2>1 DEF Fine, Way
<1>. HIDE DEF P, F, T, U, L
<1>5. \A k \in 1..(L - 1) : U[k] = T[k + 1]
  BY <1>3
<1>6. L \in Nat /\ L > 0 /\ \A k \in 1..L : T[k].n \in Nat
  BY <1>2
<1>7. Ordered(L, T, a, m, c)
  BY <1>4
<1>8. /\ T[1].kind = "item" => T[1].n = a + 1 /\ Ordered(L - 1, U, a + 1, m, c)
      /\ T[1].kind # "item" => Ordered(L - 1, U, a, m, c)
      /\ T[1].kind = "completed" => c /\ a = m
  BY <1>5, <1>6, <1>7, OrderedTakes, SMTT(60)
<1>. QED  BY <1>2, <1>4, <1>8 DEF Fine, TakenOf, P, F, L, U, q
----------------------------------------------------------------------------
(* A turn.                                                                 *)

Counts(s) == \A k \in 1..Len(s) : s[k] = k

\* Until a turn fails, what the client has and what is on its way make up what the server said.
Whole(t, p) ==
  /\ p.completed => p.over
  /\ Counts(p.said)
  /\ t.phase # "failed" =>
       /\ Carried(p.frames) /\ Counts(t.texts)
       /\ t.phase = "read" => t.pending = <<>>
       /\ IF t.phase = "done" THEN p.completed /\ Len(t.texts) = Len(p.said)
          ELSE Fine(t.pending, p.frames, Len(t.texts), Len(p.said), p.completed)

TurnOk(t, p) == t \in Client /\ p \in Server /\ Whole(t, p)

LEMMA CountsOn ==
  ASSUME NEW s \in Seq(Nat), Counts(s)
  PROVE  /\ Len(s) \in Nat /\ Append(s, Len(s) + 1) \in Seq(Nat) /\ Len(Append(s, Len(s) + 1)) = Len(s) + 1
         /\ Counts(Append(s, Len(s) + 1))
BY DEF Counts

LEMMA NotifiedKeeps ==
  ASSUME NEW t \in Client, NEW p \in Server, NEW x \in Msgs, p.completed => p.over, Counts(p.said),
         Carried(p.frames), Counts(t.texts),
         TakenOf(x, t.pending, p.frames, Len(t.texts), Len(p.said), p.completed)
  PROVE  TurnOk(Notified(t, x), p)
<1>. DEFINE u == Notified(t, x)
<1>1. t.texts \in Seq(Nat) /\ t.pending \in Seq(Msgs) /\ Len(t.texts) \in Nat
  BY DEF Client
<1>2. CASE x.kind = "item"
  <2>1. x.n = Len(t.texts) + 1 /\ Fine(t.pending, p.frames, Len(t.texts) + 1, Len(p.said), p.completed)
    BY <1>2 DEF TakenOf
  <2>2. /\ Append(t.texts, x.n) \in Seq(Nat) /\ Len(Append(t.texts, x.n)) = Len(t.texts) + 1
        /\ Counts(Append(t.texts, x.n))
    BY <1>1, <2>1, CountsOn
  <2>3. u = [t EXCEPT !.texts = Append(@, x.n), !.phase = "drain"]
    BY <1>2 DEF Notified
  <2>4. u \in Client /\ u.texts = Append(t.texts, x.n) /\ u.phase = "drain" /\ u.pending = t.pending
    BY <2>2, <2>3 DEF Client
  <2>. HIDE DEF u
  <2>5. Fine(u.pending, p.frames, Len(u.texts), Len(p.said), p.completed)
    BY <2>1, <2>2, <2>4
  <2>6. TurnOk(u, p)
    BY <2>2, <2>4, <2>5 DEF TurnOk, Whole
  <2>. QED  BY <2>6 DEF u
<1>3. CASE x.kind = "fatal"
  <2>1. u = [t EXCEPT !.phase = "failed"]
    BY <1>3 DEF Notified, Fails
  <2>2. u \in Client /\ u.phase = "failed"
    BY <2>1 DEF Client
  <2>. QED  BY <2>2 DEF TurnOk, Whole
<1>4. CASE x.kind = "completed"
  <2>1. u = [t EXCEPT !.phase = "done"]
    BY <1>4 DEF Notified
  <2>2. u \in Client /\ u.phase = "done" /\ u.texts = t.texts
    BY <2>1 DEF Client
  <2>3. p.completed /\ Len(t.texts) = Len(p.said)
    BY <1>4 DEF TakenOf
  <2>. QED  BY <2>2, <2>3 DEF TurnOk, Whole
<1>5. CASE x.kind \notin {"item", "fatal", "completed"}
  <2>1. u = [t EXCEPT !.phase = "drain"]
    BY <1>5 DEF Notified
  <2>2. u \in Client /\ u.phase = "drain" /\ u.texts = t.texts /\ u.pending = t.pending
    BY <2>1 DEF Client
  <2>3. Fine(t.pending, p.frames, Len(t.texts), Len(p.said), p.completed)
    BY <1>5 DEF TakenOf
  <2>. HIDE DEF u
  <2>4. TurnOk(u, p)
    BY <2>2, <2>3 DEF TurnOk, Whole
  <2>. QED  BY <2>4 DEF u
<1>. QED  BY <1>2, <1>3, <1>4, <1>5

\* The client takes a frame.
LEMMA FramedKeeps ==
  ASSUME NEW t \in Client, NEW p \in Server, Whole(t, p), t.phase \in {"call", "read"}, p.frames # <<>>
  PROVE  TurnOk(Framed(t, Head(p.frames)), [p EXCEPT !.frames = Tail(@)])
<1>. DEFINE f == Head(p.frames)
            x == f.msg
            g == Tail(p.frames)
            a == Len(t.texts)
            m == Len(p.said)
            c == p.completed
            q == [p EXCEPT !.frames = Tail(@)]
            u == Framed(t, f)
<1>1. /\ p.frames \in Seq(Frames) /\ p.said \in Seq(Nat) /\ c \in BOOLEAN
      /\ t.texts \in Seq(Nat) /\ t.pending \in Seq(Msgs)
  BY DEF Client, Server
<1>2. a \in Nat /\ m \in Nat
  BY <1>1
<1>3. f \in Frames /\ g \in Seq(Frames)
  BY <1>1, Tails
<1>4. x \in Msgs
  BY <1>3 DEF Frames
<1>5. /\ c => p.over
      /\ Counts(p.said) /\ Carried(p.frames) /\ Counts(t.texts)
      /\ t.phase = "read" => t.pending = <<>>
      /\ Fine(t.pending, p.frames, a, m, c)
  BY DEF Whole
<1>6. Carried(g) /\ (x.kind # "none" => f.op \in {"text", "more"} /\ f.fin)
  BY <1>1, <1>5, CarriedTail
<1>7. x.kind # "item" => Fine(t.pending, g, a, m, c)
  BY <1>1, <1>5, FrameGoes
<1>8. Fine(Append(t.pending, x), g, a, m, c) /\ Append(t.pending, x) \in Seq(Msgs)
  BY <1>1, <1>4, <1>5, FrameKept
<1>9. t.phase = "read" => TakenOf(x, t.pending, g, a, m, c)
  BY <1>1, <1>2, <1>5, FrameTaken
<1>10. q \in Server /\ q.frames = g /\ q.said = p.said /\ q.over = p.over /\ q.completed = c
  BY <1>3 DEF Server
<1>. HIDE DEF f, g, q, x
\* it suffices that the client has what the frame leaves
<1>11. ASSUME NEW v \in Client, v.phase \in {"call", "drain"}, v.texts = t.texts,
              Fine(v.pending, g, a, m, c)
       PROVE  TurnOk(v, q)
  BY <1>5, <1>6, <1>10, <1>11 DEF TurnOk, Whole
<1>12. ASSUME NEW v \in Client, v.phase = "failed" PROVE TurnOk(v, q)
  BY <1>5, <1>10, <1>12 DEF TurnOk, Whole
<1>13. Fails(t) \in Client /\ Fails(t).phase = "failed"
  BY DEF Fails, Client
<1>14. ASSUME NEW v \in Client, v.phase = t.phase, v.texts = t.texts, v.pending = t.pending, x.kind # "item"
       PROVE  TurnOk(v, q)
  <2>1. Fine(v.pending, g, a, m, c) /\ (v.phase = "read" => v.pending = <<>>) /\ v.phase # "done"
    BY <1>5, <1>7, <1>14
  <2>. QED  BY <1>5, <1>6, <1>10, <1>14, <2>1 DEF TurnOk, Whole
<1>15. CASE f.op = "ping"
  <2>1. u = t /\ x.kind # "item"
    BY <1>6, <1>15 DEF Framed
  <2>. QED  BY <1>14, <2>1 DEF f, q
<1>16. CASE f.op # "ping" /\ (f.op = "close" \/ t.open # (f.op = "more"))
  <2>1. u = Fails(t)
    BY <1>16 DEF Framed
  <2>. QED  BY <1>12, <1>13, <2>1 DEF f, q
<1>17. CASE f.op # "ping" /\ ~(f.op = "close" \/ t.open # (f.op = "more")) /\ ~f.fin
  <2>1. u = [t EXCEPT !.open = TRUE] /\ x.kind # "item"
    BY <1>6, <1>17 DEF Framed
  <2>2. u \in Client /\ u.phase = t.phase /\ u.texts = t.texts /\ u.pending = t.pending
    BY <2>1 DEF Client
  <2>. QED  BY <1>14, <2>1, <2>2 DEF f, q
<1>18. CASE f.op # "ping" /\ ~(f.op = "close" \/ t.open # (f.op = "more")) /\ f.fin
  <2>. DEFINE s == [t EXCEPT !.open = FALSE]
  <2>1. u = Received(s, x)
    BY <1>18 DEF Framed, x
  <2>2. s \in Client /\ s.phase = t.phase /\ s.texts = t.texts /\ s.pending = t.pending /\ s.call = t.call
    BY DEF Client
  <2>. HIDE DEF s, u
  <2>3. CASE t.phase = "read"
    <3>1. u = Notified(s, x)
      BY <2>1, <2>2, <2>3 DEF Received
    <3>2. TakenOf(x, s.pending, q.frames, Len(s.texts), Len(q.said), q.completed)
      BY <1>9, <1>10, <2>2, <2>3
    <3>3. (q.completed => q.over) /\ Counts(q.said) /\ Carried(q.frames) /\ Counts(s.texts)
      BY <1>5, <1>6, <1>10, <2>2
    <3>4. TurnOk(Notified(s, x), q)
      BY <1>4, <1>10, <2>2, <3>2, <3>3, NotifiedKeeps
    <3>. QED  BY <3>1, <3>4 DEF f, q, u
  <2>4. CASE t.phase = "call"
    <3>1. u = Answered(s, x)
      BY <2>1, <2>2, <2>4 DEF Received
    <3>2. CASE x.kind = "refusal"
      <4>1. u = [s EXCEPT !.phase = "failed"]
        BY <3>1, <3>2 DEF Answered, Fails
      <4>2. u \in Client /\ u.phase = "failed"
        BY <2>2, <4>1 DEF Client
      <4>. QED  BY <1>12, <4>2 DEF f, q, u
    <3>3. CASE x.kind \notin {"refusal", "result"}
      <4>1. u = [s EXCEPT !.pending = Append(@, x)]
        BY <3>1, <3>3 DEF Answered
      <4>2. u \in Client /\ u.phase = "call" /\ u.texts = t.texts /\ u.pending = Append(t.pending, x)
        BY <1>8, <2>2, <2>4, <4>1 DEF Client
      <4>3. TurnOk(u, q)
        BY <1>8, <1>11, <4>2
      <4>. QED  BY <4>3 DEF f, q, u
    <3>4. CASE x.kind = "result"
      <4>1. u = [s EXCEPT !.call = @ + 1] \/ u = [s EXCEPT !.phase = "drain"]
        BY <3>1, <3>4 DEF Answered
      <4>2. u \in Client /\ u.phase \in {"call", "drain"} /\ u.texts = t.texts /\ u.pending = t.pending
        BY <2>2, <2>4, <4>1, SMTT(20) DEF Client
      <4>3. TurnOk(u, q)
        BY <1>7, <1>11, <3>4, <4>2
      <4>. QED  BY <4>3 DEF f, q, u
    <3>. QED  BY <3>2, <3>3, <3>4
  <2>. QED  BY <2>3, <2>4
<1>. QED  BY <1>15, <1>16, <1>17, <1>18 DEF f
\* The client's other steps.
LEMMA DrainKeeps ==
  ASSUME NEW t \in Client, NEW p \in Server, Whole(t, p), t.phase = "drain"
  PROVE  /\ TurnOk(Fails(t), p)
         /\ t.pending # <<>> => TurnOk(Notified([t EXCEPT !.pending = Tail(@)], Head(t.pending)), p)
         /\ t.pending = <<>> => TurnOk([t EXCEPT !.phase = "read"], p)
<1>1. /\ t.pending \in Seq(Msgs) /\ p.frames \in Seq(Frames) /\ Len(t.texts) \in Nat /\ Len(p.said) \in Nat
  BY DEF Client, Server
<1>2. /\ p.completed => p.over
      /\ Counts(p.said) /\ Carried(p.frames) /\ Counts(t.texts)
      /\ Fine(t.pending, p.frames, Len(t.texts), Len(p.said), p.completed)
  BY DEF Whole
<1>3. TurnOk(Fails(t), p)
  <2>1. Fails(t) \in Client /\ Fails(t).phase = "failed"
    BY DEF Fails, Client
  <2>. QED  BY <1>2, <2>1 DEF TurnOk, Whole
<1>4. ASSUME t.pending # <<>> PROVE TurnOk(Notified([t EXCEPT !.pending = Tail(@)], Head(t.pending)), p)
  <2>. DEFINE s == [t EXCEPT !.pending = Tail(@)]
              x == Head(t.pending)
  <2>1. x \in Msgs /\ Tail(t.pending) \in Seq(Msgs)
    BY <1>1, <1>4, Tails
  <2>2. s \in Client /\ s.texts = t.texts /\ s.pending = Tail(t.pending)
    BY <2>1 DEF Client
  <2>3. TakenOf(x, Tail(t.pending), p.frames, Len(t.texts), Len(p.said), p.completed)
    BY <1>1, <1>2, <1>4, PendingTaken
  <2>. HIDE DEF s, x
  <2>4. TurnOk(Notified(s, x), p)
    BY <1>2, <2>1, <2>2, <2>3, NotifiedKeeps
  <2>. QED  BY <2>4 DEF s, x
<1>5. ASSUME t.pending = <<>> PROVE TurnOk([t EXCEPT !.phase = "read"], p)
  <2>. DEFINE s == [t EXCEPT !.phase = "read"]
  <2>1. s \in Client /\ s.texts = t.texts /\ s.pending = t.pending /\ s.phase = "read"
    BY DEF Client
  <2>. HIDE DEF s
  <2>2. TurnOk(s, p)
    BY <1>2, <1>5, <2>1 DEF TurnOk, Whole
  <2>. QED  BY <2>2 DEF s
<1>. QED  BY <1>3, <1>4, <1>5

\* The server's steps: a message put on its way, and what it says of the turn.
LEMMA ServerKeeps ==
  ASSUME NEW t \in Client, NEW p \in Server, Whole(t, p), t.phase \in {"call", "drain", "read"},
         NEW x \in Msgs, NEW fs \in Framings(x), NEW q \in Server,
         q.frames = p.frames, q.completed => q.over, p.completed => q.completed,
         x.kind = "completed" => q.completed, Counts(q.said),
         IF x.kind = "item" THEN x.n = Len(p.said) + 1 /\ Len(q.said) = Len(p.said) + 1 /\ ~q.completed
         ELSE Len(q.said) = Len(p.said)
  PROVE  TurnOk(t, [q EXCEPT !.frames = @ \o fs])
<1>. DEFINE a == Len(t.texts)
            m == Len(p.said)
            l == Len(q.said)
            c == p.completed
            d == q.completed
            g == p.frames \o fs
            w == [q EXCEPT !.frames = @ \o fs]
<1>1. /\ t.pending \in Seq(Msgs) /\ p.frames \in Seq(Frames) /\ a \in Nat /\ m \in Nat /\ l \in Nat
      /\ c \in BOOLEAN /\ d \in BOOLEAN
  BY DEF Client, Server
<1>2. Counts(t.texts) /\ Carried(p.frames) /\ Fine(t.pending, p.frames, a, m, c)
      /\ (t.phase = "read" => t.pending = <<>>)
  BY DEF Whole
<1>3. IF x.kind = "item" THEN x.n = m + 1 /\ l = m + 1 /\ ~c /\ ~d ELSE l = m
  OBVIOUS
<1>4. (c => d) /\ (x.kind = "completed" => d)
  OBVIOUS
<1>. HIDE DEF a, m, l, c, d
<1>6. g \in Seq(Frames) /\ Carried(g) /\ Fine(t.pending, g, a, l, d)
  BY <1>1, <1>2, <1>3, <1>4, MessagePut
<1>. HIDE DEF g
<1>7. w = [q EXCEPT !.frames = g]
  BY DEF g
<1>. HIDE DEF w
<1>8. w \in Server /\ w.frames = g /\ w.said = q.said /\ w.over = q.over /\ w.completed = q.completed
  BY <1>6, <1>7 DEF Server
<1>9. TurnOk(t, w)
  BY <1>2, <1>6, <1>8 DEF TurnOk, Whole, a, l, d
<1>. QED  BY <1>9 DEF w

\* One that is not of the protocol.
LEMMA ControlKeeps ==
  ASSUME NEW t \in Client, NEW p \in Server, Whole(t, p), t.phase \in {"call", "drain", "read"},
         NEW o \in {"ping", "close", "more"}
  PROVE  TurnOk(t, [p EXCEPT !.frames = @ \o <<Bare(o, TRUE)>>])
<1>. DEFINE f == Bare(o, TRUE)
            g == Append(p.frames, f)
            w == [p EXCEPT !.frames = @ \o <<f>>]
<1>1. t.pending \in Seq(Msgs) /\ p.frames \in Seq(Frames)
  BY DEF Client, Server
<1>2. /\ p.completed => p.over
      /\ Counts(p.said) /\ Counts(t.texts) /\ Carried(p.frames)
      /\ (t.phase = "read" => t.pending = <<>>)
      /\ Fine(t.pending, p.frames, Len(t.texts), Len(p.said), p.completed)
  BY DEF Whole
<1>3. f \in Frames /\ f.msg.kind = "none"
  BY DEF Bare, Frame, Frames, Message, Msgs
<1>. HIDE DEF f
<1>4. p.frames \o <<f>> = g
  BY <1>1, <1>3
<1>5. Carried(g)
  BY <1>1, <1>2, <1>3, CarriedOn
<1>6. g \in Seq(Frames) /\ Fine(t.pending, g, Len(t.texts), Len(p.said), p.completed)
  BY <1>1, <1>2, <1>3, PutOther
<1>. HIDE DEF g
<1>7. w = [p EXCEPT !.frames = g]
  BY <1>4
<1>. HIDE DEF w
<1>8. w \in Server /\ w.frames = g /\ w.said = p.said /\ w.over = p.over /\ w.completed = p.completed
  BY <1>6, <1>7 DEF Server
<1>9. TurnOk(t, w)
  BY <1>2, <1>5, <1>6, <1>8 DEF TurnOk, Whole
<1>. QED  BY <1>9 DEF w, f
TurnsOk == /\ turn \in [Turns -> Client] /\ peer \in [Turns -> Server]
           /\ \A r \in Turns : Whole(turn[r], peer[r])

LEMMA TurnsKept ==
  ASSUME TurnsOk, NEW r, NEW t, NEW p, r \in Turns => TurnOk(t, p),
         turn' = [turn EXCEPT ![r] = t], peer' = [peer EXCEPT ![r] = p]
  PROVE  TurnsOk'
<1>1. CASE r \in Turns
  <2>1. t \in Client /\ p \in Server /\ Whole(t, p)
    BY <1>1 DEF TurnOk
  <2>2. turn' \in [Turns -> Client] /\ peer' \in [Turns -> Server]
    BY <1>1, <2>1 DEF TurnsOk
  <2>3. \A k \in Turns : turn'[k] = (IF k = r THEN t ELSE turn[k])
                        /\ peer'[k] = (IF k = r THEN p ELSE peer[k])
    BY <1>1 DEF TurnsOk
  <2>4. \A k \in Turns : Whole(turn'[k], peer'[k])
    BY <2>1, <2>3 DEF TurnsOk
  <2>. QED  BY <2>2, <2>4 DEF TurnsOk
<1>2. CASE r \notin Turns
  <2>1. turn' = turn /\ peer' = peer
    BY <1>2 DEF TurnsOk
  <2>. QED  BY <2>1 DEF TurnsOk
<1>. QED  BY <1>1, <1>2

\* The client's or the server's state alone.
LEMMA ClientKept ==
  ASSUME TurnsOk, NEW r, NEW t, r \in Turns => TurnOk(t, peer[r]), Becomes(r, t), UNCHANGED peer
  PROVE  TurnsOk'
<1>1. peer' = [peer EXCEPT ![r] = peer[r]]
  BY DEF TurnsOk
<1>. QED  BY <1>1, TurnsKept DEF Becomes

LEMMA ServerKept ==
  ASSUME TurnsOk, NEW r, NEW q, NEW fs,
         r \in Turns => TurnOk(turn[r], [q EXCEPT !.frames = @ \o fs]),
         Put(r, q, fs), UNCHANGED turn
  PROVE  TurnsOk'
<1>. DEFINE w == [q EXCEPT !.frames = @ \o fs]
<1>1. turn' = [turn EXCEPT ![r] = turn[r]] /\ peer' = [peer EXCEPT ![r] = w]
  BY DEF TurnsOk, Put
<1>2. r \in Turns => TurnOk(turn[r], w)
  OBVIOUS
<1>. HIDE DEF w
<1>. QED  BY <1>1, <1>2, TurnsKept

LEMMA TurnStepKeeps ==
  ASSUME TurnsOk, NEW r, TurnStep(r) \/ Deadline(r)
  PROVE  TurnsOk'
<1>. DEFINE t == turn[r]
            p == peer[r]
<1>1. r \in Turns => t \in Client /\ p \in Server /\ Whole(t, p)
  BY DEF TurnsOk
<1>2. r \in Turns => Fails(t) \in Client /\ Fails(t).phase = "failed" /\ TurnOk(Fails(t), p)
  <2>1. ASSUME r \in Turns PROVE Fails(t) \in Client /\ Fails(t).phase = "failed"
    BY <1>1, <2>1 DEF Fails, Client
  <2>. HIDE DEF t, p
  <2>. QED  BY <1>1, <2>1 DEF TurnOk, Whole
<1>3. CASE Connect(r)
  <2>1. PICK v : Becomes(r, v) /\ (v = Fails(t) \/ v = [t EXCEPT !.phase = "call", !.call = 1])
    BY <1>3 DEF Connect
  <2>2. t.phase = "idle" /\ UNCHANGED peer
    BY <1>3 DEF Connect
  <2>. HIDE DEF t, p
  <2>3. ASSUME r \in Turns, v = [t EXCEPT !.phase = "call", !.call = 1] PROVE TurnOk(v, p)
    <3>1. v \in Client /\ v.phase = "call" /\ v.texts = t.texts /\ v.pending = t.pending
      BY <1>1, <2>3 DEF Client
    <3>. QED  BY <1>1, <2>2, <2>3, <3>1 DEF TurnOk, Whole
  <2>4. r \in Turns => TurnOk(v, p)
    BY <1>2, <2>1, <2>3
  <2>. QED  BY <2>1, <2>2, <2>4, ClientKept DEF p
<1>4. CASE RecvFrame(r)
  <2>1. /\ t.phase \in {"call", "read"} /\ p.frames # <<>>
        /\ turn' = [turn EXCEPT ![r] = Framed(t, Head(p.frames))]
        /\ peer' = [peer EXCEPT ![r] = [p EXCEPT !.frames = Tail(@)]]
    BY <1>4 DEF RecvFrame, Becomes
  <2>. HIDE DEF t, p
  <2>2. r \in Turns => TurnOk(Framed(t, Head(p.frames)), [p EXCEPT !.frames = Tail(@)])
    BY <1>1, <2>1, FramedKeeps
  <2>. QED  BY <2>1, <2>2, TurnsKept
<1>5. CASE Drain(r)
  <2>1. /\ t.phase = "drain" /\ UNCHANGED peer
        /\ \/ Becomes(r, Fails(t))
           \/ t.pending # <<>> /\ Becomes(r, Notified([t EXCEPT !.pending = Tail(@)], Head(t.pending)))
           \/ t.pending = <<>> /\ Becomes(r, [t EXCEPT !.phase = "read"])
    BY <1>5 DEF Drain
  <2>. HIDE DEF t
  <2>2. r \in Turns =>
          /\ TurnOk(Fails(t), p)
          /\ t.pending # <<>> => TurnOk(Notified([t EXCEPT !.pending = Tail(@)], Head(t.pending)), p)
          /\ t.pending = <<>> => TurnOk([t EXCEPT !.phase = "read"], p)
    BY <1>1, <2>1, DrainKeeps
  <2>. QED  BY <2>1, <2>2, ClientKept
<1>6. CASE RecvTimeout(r)
  <2>1. Becomes(r, Fails(t)) /\ UNCHANGED peer
    BY <1>6 DEF RecvTimeout
  <2>. QED  BY <1>2, <2>1, ClientKept
<1>7. CASE Deadline(r)
  <2>1. t.phase # "failed" /\ Becomes(r, [t EXCEPT !.late = TRUE]) /\ UNCHANGED peer
    BY <1>7 DEF Deadline
  <2>. DEFINE v == [t EXCEPT !.late = TRUE]
  <2>. HIDE DEF t
  <2>2. ASSUME r \in Turns PROVE TurnOk(v, p)
    <3>1. v \in Client /\ v.phase = t.phase /\ v.texts = t.texts /\ v.pending = t.pending
      BY <1>1, <2>2 DEF Client
    <3>. HIDE DEF v
    <3>. QED  BY <1>1, <2>2, <3>1 DEF TurnOk, Whole
  <2>. HIDE DEF v
  <2>. QED  BY <2>1, <2>2, ClientKept DEF v
<1>. QED  BY <1>3, <1>4, <1>5, <1>6, <1>7 DEF TurnStep

LEMMA CodexServerKeeps ==
  ASSUME TurnsOk, NEW r, CodexServer(r)
  PROVE  TurnsOk'
<1>. DEFINE t == turn[r]
            p == peer[r]
<1>1. r \in Turns => t \in Client /\ p \in Server /\ Whole(t, p)
  BY DEF TurnsOk
<1>2. t.phase \in {"call", "drain", "read"} /\ UNCHANGED turn
  BY DEF CodexServer
<1>3. CASE ServerAnswers(r)
  <2>. DEFINE q == [p EXCEPT !.answered = @ + 1]
  <2>4. PICK k \in {"result", "refusal"} : \E fs \in Framings(Message(k, 0)) : Put(r, q, fs)
    BY <1>3 DEF ServerAnswers
  <2>1. PICK fs \in Framings(Message(k, 0)) : Put(r, q, fs)
    BY <2>4
  <2>2. Message(k, 0) \in Msgs /\ Message(k, 0).kind \notin {"item", "completed"}
    BY DEF Message, Msgs
  <2>. HIDE DEF t, p
  <2>3. ASSUME r \in Turns PROVE TurnOk(t, [q EXCEPT !.frames = @ \o fs])
    <3>1. /\ q \in Server /\ q.frames = p.frames /\ q.said = p.said
          /\ q.over = p.over /\ q.completed = p.completed
      <4>. DEFINE an == p.answered + 1
      <4>1. p \in Server
        BY <1>1, <2>3
      <4>2. an \in Nat /\ q = [p EXCEPT !.answered = an]
        BY <4>1 DEF Server
      <4>. HIDE DEF an, q
      <4>. QED  BY <4>1, <4>2 DEF Server
    <3>2. (p.completed => p.over) /\ Counts(p.said)
      BY <1>1, <2>3 DEF Whole
    <3>. HIDE DEF q
    <3>. QED  BY <1>1, <1>2, <2>2, <2>3, <3>1, <3>2, ServerKeeps
  <2>. HIDE DEF q
  <2>. QED  BY <1>2, <2>1, <2>3, ServerKept DEF t
<1>4. CASE ServerTells(r)
  <2>1. PICK k \in {"item", "other", "completed", "fatal"} :
          \E fs \in Framings(Message(k, IF k = "item" THEN Len(p.said) + 1 ELSE 0)) :
            /\ ~p.over
            /\ Put(r, [p EXCEPT !.over = k \in {"completed", "fatal"}, !.completed = k = "completed",
                                !.said = IF k = "item" THEN Append(@, Len(@) + 1) ELSE @], fs)
    BY <1>4 DEF ServerTells
  <2>. DEFINE x == Message(k, IF k = "item" THEN Len(p.said) + 1 ELSE 0)
              q == [p EXCEPT !.over = k \in {"completed", "fatal"}, !.completed = k = "completed",
                             !.said = IF k = "item" THEN Append(@, Len(@) + 1) ELSE @]
  <2>2. PICK fs \in Framings(x) : ~p.over /\ Put(r, q, fs)
    BY <2>1
  <2>. HIDE DEF t, p
  <2>3. ASSUME r \in Turns PROVE TurnOk(t, [q EXCEPT !.frames = @ \o fs])
    <3>1. p \in Server /\ p.said \in Seq(Nat) /\ Len(p.said) \in Nat /\ Counts(p.said) /\ ~p.completed
      BY <1>1, <2>2, <2>3 DEF Server, Whole
    <3>2. x \in Msgs /\ x.kind = k /\ (k = "item" => x.n = Len(p.said) + 1)
      BY <3>1 DEF Message, Msgs
    <3>3. /\ Append(p.said, Len(p.said) + 1) \in Seq(Nat)
          /\ Len(Append(p.said, Len(p.said) + 1)) = Len(p.said) + 1
          /\ Counts(Append(p.said, Len(p.said) + 1))
      BY <3>1, CountsOn
    <3>4. /\ q \in Server /\ q.frames = p.frames
          /\ q.said = IF k = "item" THEN Append(p.said, Len(p.said) + 1) ELSE p.said
          /\ (q.over <=> k \in {"completed", "fatal"}) /\ (q.completed <=> k = "completed")
      <4>. DEFINE ov == k \in {"completed", "fatal"}
                  co == k = "completed"
                  sa == IF k = "item" THEN Append(p.said, Len(p.said) + 1) ELSE p.said
      <4>1. ov \in BOOLEAN /\ co \in BOOLEAN /\ sa \in Seq(Nat)
        BY <3>1, <3>3
      <4>2. q = [p EXCEPT !.over = ov, !.completed = co, !.said = sa]
        OBVIOUS
      <4>. HIDE DEF ov, co, sa, q
      <4>3. q \in Server /\ q.frames = p.frames /\ q.said = sa /\ q.over = ov /\ q.completed = co
        BY <3>1, <4>1, <4>2 DEF Server
      <4>. QED  BY <4>3 DEF ov, co, sa
    <3>. HIDE DEF q, x
    <3>5. /\ Counts(q.said)
          /\ IF x.kind = "item" THEN x.n = Len(p.said) + 1 /\ Len(q.said) = Len(p.said) + 1 /\ ~q.completed
             ELSE Len(q.said) = Len(p.said)
      BY <3>1, <3>2, <3>3, <3>4
    <3>6. (q.completed => q.over) /\ (p.completed => q.completed) /\ (x.kind = "completed" => q.completed)
      BY <3>1, <3>2, <3>4
    <3>. QED  BY <1>1, <1>2, <2>3, <3>2, <3>4, <3>5, <3>6, ServerKeeps
  <2>. HIDE DEF q, x
  <2>. QED  BY <1>2, <2>2, <2>3, ServerKept DEF t
<1>5. CASE ServerControls(r)
  <2>1. PICK o \in {"ping", "close", "more"} : Put(r, p, <<Bare(o, TRUE)>>)
    BY <1>5 DEF ServerControls
  <2>2. r \in Turns => TurnOk(t, [p EXCEPT !.frames = @ \o <<Bare(o, TRUE)>>])
    BY <1>1, <1>2, ControlKeeps
  <2>. HIDE DEF p
  <2>. QED  BY <1>2, <2>1, <2>2, ServerKept
<1>. QED  BY <1>3, <1>4, <1>5 DEF CodexServer

TurnAction(i) == CodexSteps(i) \/ CodexServes(i) \/ CodexDeadline(i)

LEMMA TurnsOkInitially == TurnInit => TurnsOk
<1>. SUFFICES ASSUME TurnInit PROVE TurnsOk
  OBVIOUS
<1>. DEFINE t == [phase |-> "idle", call |-> 0, open |-> FALSE, pending |-> <<>>,
                  texts |-> <<>>, late |-> FALSE]
            p == [frames |-> <<>>, answered |-> 0, said |-> <<>>, over |-> FALSE,
                  completed |-> FALSE]
<1>1. t \in Client /\ p \in Server
  BY DEF Client, Server
<1>2. Whole(t, p)
  BY DEF Whole, Counts, Carried, Fine, Ordered
<1>3. turn = [r \in Turns |-> t] /\ peer = [r \in Turns |-> p]
  BY DEF TurnInit
<1>. HIDE DEF t, p
<1>. QED  BY <1>1, <1>2, <1>3 DEF TurnsOk

\* Everything else in Bbm leaves the turns alone.
LEMMA OtherActions ==
  ASSUME [Next]_bbmVars
  PROVE  UNCHANGED turnVars \/ \E i \in Lines : TurnAction(i)
BY DEF Next, bbmVars, Tick, Hear, Handler, Gc, ReadClock, CheckMute, FollowUp, Snapshot, Chat,
       CodexAnswers, Deliver, Remember, TurnAction

\* A turn that ends well has all the replies of the completed turn, in their order,
\* also those that came before the answers to its calls (_Connection.call, _drain_turn)
\* or in pieces (recv_text): for any number of turns, replies and frames.
THEOREM AnswersAreWhole == Spec => []AnswerIsWhole
<1>1. Init => TurnsOk
  BY TurnsOkInitially DEF Init
<1>2. TurnsOk /\ [Next]_bbmVars => TurnsOk'
  <2>. SUFFICES ASSUME TurnsOk, [Next]_bbmVars PROVE TurnsOk'
    OBVIOUS
  <2>1. CASE UNCHANGED turnVars
    BY <2>1 DEF TurnsOk, turnVars
  <2>2. ASSUME NEW i \in Lines, TurnAction(i) PROVE TurnsOk'
    BY <2>2, TurnStepKeeps, CodexServerKeeps DEF TurnAction, CodexSteps, CodexServes, CodexDeadline
  <2>. QED  BY <2>1, <2>2, OtherActions
<1>3. TurnsOk => AnswerIsWhole
  <2>. SUFFICES ASSUME TurnsOk, NEW r \in Turns, turn[r].phase = "done"
                PROVE  peer[r].completed /\ turn[r].texts = peer[r].said
    BY DEF AnswerIsWhole
  <2>. DEFINE t == turn[r].texts
              s == peer[r].said
  <2>1. t \in Seq(Nat) /\ s \in Seq(Nat)
    BY DEF TurnsOk, Client, Server
  <2>2. peer[r].completed /\ Counts(t) /\ Counts(s) /\ Len(t) = Len(s)
    BY DEF TurnsOk, Whole
  <2>. HIDE DEF t, s
  <2>3. t = s
    BY <2>1, <2>2, SeqEqual DEF Counts
  <2>. QED  BY <2>2, <2>3 DEF t, s
<1>. QED  BY <1>1, <1>2, <1>3, PTL DEF Spec
----------------------------------------------------------------------------
(* Conversations.                                                          *)

Entry == {"user", "bot"} \X Nat
Pairs(s, h) == \A k \in 1..h : s[2*k - 1][1] = "user" /\ s[2*k] = <<"bot", s[2*k - 1][2]>>
Distinct(s) == \A j, k \in 1..Len(s) : s[j] = s[k] => j = k
Even(s) == \E h \in Nat : Len(s) = 2 * h /\ Pairs(s, h)
Sound(s) == Even(s) /\ Distinct(s) /\ Len(s) <= Keep

LEMMA SoundIsPaired ==
  ASSUME NEW s \in Seq(Entry), Sound(s)
  PROVE  Paired(s)
<1>1. PICK h \in Nat : Len(s) = 2 * h /\ Pairs(s, h)
  BY DEF Sound, Even
<1>2. Len(s) % 2 = 0 /\ Len(s) \div 2 = h
  BY <1>1
<1>3. Len(s) <= Keep /\ \A k \in 1..h : s[2*k - 1][1] = "user" /\ s[2*k] = <<"bot", s[2*k - 1][2]>>
  BY <1>1 DEF Sound, Pairs
<1>4. Cardinality({s[k] : k \in DOMAIN s}) = Len(s)
  <2>. DEFINE n == Len(s)
              R == {s[k] : k \in 1..n}
  <2>1. n \in Nat /\ DOMAIN s = 1..n /\ s \in [1..n -> R]
    OBVIOUS
  <2>2. \A j, k \in 1..n : s[j] = s[k] => j = k
    BY DEF Sound, Distinct
  <2>3. \A x \in R : \E k \in 1..n : s[k] = x
    OBVIOUS
  <2>. HIDE DEF n, R
  <2>4. s \in Bijection(1..n, R)
    BY <2>1, <2>2, <2>3, Fun_IsBij
  <2>5. Cardinality(R) = n
    BY <2>1, <2>4, FS_CountingElements, Fun_ExistsBij
  <2>. QED  BY <2>1, <2>5 DEF n, R
<1>. QED  BY <1>2, <1>3, <1>4 DEF Paired

LEMMA NothingSound == <<>> \in Seq(Entry) /\ Sound(<<>>)
<1>1. Len(<<>>) = 2 * 0 /\ Pairs(<<>>, 0) /\ 0 \in Nat
  BY DEF Pairs
<1>2. Keep \in Nat
  BY BbmAssumption
<1>. QED  BY <1>1, <1>2 DEF Sound, Even, Distinct

\* The pair of line i, after pairs of other lines.
PairOn(s, i) == s \o <<<<"user", i>>, <<"bot", i>>>>

LEMMA PairsGrow ==
  ASSUME NEW s \in Seq(Entry), NEW i \in Nat
  PROVE  /\ PairOn(s, i) \in Seq(Entry) /\ Len(PairOn(s, i)) = Len(s) + 2 /\ Len(s) \in Nat
         /\ \A k \in 1..Len(s) : PairOn(s, i)[k] = s[k]
         /\ PairOn(s, i)[Len(s) + 1] = <<"user", i>> /\ PairOn(s, i)[Len(s) + 2] = <<"bot", i>>
BY DEF PairOn, Entry

LEMMA PairedOn ==
  ASSUME NEW s \in Seq(Entry), Even(s), Distinct(s), NEW i \in Nat, \A k \in 1..Len(s) : s[k][2] # i
  PROVE  Even(PairOn(s, i)) /\ Distinct(PairOn(s, i))
<1>. DEFINE u == PairOn(s, i)
            n == Len(s)
<1>1. /\ u \in Seq(Entry) /\ Len(u) = n + 2 /\ n \in Nat /\ \A k \in 1..n : u[k] = s[k]
      /\ u[n + 1] = <<"user", i>> /\ u[n + 2] = <<"bot", i>>
  BY PairsGrow
<1>2. PICK h \in Nat : n = 2 * h /\ Pairs(s, h)
  BY DEF Even
<1>. HIDE DEF u, n
<1>3. ASSUME NEW k \in 1..(h + 1) PROVE u[2*k - 1][1] = "user" /\ u[2*k] = <<"bot", u[2*k - 1][2]>>
  <2>1. CASE k \in 1..h
    <3>1. 2*k - 1 \in 1..n /\ 2*k \in 1..n
      BY <1>2, <2>1
    <3>2. s[2*k - 1][1] = "user" /\ s[2*k] = <<"bot", s[2*k - 1][2]>>
      BY <1>2, <2>1 DEF Pairs
    <3>3. u[2*k - 1] = s[2*k - 1] /\ u[2*k] = s[2*k]
      BY <1>1, <3>1
    <3>. QED  BY <3>2, <3>3
  <2>2. CASE k = h + 1
    <3>0. 2*(h + 1) = 2*h + 2
      OBVIOUS
    <3>1. 2*k - 1 = n + 1 /\ 2*k = n + 2
      <4>1. n = 2*h /\ k = h + 1
        BY <1>2, <2>2
      <4>. HIDE DEF Pairs
      <4>. QED  BY <3>0, <4>1
    <3>2. u[2*k - 1] = <<"user", i>> /\ u[2*k] = <<"bot", i>>
      BY <1>1, <3>1
    <3>. QED  BY <3>2
  <2>. QED  BY <2>1, <2>2
<1>4. Len(u) = 2 * (h + 1) /\ h + 1 \in Nat
  BY <1>1, <1>2
<1>5. Even(u)
  BY <1>3, <1>4 DEF Even, Pairs
<1>6. \A k \in 1..n : u[k] # <<"user", i>> /\ u[k] # <<"bot", i>>
  <2>1. \A k \in 1..n : s[k][2] # i
    BY DEF n
  <2>. QED  BY <1>1, <2>1
<1>7. \A j, k \in 1..n : s[j] = s[k] => j = k
  BY DEF Distinct, n
<1>8. \A k \in 1..(n + 2) : k \in 1..n \/ k = n + 1 \/ k = n + 2
  BY <1>1
<1>9. <<"user", i>> # <<"bot", i>>
  OBVIOUS
<1>10. ASSUME NEW j \in 1..(n + 2), NEW k \in 1..(n + 2), u[j] = u[k] PROVE j = k
  <2>1. CASE j \in 1..n /\ k \in 1..n
    BY <1>1, <1>7, <1>10, <2>1
  <2>2. CASE ~(j \in 1..n /\ k \in 1..n)
    BY <1>1, <1>6, <1>8, <1>9, <1>10, <2>2
  <2>. QED  BY <2>1, <2>2
<1>. QED  BY <1>1, <1>5, <1>10 DEF Distinct, u

\* The last Keep entries of pairs are pairs, for Keep is even.
LEMMA LastSound ==
  ASSUME NEW u \in Seq(Entry), Even(u), Distinct(u)
  PROVE  /\ LastOf(u, Keep) \in Seq(Entry) /\ Sound(LastOf(u, Keep))
         /\ \A k \in 1..Len(LastOf(u, Keep)) : \E j \in 1..Len(u) : LastOf(u, Keep)[k] = u[j]
<1>. DEFINE t == LastOf(u, Keep)
            n == Len(u)
<1>1. PICK K \in Nat : Keep = 2 * K
  <2>1. Keep \in Nat /\ Keep % 2 = 0
    BY BbmAssumption
  <2>2. Keep = 2 * (Keep \div 2) /\ Keep \div 2 \in Nat
    BY <2>1
  <2>. QED  BY <2>2
<1>2. PICK h \in Nat : n = 2 * h /\ Pairs(u, h)
  BY DEF Even
<1>3. CASE n <= Keep
  <2>1. t = u
    BY <1>3 DEF LastOf
  <2>. QED  BY <1>3, <2>1 DEF Sound
<1>4. CASE ~(n <= Keep)
  <2>. DEFINE e == h - K
  <2>8. n = 2*h /\ Keep = 2*K /\ 2*h > 2*K
    BY <1>1, <1>2, <1>4
  <2>9. h > K /\ 2*h - 2*K = 2*(h - K)
    BY <2>8
  <2>1. e \in Nat /\ n - Keep + 1 = 2*e + 1 /\ n - Keep + 1 \in 1..(n + 1) /\ n \in Nat
    <3>1. e \in Nat
      BY <2>9
    <3>2. 2*h - 2*K + 1 = 2*(h - K) + 1
      BY <2>9
    <3>3. 2*h - 2*K + 1 \in 1..(2*h + 1) /\ 2*h \in Nat
      <4>1. \A x, y \in Nat : x > y => x - y + 1 \in Int /\ 1 <= x - y + 1 /\ x - y + 1 <= x + 1
        OBVIOUS
      <4>2. 2*h \in Nat /\ 2*K \in Nat
        OBVIOUS
      <4>. QED  BY <2>8, <4>1, <4>2
    <3>. QED  BY <2>8, <3>1, <3>2, <3>3
  <2>2. t = SubSeq(u, 2*e + 1, n)
    BY <1>4, <2>1 DEF LastOf
  <2>3. t \in Seq(Entry) /\ Len(t) = 2 * K /\ \A k \in 1..(2 * K) : k + 2*e \in 1..n /\ t[k] = u[k + 2*e]
    <3>. DEFINE a == 2*e + 1
    <3>1. a \in 1..(n + 1) /\ n \in (a - 1)..n /\ n - a + 1 = 2 * K
      BY <2>8, <2>9, <2>1
    <3>2. t = SubSeq(u, a, n)
      BY <2>2
    <3>. HIDE DEF a
    <3>3. t \in Seq(Entry) /\ Len(t) = n - a + 1 /\ \A k \in 1..(n - a + 1) : t[k] = u[k + a - 1]
      BY <3>1, <3>2, SubSeqProperties
    <3>4. \A k \in 1..(2 * K) : k + a - 1 = k + 2*e /\ k + 2*e \in 1..n
      BY <2>8, <2>9, <2>1 DEF a
    <3>. QED  BY <3>1, <3>3, <3>4
  <2>. HIDE DEF t
  <2>4. ASSUME NEW k \in 1..K PROVE t[2*k - 1][1] = "user" /\ t[2*k] = <<"bot", t[2*k - 1][2]>>
    <3>. DEFINE j == k + e
    <3>1. j \in 1..h /\ 2*k - 1 \in 1..(2 * K) /\ 2*k \in 1..(2 * K)
          /\ (2*k - 1) + 2*e = 2*j - 1 /\ 2*k + 2*e = 2*j
      BY <1>1, <1>2, <2>1
    <3>2. t[2*k - 1] = u[2*j - 1] /\ t[2*k] = u[2*j]
      BY <2>3, <3>1
    <3>. HIDE DEF j
    <3>3. u[2*j - 1][1] = "user" /\ u[2*j] = <<"bot", u[2*j - 1][2]>>
      BY <1>2, <3>1 DEF Pairs
    <3>. QED  BY <3>2, <3>3
  <2>5. Even(t)
    BY <2>3, <2>4 DEF Even, Pairs
  <2>6. Distinct(t)
    <3>1. \A j, k \in 1..n : u[j] = u[k] => j = k
      BY DEF Distinct
    <3>2. ASSUME NEW j \in 1..(2 * K), NEW k \in 1..(2 * K), t[j] = t[k] PROVE j = k
      <4>1. j + 2*e \in 1..n /\ k + 2*e \in 1..n /\ u[j + 2*e] = u[k + 2*e]
        BY <2>3, <3>2
      <4>2. j + 2*e = k + 2*e
        BY <3>1, <4>1
      <4>. QED  BY <2>1, <4>2
    <3>. QED  BY <2>3, <3>2 DEF Distinct
  <2>7. \A k \in 1..Len(t) : \E j \in 1..n : t[k] = u[j]
    BY <2>3
  <2>. QED  BY <1>1, <2>3, <2>5, <2>6, <2>7 DEF Sound, t
<1>. QED  BY <1>3, <1>4
----------------------------------------------------------------------------
(* Lines and conversations, while they are handled.                         *)

Line == [nick : Nicks, kind : {"explicit", "plain", "command"},
         pc : {"gc", "heard", "clocked", "followup", "respond", "openai", "codex", "deliver", "remember",
               "ended"},
         at : Nat, hushed : BOOLEAN, prior : Seq(Entry), rounds : Nat, text : Nat, said : Nat]
Conv == [there : BOOLEAN, messages : Seq(Entry), remaining : Nat, expires : Int]

LineOk(l, t) == /\ l \in Line /\ l.at <= t /\ Sound(l.prior)
                /\ l.hushed => l.pc = "ended"
                /\ l.said <= MaxLines
ConvOk(c, n) == c \in Conv /\ Sound(c.messages) /\ n \in Nat /\ n + c.remaining <= MaxFollowups

\* what is in a conversation was put there by a line that is through
Known(s) == \A k \in 1..Len(s) : s[k][2] \in Lines /\ talk[s[k][2]].pc = "ended"

LinesOk == conf \in Confs /\ now \in Nat /\ talk \in Seq(Line) /\ \A i \in Lines : LineOk(talk[i], now)
ConvsOk == /\ DOMAIN convs = Nicks /\ DOMAIN taken = Nicks
           /\ \A n \in Nicks : ConvOk(convs[n], taken[n]) /\ Known(convs[n].messages)
MuteOk == now \in Nat /\ muted \in Nat /\ promised \in Nat /\ (promised > now => muted = promised)

LEMMA EndedOk ==
  ASSUME NEW l \in Line, NEW t \in Nat
  PROVE  Ended(l) \in Line /\ Ended(l).pc = "ended" /\ LineOk(Ended(l), t)
<1>1. <<>> \in Seq(Entry) /\ Sound(<<>>)
  BY NothingSound
<1>2. /\ Ended(l) \in Line /\ Ended(l).pc = "ended" /\ Ended(l).prior = <<>>
      /\ Ended(l).at = 0 /\ Ended(l).said = 0
  BY <1>1 DEF Ended, Line
<1>3. 0 <= t /\ 0 <= MaxLines
  BY BbmAssumption
<1>. QED  BY <1>1, <1>2, <1>3 DEF LineOk

\* A step of the handler of line i, that has not ended.
LEMMA LineGoes ==
  ASSUME LinesOk, NEW i \in Lines, talk[i].pc # "ended", NEW r, LineOk(r, now), Goes(i, r),
         UNCHANGED <<conf, now>>
  PROVE  /\ LinesOk' /\ Lines' = Lines /\ talk'[i] = r
         /\ \A k \in Lines : talk[k].pc = "ended" => talk'[k].pc = "ended"
<1>1. talk \in Seq(Line) /\ Lines = 1..Len(talk) /\ r \in Line
  BY DEF LinesOk, Lines, LineOk
<1>2. talk' = [talk EXCEPT ![i] = r]
  BY DEF Goes
<1>3. talk' \in Seq(Line) /\ DOMAIN talk' = DOMAIN talk /\ Len(talk') = Len(talk)
  BY <1>1, <1>2
<1>4. \A k \in Lines : talk'[k] = IF k = i THEN r ELSE talk[k]
  BY <1>1, <1>2 DEF Lines
<1>5. Lines' = Lines
  BY <1>3 DEF Lines
<1>6. \A k \in Lines : LineOk(talk'[k], now)
  BY <1>4 DEF LinesOk
<1>7. LinesOk'
  BY <1>3, <1>5, <1>6 DEF LinesOk
<1>. QED  BY <1>4, <1>5, <1>7

\* The conversations that a step leaves alone.
LEMMA ConvsStay ==
  ASSUME ConvsOk, UNCHANGED <<convs, taken>>, Lines \subseteq Lines',
         \A k \in Lines : talk[k].pc = "ended" => talk'[k].pc = "ended"
  PROVE  ConvsOk'
<1>1. \A n \in Nicks : ConvOk(convs[n], taken[n]) /\ Known(convs[n].messages)
  BY DEF ConvsOk
<1>2. ASSUME NEW n \in Nicks, NEW k \in 1..Len(convs[n].messages)
      PROVE  convs[n].messages[k][2] \in Lines' /\ talk'[convs[n].messages[k][2]].pc = "ended"
  BY <1>1 DEF Known
<1>. QED  BY <1>1, <1>2 DEF ConvsOk, Known

\* What a step may make of a conversation, of which line i, at its end, is the last.
LEMMA ConvsChange ==
  ASSUME ConvsOk, Lines' = Lines, \A k \in Lines : talk[k].pc = "ended" => talk'[k].pc = "ended",
         DOMAIN convs' = Nicks, DOMAIN taken' = Nicks, NEW i \in Lines,
         \A n \in Nicks :
           /\ ConvOk(convs'[n], taken'[n])
           /\ \A k \in 1..Len(convs'[n].messages) :
                \/ \E j \in 1..Len(convs[n].messages) : convs'[n].messages[k] = convs[n].messages[j]
                \/ convs'[n].messages[k][2] = i /\ talk'[i].pc = "ended"
  PROVE  ConvsOk'
<1>1. ASSUME NEW n \in Nicks, NEW k \in 1..Len(convs'[n].messages)
      PROVE  convs'[n].messages[k][2] \in Lines' /\ talk'[convs'[n].messages[k][2]].pc = "ended"
  <2>1. CASE convs'[n].messages[k][2] = i /\ talk'[i].pc = "ended"
    BY <2>1
  <2>2. CASE \E j \in 1..Len(convs[n].messages) : convs'[n].messages[k] = convs[n].messages[j]
    <3>1. PICK j \in 1..Len(convs[n].messages) : convs'[n].messages[k] = convs[n].messages[j]
      BY <2>2
    <3>2. convs[n].messages[j][2] \in Lines /\ talk[convs[n].messages[j][2]].pc = "ended"
      BY DEF ConvsOk, Known
    <3>. QED  BY <3>1, <3>2
  <2>. QED  BY <2>1, <2>2
<1>. QED  BY <1>1 DEF ConvsOk, Known

LEMMA MuteStays ==
  ASSUME MuteOk, UNCHANGED <<now, muted, promised>>
  PROVE  MuteOk'
BY DEF MuteOk

BbmOk == LinesOk /\ ConvsOk /\ MuteOk

\* A step of a handler that is about its own line only.
LEMMA LineStep ==
  ASSUME BbmOk, NEW i \in Lines, talk[i].pc # "ended", NEW r, LineOk(r, now), Goes(i, r),
         UNCHANGED <<conf, now, convs, taken>>, MuteOk'
  PROVE  BbmOk'
<1>1. /\ LinesOk' /\ Lines' = Lines
      /\ \A k \in Lines : talk[k].pc = "ended" => talk'[k].pc = "ended"
  BY LineGoes DEF BbmOk
<1>2. Lines \subseteq Lines'
  BY <1>1
<1>3. ConvsOk'
  BY <1>1, <1>2, ConvsStay DEF BbmOk
<1>. QED  BY <1>1, <1>3 DEF BbmOk

LEMMA TickKeeps == BbmOk /\ Tick => BbmOk'
<1>. SUFFICES ASSUME BbmOk, Tick PROVE BbmOk'
  OBVIOUS
<1>1. now' = now + 1 /\ now \in Nat /\ now' \in Nat
      /\ UNCHANGED <<conf, muted, convs, talk, promised, taken>>
  BY DEF Tick, BbmOk, LinesOk
<1>2. ASSUME NEW i \in Lines PROVE LineOk(talk[i], now')
  <2>1. LineOk(talk[i], now)
    BY DEF BbmOk, LinesOk
  <2>2. talk[i].at \in Nat
    BY <2>1 DEF LineOk, Line
  <2>. QED  BY <1>1, <2>1, <2>2 DEF LineOk
<1>3. LinesOk'
  BY <1>1, <1>2 DEF BbmOk, LinesOk, Lines
<1>4. Lines' = Lines
  BY <1>1 DEF Lines
<1>5. ConvsOk'
  BY <1>1, <1>4, ConvsStay DEF BbmOk
<1>6. MuteOk'
  BY <1>1 DEF BbmOk, MuteOk
<1>. QED  BY <1>3, <1>5, <1>6 DEF BbmOk

LEMMA HearKeeps ==
  ASSUME BbmOk, NEW n \in Nicks, NEW k \in {"explicit", "plain", "command"}, Hear(n, k)
  PROVE  BbmOk'
<1>. DEFINE l == [nick |-> n, kind |-> k, pc |-> "gc", at |-> 0, hushed |-> FALSE,
                  prior |-> <<>>, rounds |-> 0, text |-> 0, said |-> 0]
<1>1. talk' = Append(talk, l) /\ UNCHANGED <<conf, now, muted, convs, promised, taken>>
  BY DEF Hear
<1>2. talk \in Seq(Line) /\ now \in Nat /\ Lines = 1..Len(talk) /\ Len(talk) \in Nat
  BY DEF BbmOk, LinesOk, Lines
<1>3. LineOk(l, now)
  <2>1. l \in Line
    BY NothingSound DEF Line
  <2>. QED  BY <1>2, <2>1, NothingSound, BbmAssumption DEF LineOk
<1>4. l \in Line
  BY <1>3 DEF LineOk
<1>. HIDE DEF l
<1>5. /\ talk' \in Seq(Line) /\ Lines' = 1..(Len(talk) + 1) /\ talk'[Len(talk) + 1] = l
      /\ \A j \in Lines : talk'[j] = talk[j]
  BY <1>1, <1>2, <1>4 DEF Lines
<1>6. \A j \in Lines' : j \in Lines \/ j = Len(talk) + 1
  BY <1>2, <1>5
<1>7. \A j \in Lines : LineOk(talk[j], now)
  BY DEF BbmOk, LinesOk
<1>8. \A j \in Lines' : LineOk(talk'[j], now)
  BY <1>3, <1>5, <1>6, <1>7
<1>9. LinesOk'
  BY <1>1, <1>5, <1>8 DEF BbmOk, LinesOk
<1>10. Lines \subseteq Lines'
  BY <1>2, <1>5
<1>11. ConvsOk'
  BY <1>1, <1>5, <1>10, ConvsStay DEF BbmOk
<1>. QED  BY <1>1, <1>9, <1>11, MuteStays DEF BbmOk
\* A line, with what a handler's step sets in it.
LEMMA LineFacts ==
  ASSUME BbmOk, NEW i \in Lines
  PROVE  /\ talk[i] \in Line /\ LineOk(talk[i], now) /\ talk[i].nick \in Nicks /\ talk[i].at \in Nat
         /\ now \in Nat /\ i \in Nat
         /\ talk[i].pc # "ended" => ~talk[i].hushed
<1>1. talk \in Seq(Line) /\ LineOk(talk[i], now) /\ now \in Nat
  BY DEF BbmOk, LinesOk
<1>2. Lines = 1..Len(talk) /\ Len(talk) \in Nat
  BY <1>1 DEF Lines
<1>3. talk[i] \in Line /\ (talk[i].hushed => talk[i].pc = "ended")
  BY <1>1 DEF LineOk
<1>4. talk[i].nick \in Nicks /\ talk[i].at \in Nat
  BY <1>3 DEF Line
<1>. QED  BY <1>1, <1>2, <1>3, <1>4

LEMMA ReadClockKeeps ==
  ASSUME BbmOk, NEW i \in Lines, ReadClock(i)
  PROVE  BbmOk'
<1>. DEFINE l == talk[i]
            r == [l EXCEPT !.pc = "clocked", !.at = now]
<1>1. l.pc = "heard" /\ Goes(i, r) /\ UNCHANGED <<conf, now, muted, convs, promised, taken>>
  BY DEF ReadClock, At
<1>2. l \in Line /\ LineOk(l, now) /\ now \in Nat /\ ~l.hushed
  BY <1>1, LineFacts
<1>. HIDE DEF l
<1>3. r \in Line /\ r.at = now /\ r.hushed = l.hushed /\ r.prior = l.prior /\ r.said = l.said
  BY <1>2 DEF Line
<1>. HIDE DEF r
<1>4. LineOk(r, now)
  BY <1>2, <1>3 DEF LineOk
<1>5. MuteOk'
  BY <1>1, MuteStays DEF BbmOk
<1>. QED  BY <1>1, <1>4, <1>5, LineStep DEF l

\* The check holds of what the last mute promised, although a sweep may have passed.
LEMMA CheckMuteKeeps ==
  ASSUME BbmOk, NEW i \in Lines, CheckMute(i)
  PROVE  BbmOk'
<1>. DEFINE l == [talk[i] EXCEPT !.hushed = promised > now]
            s == [l EXCEPT !.pc = IF l.kind = "explicit" THEN "respond" ELSE "followup"]
<1>1. /\ talk[i].pc = "clocked" /\ Goes(i, IF muted > l.at THEN Ended(l) ELSE s)
      /\ UNCHANGED <<conf, now, muted, convs, promised, taken>>
  BY DEF CheckMute, At
<1>2. talk[i] \in Line /\ LineOk(talk[i], now) /\ now \in Nat
  BY LineFacts
<1>3. (promised > now) \in BOOLEAN
  OBVIOUS
<1>4. /\ l \in Line /\ l.at = talk[i].at /\ (l.hushed <=> promised > now) /\ l.prior = talk[i].prior
      /\ l.said = talk[i].said
  BY <1>2, <1>3 DEF Line
<1>. HIDE DEF l
<1>5. s \in Line /\ s.at = l.at /\ s.hushed = l.hushed /\ s.prior = l.prior /\ s.said = l.said
  BY <1>4 DEF Line
<1>. HIDE DEF s
<1>6. ASSUME ~(muted > l.at) PROVE ~l.hushed
  <2>1. muted \in Nat /\ promised \in Nat /\ (promised > now => muted = promised)
    BY DEF BbmOk, MuteOk
  <2>2. l.at <= now /\ l.at \in Nat
    BY <1>2, <1>4 DEF LineOk, Line
  <2>. QED  BY <1>2, <1>4, <1>6, <2>1, <2>2
<1>7. ~(muted > l.at) => LineOk(s, now)
  BY <1>2, <1>4, <1>5, <1>6 DEF LineOk
<1>8. LineOk(Ended(l), now)
  BY <1>2, <1>4, EndedOk
<1>9. MuteOk'
  BY <1>1, MuteStays DEF BbmOk
<1>. QED  BY <1>1, <1>7, <1>8, <1>9, LineStep

LEMMA SnapshotKeeps ==
  ASSUME BbmOk, NEW i \in Lines, Snapshot(i)
  PROVE  BbmOk'
<1>. DEFINE l == talk[i]
            m == convs[l.nick].messages
            r == [l EXCEPT !.pc = conf.backend, !.at = 0, !.prior = m]
<1>1. l.pc = "respond" /\ Goes(i, r) /\ UNCHANGED <<conf, now, muted, convs, promised, taken>>
  BY DEF Snapshot, At
<1>2. l \in Line /\ LineOk(l, now) /\ l.nick \in Nicks /\ now \in Nat /\ ~l.hushed
  BY <1>1, LineFacts
<1>3. m \in Seq(Entry) /\ Sound(m)
  BY <1>2 DEF BbmOk, ConvsOk, ConvOk, Conv
<1>4. conf.backend \in {"openai", "codex"}
  BY BbmAssumption DEF BbmOk, LinesOk
<1>. HIDE DEF l, m
<1>5. r \in Line /\ r.at = 0 /\ r.hushed = l.hushed /\ r.prior = m /\ r.said = l.said
  BY <1>2, <1>3, <1>4 DEF Line
<1>. HIDE DEF r
<1>6. LineOk(r, now)
  BY <1>2, <1>3, <1>5 DEF LineOk
<1>7. MuteOk'
  BY <1>1, MuteStays DEF BbmOk
<1>. QED  BY <1>1, <1>6, <1>7, LineStep DEF l

LEMMA DeliverKeeps ==
  ASSUME BbmOk, NEW i \in Lines, Deliver(i)
  PROVE  BbmOk'
<1>. DEFINE l == talk[i]
            n == l.text
            told(fits, pasted) == IF n <= MaxLines /\ fits THEN n
                                  ELSE IF pasted THEN LeastOf(n, MaxLines - 1) + 1
                                  ELSE LeastOf(n, MaxLines)
<1>1. /\ l.pc = "deliver" /\ UNCHANGED <<conf, now, muted, convs, promised, taken>>
      /\ \E fits, pasted \in BOOLEAN : Goes(i, [l EXCEPT !.pc = "remember", !.said = told(fits, pasted)])
  BY DEF Deliver, At
<1>2. PICK fits \in BOOLEAN, pasted \in BOOLEAN :
        Goes(i, [l EXCEPT !.pc = "remember", !.said = told(fits, pasted)])
  BY <1>1
<1>3. l \in Line /\ LineOk(l, now) /\ now \in Nat /\ ~l.hushed
  BY <1>1, LineFacts
<1>4. n \in Nat
  BY <1>3 DEF Line
<1>5. told(fits, pasted) \in Nat /\ told(fits, pasted) <= MaxLines
  BY <1>4, BbmAssumption DEF LeastOf
<1>. HIDE DEF l, told
<1>. DEFINE r == [l EXCEPT !.pc = "remember", !.said = told(fits, pasted)]
<1>6. r \in Line /\ r.at = l.at /\ r.hushed = l.hushed /\ r.prior = l.prior /\ r.said = told(fits, pasted)
  BY <1>3, <1>5 DEF Line
<1>. HIDE DEF r
<1>7. LineOk(r, now)
  BY <1>3, <1>5, <1>6 DEF LineOk
<1>8. Goes(i, r)
  BY <1>2 DEF r
<1>9. MuteOk'
  BY <1>1, MuteStays DEF BbmOk
<1>. QED  BY <1>1, <1>7, <1>8, <1>9, LineStep DEF l

\* An answer, or none, of either backend, which may sleep meanwhile.
LEMMA MuteSets ==
  ASSUME MuteOk, UNCHANGED now, (\E s \in Sleeps : Mute(s)) \/ UNCHANGED <<muted, promised>>
  PROVE  MuteOk'
<1>1. Sleeps \subseteq Nat /\ now \in Nat
  BY BbmAssumption DEF MuteOk
<1>2. ASSUME NEW s \in Sleeps, Mute(s) PROVE MuteOk'
  <2>1. muted' = now + s /\ promised' = now + s /\ now + s \in Nat
    BY <1>1, <1>2 DEF Mute
  <2>. QED  BY <1>1, <2>1 DEF MuteOk
<1>. QED  BY <1>2, MuteStays

LEMMA RequestStep ==
  ASSUME BbmOk, NEW i \in Lines, talk[i].pc \in {"openai", "codex"}, RequestKeeps, MuteOk',
         \/ Ends(i)
         \/ \E n \in 0..(MaxLines + 1) : Answers(i, n)
         \/ Goes(i, [talk[i] EXCEPT !.rounds = @ + 1])
  PROVE  BbmOk'
<1>. DEFINE l == talk[i]
<1>1. l \in Line /\ LineOk(l, now) /\ now \in Nat /\ ~l.hushed /\ l.pc # "ended"
  BY LineFacts
<1>2. UNCHANGED <<conf, now, convs, taken>>
  BY DEF RequestKeeps
<1>3. CASE Ends(i)
  BY <1>1, <1>2, <1>3, EndedOk, LineStep DEF Ends
<1>4. CASE Goes(i, [talk[i] EXCEPT !.rounds = @ + 1])
  <2>. DEFINE r == [l EXCEPT !.rounds = @ + 1]
  <2>1. Goes(i, r)
    BY <1>4
  <2>. HIDE DEF l
  <2>2. /\ r \in Line /\ r.at = l.at /\ r.hushed = l.hushed /\ r.prior = l.prior /\ r.said = l.said
        /\ r.pc = l.pc
    BY <1>1, SMTT(20) DEF Line
  <2>. HIDE DEF r
  <2>3. LineOk(r, now)
    BY <1>1, <2>2 DEF LineOk
  <2>. QED  BY <1>1, <1>2, <2>1, <2>3, LineStep DEF l
<1>5. CASE \E n \in 0..(MaxLines + 1) : Answers(i, n)
  <2>1. PICK n \in 0..(MaxLines + 1) : Answers(i, n)
    BY <1>5
  <2>2. n \in Nat
    BY BbmAssumption
  <2>3. CASE n = 0
    BY <1>3, <2>1, <2>3 DEF Answers
  <2>4. CASE n # 0
    <3>. DEFINE r == [l EXCEPT !.text = n, !.pc = "deliver", !.rounds = 0]
    <3>1. Goes(i, r)
      BY <2>1, <2>4 DEF Answers
    <3>. HIDE DEF l
    <3>2. r \in Line /\ r.at = l.at /\ r.hushed = l.hushed /\ r.prior = l.prior /\ r.said = l.said
      BY <1>1, <2>2 DEF Line
    <3>. HIDE DEF r
    <3>3. LineOk(r, now)
      BY <1>1, <3>2 DEF LineOk
    <3>. QED  BY <1>1, <1>2, <3>1, <3>3, LineStep DEF l
  <2>. QED  BY <2>3, <2>4
<1>. QED  BY <1>3, <1>4, <1>5

LEMMA ChatKeeps ==
  ASSUME BbmOk, NEW i \in Lines, Chat(i)
  PROVE  BbmOk'
<1>1. /\ talk[i].pc = "openai" /\ RequestKeeps
      /\ (\E s \in Sleeps : Mute(s)) \/ UNCHANGED <<muted, promised>>
      /\ \/ Ends(i)
         \/ \E n \in 0..(MaxLines + 1) : Answers(i, n)
         \/ Goes(i, [talk[i] EXCEPT !.rounds = @ + 1])
  BY DEF Chat, At
<1>2. MuteOk'
  BY <1>1, MuteSets DEF BbmOk, RequestKeeps
<1>. QED  BY <1>1, <1>2, RequestStep

LEMMA CodexAnswersKeeps ==
  ASSUME BbmOk, NEW i \in Lines, CodexAnswers(i)
  PROVE  BbmOk'
<1>1. /\ talk[i].pc = "codex" /\ RequestKeeps
      /\ (\E s \in Sleeps : Mute(s)) \/ UNCHANGED <<muted, promised>>
      /\ Ends(i) \/ \E n \in 0..(MaxLines + 1) : Answers(i, n)
  BY DEF CodexAnswers, At
<1>2. MuteOk'
  BY <1>1, MuteSets DEF BbmOk, RequestKeeps
<1>. QED  BY <1>1, <1>2, RequestStep
LEMMA NoConvOk ==
  ASSUME NEW n \in Nat, n <= MaxFollowups
  PROVE  ConvOk(NoConv, n) /\ NoConv.messages = <<>> /\ NoConv.remaining = 0
<1>1. NoConv \in Conv /\ NoConv.messages = <<>> /\ NoConv.remaining = 0
  BY NothingSound DEF NoConv, Conv
<1>. QED  BY <1>1, NothingSound DEF ConvOk

\* What the sweep, or a line's own look, makes of a conversation.
LEMMA SweptOk ==
  ASSUME NEW c, NEW n, ConvOk(c, n)
  PROVE  ConvOk(NoConv, n) /\ Len(NoConv.messages) = 0
<1>1. n \in Nat /\ c.remaining \in Nat /\ n + c.remaining <= MaxFollowups
  BY DEF ConvOk, Conv
<1>2. n <= MaxFollowups
  BY <1>1, BbmAssumption
<1>3. Len(NoConv.messages) = 0
  BY <1>1, <1>2, NoConvOk
<1>. QED  BY <1>1, <1>2, <1>3, NoConvOk

LEMMA GcKeeps ==
  ASSUME BbmOk, NEW i \in Lines, Gc(i)
  PROVE  BbmOk'
<1>. DEFINE l == talk[i]
            r == [l EXCEPT !.pc = "heard"]
<1>1. /\ l.pc = "gc" /\ UNCHANGED <<conf, now, promised, taken>>
      /\ Goes(i, r) \/ Goes(i, Ended(l))
  BY DEF Gc, At, To, Ends
<1>2. \/ UNCHANGED <<convs, muted>>
      \/ /\ convs' = [n \in Nicks |-> IF convs[n].expires < now THEN NoConv ELSE convs[n]]
         /\ muted' = IF muted < now THEN 0 ELSE muted
  BY DEF Gc
<1>3. l \in Line /\ LineOk(l, now) /\ now \in Nat /\ ~l.hushed
  BY <1>1, LineFacts
<1>. HIDE DEF l
<1>4. r \in Line /\ r.at = l.at /\ r.hushed = l.hushed /\ r.prior = l.prior /\ r.said = l.said
  BY <1>3 DEF Line
<1>. HIDE DEF r
<1>5. LineOk(r, now) /\ LineOk(Ended(l), now)
  BY <1>3, <1>4, EndedOk DEF LineOk
<1>6. /\ LinesOk' /\ Lines' = Lines
      /\ \A k \in Lines : talk[k].pc = "ended" => talk'[k].pc = "ended"
  BY <1>1, <1>5, LineGoes DEF BbmOk, l
<1>7. MuteOk'
  BY <1>1, <1>2, <1>3 DEF BbmOk, MuteOk
<1>8. \A n \in Nicks : ConvOk(convs[n], taken[n])
  BY DEF BbmOk, ConvsOk
<1>9. DOMAIN convs' = Nicks /\ DOMAIN taken' = Nicks
      /\ \A n \in Nicks : taken'[n] = taken[n] /\ (convs'[n] = convs[n] \/ convs'[n] = NoConv)
  BY <1>1, <1>2 DEF BbmOk, ConvsOk
<1>10. \A n \in Nicks :
         /\ ConvOk(convs'[n], taken'[n])
         /\ \A k \in 1..Len(convs'[n].messages) :
              \E j \in 1..Len(convs[n].messages) : convs'[n].messages[k] = convs[n].messages[j]
  <2>. SUFFICES ASSUME NEW n \in Nicks
                PROVE  /\ ConvOk(convs'[n], taken'[n])
                       /\ \A k \in 1..Len(convs'[n].messages) :
                            \E j \in 1..Len(convs[n].messages) : convs'[n].messages[k] = convs[n].messages[j]
    OBVIOUS
  <2>1. ConvOk(convs[n], taken[n]) /\ taken'[n] = taken[n] /\ (convs'[n] = convs[n] \/ convs'[n] = NoConv)
    BY <1>8, <1>9
  <2>2. ConvOk(NoConv, taken[n]) /\ Len(NoConv.messages) = 0
    BY <2>1, SweptOk
  <2>. QED  BY <2>1, <2>2
<1>11. ConvsOk'
  BY <1>6, <1>9, <1>10, ConvsChange DEF BbmOk
<1>. QED  BY <1>6, <1>7, <1>11 DEF BbmOk

\* A follow-up is taken of those that remain.
LEMMA FollowUpKeeps ==
  ASSUME BbmOk, NEW i \in Lines, FollowUp(i)
  PROVE  BbmOk'
<1>. DEFINE l == talk[i]
            n == l.nick
            c == IF convs[n].expires < l.at THEN NoConv ELSE convs[n]
            d == [c EXCEPT !.remaining = @ - 1]
            r == [l EXCEPT !.pc = "respond"]
<1>1. /\ l.pc = "followup" /\ UNCHANGED <<conf, now, muted, promised>>
      /\ \/ c.remaining = 0 /\ convs' = [convs EXCEPT ![n] = c] /\ Goes(i, Ended(l)) /\ UNCHANGED taken
         \/ /\ c.remaining # 0 /\ convs' = [convs EXCEPT ![n] = d]
            /\ taken' = [taken EXCEPT ![n] = @ + 1] /\ Goes(i, r)
  BY DEF FollowUp, At, To, Ends
<1>2. l \in Line /\ LineOk(l, now) /\ now \in Nat /\ ~l.hushed /\ n \in Nicks
  BY <1>1, LineFacts
<1>3. \A k \in Nicks : ConvOk(convs[k], taken[k])
  BY DEF BbmOk, ConvsOk
<1>4. DOMAIN convs = Nicks /\ DOMAIN taken = Nicks
  BY DEF BbmOk, ConvsOk
<1>5. /\ ConvOk(c, taken[n])
      /\ \A k \in 1..Len(c.messages) :
           \E j \in 1..Len(convs[n].messages) : c.messages[k] = convs[n].messages[j]
  <2>1. ConvOk(convs[n], taken[n]) /\ (c = convs[n] \/ c = NoConv)
    BY <1>2, <1>3
  <2>. HIDE DEF c, n, l
  <2>2. ConvOk(NoConv, taken[n]) /\ Len(NoConv.messages) = 0
    BY <2>1, SweptOk
  <2>. QED  BY <2>1, <2>2
<1>. HIDE DEF c, n, l
<1>6. r \in Line /\ r.at = l.at /\ r.hushed = l.hushed /\ r.prior = l.prior /\ r.said = l.said
  BY <1>2 DEF Line
<1>. HIDE DEF r
<1>7. LineOk(r, now) /\ LineOk(Ended(l), now)
  BY <1>2, <1>6, EndedOk DEF LineOk
<1>8. /\ LinesOk' /\ Lines' = Lines
      /\ \A k \in Lines : talk[k].pc = "ended" => talk'[k].pc = "ended"
  BY <1>1, <1>7, LineGoes DEF BbmOk, l
<1>9. ASSUME c.remaining # 0 PROVE ConvOk(d, taken[n] + 1) /\ d.messages = c.messages
  <2>1. c \in Conv /\ c.remaining \in Nat /\ taken[n] \in Nat /\ taken[n] + c.remaining <= MaxFollowups
        /\ Sound(c.messages)
    BY <1>5 DEF ConvOk, Conv
  <2>2. c.remaining - 1 \in Nat
    BY <1>9, <2>1
  <2>3. d \in Conv /\ d.messages = c.messages /\ d.remaining = c.remaining - 1
    BY <2>1, <2>2 DEF Conv
  <2>. HIDE DEF d
  <2>4. (taken[n] + 1) + (c.remaining - 1) = taken[n] + c.remaining
    BY <2>1
  <2>. QED  BY <2>1, <2>3, <2>4 DEF ConvOk
<1>. HIDE DEF d
<1>10. /\ DOMAIN convs' = Nicks /\ DOMAIN taken' = Nicks
       /\ \A k \in Nicks : k # n => convs'[k] = convs[k] /\ taken'[k] = taken[k]
       /\ \/ convs'[n] = c /\ taken'[n] = taken[n]
          \/ c.remaining # 0 /\ convs'[n] = d /\ taken'[n] = taken[n] + 1
  BY <1>1, <1>2, <1>4
<1>11. ASSUME NEW k \in Nicks
       PROVE  /\ ConvOk(convs'[k], taken'[k])
              /\ \A x \in 1..Len(convs'[k].messages) :
                   \E j \in 1..Len(convs[k].messages) : convs'[k].messages[x] = convs[k].messages[j]
  <2>1. CASE k # n
    BY <1>3, <1>10, <2>1
  <2>2. CASE k = n
    BY <1>5, <1>9, <1>10, <2>2
  <2>. QED  BY <2>1, <2>2
<1>12. ConvsOk'
  BY <1>8, <1>10, <1>11, ConvsChange DEF BbmOk
<1>13. MuteOk'
  BY <1>1, MuteStays DEF BbmOk
<1>. QED  BY <1>8, <1>12, <1>13 DEF BbmOk

\* A line's pair is new to its conversation, for the lines there have ended.
LEMMA RememberKeeps ==
  ASSUME BbmOk, NEW i \in Lines, Remember(i)
  PROVE  BbmOk'
<1>. DEFINE l == talk[i]
            n == l.nick
            s == convs[n].messages
            t == LastOf(PairOn(s, i), Keep)
            m == IF l.kind = "explicit" THEN MaxFollowups ELSE convs[n].remaining
            d == [there |-> TRUE, messages |-> t, remaining |-> m, expires |-> now + Window]
            e == IF l.kind = "explicit" THEN 0 ELSE taken[n]
<1>1. /\ l.pc = "remember" /\ Goes(i, Ended(l)) /\ UNCHANGED <<conf, now, muted, promised>>
  BY DEF Remember, At, Ends
<1>2. l \in Line /\ LineOk(l, now) /\ now \in Nat /\ n \in Nicks /\ i \in Nat
  BY <1>1, LineFacts
<1>3. /\ DOMAIN convs = Nicks /\ DOMAIN taken = Nicks
      /\ \A k \in Nicks : ConvOk(convs[k], taken[k])
  BY DEF BbmOk, ConvsOk
<1>4. convs' = [convs EXCEPT ![n] = d] /\ taken' = [taken EXCEPT ![n] = e]
  BY <1>2, <1>3 DEF Remember, PairOn
<1>5. /\ s \in Seq(Entry) /\ Even(s) /\ Distinct(s)
      /\ convs[n].remaining \in Nat /\ taken[n] \in Nat /\ taken[n] + convs[n].remaining <= MaxFollowups
  BY <1>2, <1>3 DEF ConvOk, Conv, Sound
<1>6. \A k \in 1..Len(s) : s[k][2] # i
  <2>1. Known(s)
    BY <1>2 DEF BbmOk, ConvsOk
  <2>. QED  BY <1>1, <2>1 DEF Known
<1>7. LineOk(Ended(l), now) /\ Ended(l).pc = "ended"
  BY <1>2, EndedOk
<1>8. /\ LinesOk' /\ Lines' = Lines /\ talk'[i].pc = "ended"
      /\ \A k \in Lines : talk[k].pc = "ended" => talk'[k].pc = "ended"
  BY <1>1, <1>7, LineGoes DEF BbmOk
<1>. HIDE DEF l, n, s
<1>9. /\ PairOn(s, i) \in Seq(Entry) /\ Even(PairOn(s, i)) /\ Distinct(PairOn(s, i))
  BY <1>2, <1>5, <1>6, PairsGrow, PairedOn
<1>10. /\ t \in Seq(Entry) /\ Sound(t)
       /\ \A k \in 1..Len(t) : \E j \in 1..Len(PairOn(s, i)) : t[k] = PairOn(s, i)[j]
  BY <1>9, LastSound
<1>11. ASSUME NEW j \in 1..Len(PairOn(s, i))
       PROVE  (\E k \in 1..Len(s) : PairOn(s, i)[j] = s[k]) \/ PairOn(s, i)[j][2] = i
  <2>1. /\ Len(PairOn(s, i)) = Len(s) + 2 /\ Len(s) \in Nat
        /\ \A k \in 1..Len(s) : PairOn(s, i)[k] = s[k]
        /\ PairOn(s, i)[Len(s) + 1] = <<"user", i>> /\ PairOn(s, i)[Len(s) + 2] = <<"bot", i>>
    BY <1>2, <1>5, PairsGrow
  <2>2. j \in 1..Len(s) \/ j = Len(s) + 1 \/ j = Len(s) + 2
    BY <2>1
  <2>3. <<"user", i>>[2] = i /\ <<"bot", i>>[2] = i
    OBVIOUS
  <2>. QED  BY <2>1, <2>2, <2>3
<1>. HIDE DEF t
<1>12. \A k \in 1..Len(t) : (\E j \in 1..Len(s) : t[k] = s[j]) \/ t[k][2] = i
  BY <1>10, <1>11
<1>13. m \in Nat /\ e \in Nat /\ e + m <= MaxFollowups
  BY <1>5, BbmAssumption
<1>14. now + Window \in Int
  BY <1>2, BbmAssumption
<1>. HIDE DEF m, e
<1>15. d \in Conv /\ d.messages = t /\ d.remaining = m
  BY <1>10, <1>13, <1>14 DEF Conv
<1>. HIDE DEF d
<1>16. ConvOk(d, e)
  BY <1>10, <1>13, <1>15 DEF ConvOk
<1>17. /\ DOMAIN convs' = Nicks /\ DOMAIN taken' = Nicks
       /\ \A k \in Nicks : k # n => convs'[k] = convs[k] /\ taken'[k] = taken[k]
       /\ convs'[n] = d /\ taken'[n] = e
  BY <1>2, <1>3, <1>4
<1>18. ASSUME NEW k \in Nicks
       PROVE  /\ ConvOk(convs'[k], taken'[k])
              /\ \A x \in 1..Len(convs'[k].messages) :
                   \/ \E j \in 1..Len(convs[k].messages) : convs'[k].messages[x] = convs[k].messages[j]
                   \/ convs'[k].messages[x][2] = i /\ talk'[i].pc = "ended"
  <2>1. CASE k # n
    BY <1>3, <1>17, <2>1
  <2>2. CASE k = n
    BY <1>8, <1>12, <1>15, <1>16, <1>17, <2>2 DEF s
  <2>. QED  BY <2>1, <2>2
<1>19. ConvsOk'
  BY <1>8, <1>17, <1>18, ConvsChange DEF BbmOk
<1>20. MuteOk'
  BY <1>1, MuteStays DEF BbmOk
<1>. QED  BY <1>8, <1>19, <1>20 DEF BbmOk

LEMMA BbmInductive == Spec => []BbmOk
<1>1. Init => BbmOk
  <2>. SUFFICES ASSUME Init PROVE BbmOk
    OBVIOUS
  <2>1. conf \in Confs /\ now = 1 /\ muted = 0 /\ promised = 0 /\ talk = <<>>
        /\ convs = [n \in Nicks |-> NoConv] /\ taken = [n \in Nicks |-> 0]
    BY DEF Init
  <2>2. LinesOk
    BY <2>1 DEF LinesOk, Lines
  <2>3. MuteOk
    BY <2>1 DEF MuteOk
  <2>4. ConvOk(NoConv, 0) /\ Len(NoConv.messages) = 0
    BY NoConvOk, BbmAssumption
  <2>5. ConvsOk
    BY <2>1, <2>4 DEF ConvsOk, Known
  <2>. QED  BY <2>2, <2>3, <2>5 DEF BbmOk
<1>2. BbmOk /\ [Next]_bbmVars => BbmOk'
  <2>. SUFFICES ASSUME BbmOk, [Next]_bbmVars PROVE BbmOk'
    OBVIOUS
  <2>1. CASE UNCHANGED <<conf, now, muted, convs, talk, promised, taken>>
    BY <2>1 DEF BbmOk, LinesOk, ConvsOk, MuteOk, Known, Lines
  <2>2. CASE Tick
    BY <2>2, TickKeeps
  <2>3. ASSUME NEW n \in Nicks, NEW k \in {"explicit", "plain", "command"}, Hear(n, k) PROVE BbmOk'
    BY <2>3, HearKeeps
  <2>4. ASSUME NEW i \in Lines, Handler(i) PROVE BbmOk'
    <3>1. ~CodexSteps(i) => BbmOk'
      BY <2>4, GcKeeps, ReadClockKeeps, CheckMuteKeeps, FollowUpKeeps, SnapshotKeeps, ChatKeeps,
         CodexAnswersKeeps, DeliverKeeps, RememberKeeps DEF Handler
    <3>2. CodexSteps(i) => UNCHANGED <<conf, now, muted, convs, talk, promised, taken>>
      BY DEF CodexSteps, RequestKeeps
    <3>. QED  BY <2>1, <3>1, <3>2
  <2>5. ASSUME NEW i \in Lines, CodexServes(i) \/ CodexDeadline(i) PROVE BbmOk'
    BY <2>1, <2>5 DEF CodexServes, CodexDeadline, RequestKeeps
  <2>6. CASE UNCHANGED bbmVars
    BY <2>1, <2>6 DEF bbmVars
  <2>. QED  BY <2>2, <2>3, <2>4, <2>5, <2>6 DEF Next
<1>. QED  BY <1>1, <1>2, PTL DEF Spec

\* A line that comes to be judged before the end of what the last mute promised is not answered,
\* whatever was swept since; and no answer takes more lines than max_lines
\* (_mute, _gc, heard, _deliver): for any number of lines at once.
THEOREM BotSpeaksAsTold == Spec => []SpeaksAsTold
<1>1. BbmOk => SpeaksAsTold
  BY DEF BbmOk, LinesOk, LineOk, SpeaksAsTold
<1>. QED  BY <1>1, BbmInductive, PTL

\* A conversation, as it is kept and as it is sent, is pairs of a line and its reply, no line
\* twice, and of an explicit reply no more follow-ups are taken than max_followups
\* (_respond, heard): for any number of nicks, and of lines answered at once.
THEOREM ConversationsStaySound == Spec => []ConversationsAreSound
<1>1. BbmOk => ConversationsAreSound
  <2>. SUFFICES ASSUME BbmOk PROVE ConversationsAreSound
    OBVIOUS
  <2>1. ASSUME NEW n \in Nicks
        PROVE  Paired(convs[n].messages) /\ taken[n] + convs[n].remaining <= MaxFollowups
    <3>1. ConvOk(convs[n], taken[n])
      BY DEF BbmOk, ConvsOk
    <3>2. convs[n].messages \in Seq(Entry) /\ Sound(convs[n].messages)
      BY <3>1 DEF ConvOk, Conv
    <3>. QED  BY <3>1, <3>2, SoundIsPaired DEF ConvOk
  <2>2. ASSUME NEW i \in Lines PROVE Paired(talk[i].prior)
    <3>1. talk[i].prior \in Seq(Entry) /\ Sound(talk[i].prior)
      BY DEF BbmOk, LinesOk, LineOk, Line
    <3>. QED  BY <3>1, SoundIsPaired
  <2>. QED  BY <2>1, <2>2 DEF ConversationsAreSound
<1>. QED  BY <1>1, BbmInductive, PTL
=============================================================================
