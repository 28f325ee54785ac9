---------------------------- MODULE MessageText ----------------------------
(***************************************************************************)
(* What becomes of a message on its way to sendLine: BurlyBot.sendmsg,        *)
(* _buildmsg and assembleMsgWLen (util/client.py) over splitEncodedUnicode     *)
(* (util/helpers.py).  A line has so many bytes, a character one to four of    *)
(* them; a text is a sequence of characters, told apart by their width.       *)
(* A template is a text with fields, formatted with one text for each.         *)
(***************************************************************************)
EXTENDS Integers, FiniteSets, SequencesExt

CONSTANT MaxParts         \* the lines of one split message (4 in _buildmsg)

VARIABLES request, built  \* the call, and its lines once they are made

Field == "{0}"            \* in a template; unformatted it is three characters
Width(c) == CASE c \in {"a", ","} -> 1 [] c = "e" -> 2 [] c = "k" -> 3
Size(s) == FoldLeft(LAMBDA n, c : n + Width(c), 0, s)

\* Mutant: the character at the limit is taken along.
FittingOneMore(s, n) ==
  CHOOSE k \in 0..Len(s) : /\ \A j \in 0..k - 1 : Size(SubSeq(s, 1, j)) < n
                           /\ k < Len(s) => Size(SubSeq(s, 1, k)) >= n

\* how many characters of s there is room for in n bytes, none of them cut
Fitting(s, n) ==
  CHOOSE k \in 0..Len(s) : /\ Size(SubSeq(s, 1, k)) <= n
                           /\ k < Len(s) => Size(SubSeq(s, 1, k + 1)) > n

\* at most n segments of that size; a character no segment can hold leaves an empty one
splitEncodedUnicode(s, size, n) ==
  LET cut[m \in 0..n, from \in 1..Len(s) + 1] ==
        LET rest == SubSeq(s, from, Len(s))
            k == Fitting(rest, size)
        IN IF m = 0 \/ rest = <<>> THEN <<>>
           ELSE <<SubSeq(rest, 1, k)>> \o cut[m - 1, from + IF k = 0 THEN 1 ELSE k]
  IN IF size < 1 THEN <<<<>>>>
     ELSE IF Size(s) <= size THEN <<s>>
     ELSE cut[n, 1]
Trimmed(s, size) == splitEncodedUnicode(s, size, 1)[1]

----------------------------------------------------------------------------
(* assembleMsgWLen: texts trimmed to what a template leaves of the line.     *)

Format(s, texts) ==
  LET nth(i) == Cardinality({j \in 1..i : s[j] = Field})
  IN FlattenSeq([i \in DOMAIN s |-> IF s[i] = Field THEN texts[nth(i)] ELSE <<s[i]>>])
Blank(texts) == [i \in DOMAIN texts |-> <<>>]
Unformatted(s) == FlattenSeq([i \in DOMAIN s |-> IF s[i] = Field THEN <<"a", "a", "a">> ELSE <<s[i]>>])

\* what fits of each in turn; sep after all but the last, while it leaves room for more
FirstServed(texts, avail, sep) ==
  FoldLeft(LAMBDA acc, text :
             LET t == Trimmed(text, acc.avail)
                 left == acc.avail - Size(t)
                 last == Len(acc.out) + 1 = Len(texts)
             IN IF sep = <<>> \/ last THEN [avail |-> left, out |-> Append(acc.out, t)]
                ELSE IF left < Size(sep) + 2 THEN [avail |-> 0, out |-> Append(acc.out, t)]
                ELSE [avail |-> left - Size(sep), out |-> Append(acc.out, t \o sep)],
           [avail |-> avail, out |-> <<>>], texts).out

\* the whole of those that fit, each with sep before it unless it is the first
WholeOnes(texts, avail, sep) ==
  FoldLeft(LAMBDA acc, text :
             LET t == IF acc.some THEN sep \o text ELSE text
             IN IF Size(t) <= acc.avail
                THEN [some |-> TRUE, avail |-> acc.avail - Size(t), out |-> Append(acc.out, t)]
                ELSE [acc EXCEPT !.out = Append(@, <<>>)],
           [some |-> FALSE, avail |-> avail, out |-> <<>>], texts).out

\* an equal share for each, after the separators
EvenShares(texts, avail, sep) ==
  LET n == Len(texts)
      share == IF sep = <<>> THEN avail \div n
               ELSE Max({0, (avail - (n - 1) * Size(sep)) \div n})
  IN [i \in 1..n |-> Trimmed(texts[i], share) \o IF i < n THEN sep ELSE <<>>]

\* sep = <<>> stands for no joinsep; with one the texts go into the one field
Shared(how, texts, avail, sep) ==
  CASE how = "whole" -> WholeOnes(texts, avail, sep)
    [] how = "first" -> FirstServed(texts, avail, sep)
    [] how = "even"  -> EvenShares(texts, avail, sep)
Into(s, texts, sep) == Format(s, IF sep = <<>> THEN texts ELSE <<FlattenSeq(texts)>>)

assembleMsgWLen(s, room, strins, how, sep) ==
  LET bare == Into(s, Blank(strins), sep)
      avail == room - Size(bare)
  IN IF how = "one"
     THEN IF avail <= 0 THEN Trimmed(Unformatted(s), Len(Unformatted(s)) + avail)
          ELSE Format(s, <<Trimmed(strins[1], avail)>>)
     ELSE IF avail < 0 THEN Trimmed(bare, Len(bare) + avail)
     ELSE Into(s, Shared(how, strins, avail, sep), sep)

----------------------------------------------------------------------------
(* _buildmsg and sendmsg.  r.head is "PRIVMSG target :", r.msg the message    *)
(* line by line, r.room what calcAvailableMsgLength("") gives.               *)

Whole(r) == r.head \o FlattenSeq(r.msg)

\* if strins: a text that is empty counts as none, and then the message is no template
Templated(r) == r.strins # <<>> /\ ~(r.how = "one" /\ r.strins[1] = <<>>)
Literal(r) == [r EXCEPT !.msg = [i \in DOMAIN r.msg |-> Unformatted(r.msg[i])]]

\* said of a message for which there is nothing to put in
checkSendMsg(r) == Size(Whole(r)) <= r.room

\* each line in as many segments as MaxParts still allows
SplitParts(r) ==
  FoldLeft(LAMBDA parts, line :
             IF Len(parts) >= MaxParts THEN parts
             ELSE parts \o splitEncodedUnicode(line, r.room - Size(r.head), MaxParts - Len(parts)),
           <<>>, r.msg)

Plain(r) ==
  IF r.split THEN [i \in DOMAIN SplitParts(r) |-> r.head \o SplitParts(r)[i]]
  ELSE <<r.head \o Trimmed(FlattenSeq(r.msg), r.room - Size(r.head))>>

Built(r) ==
  IF Templated(r) THEN <<assembleMsgWLen(Whole(r), r.room, r.strins, r.how, r.sep)>>
                  ELSE Plain(Literal(r))

Unbuilt == <<<<"unbuilt">>>>
TextInit(requests) == request \in requests /\ built = Unbuilt

\* a hook that overrides sendmsg sends the message itself, unless it is direct
sendmsg ==
  /\ built = Unbuilt
  /\ built' = IF request.override /\ ~request.direct THEN <<>> ELSE Built(request)
  /\ UNCHANGED request

----------------------------------------------------------------------------
(* Properties.                                                             *)

\* Two cases in which the line may be too long: a template for a single text that is
\* too long itself, and separators that are.
TooLongAnyway(r) ==
  /\ Templated(r)
  /\ LET avail == r.room - Size(Into(Whole(r), Blank(r.strins), r.sep)) IN
     \/ r.how = "one" /\ avail <= 0
     \/ r.how = "even" /\ avail < (Len(r.strins) - 1) * Size(r.sep)

\* No line is longer than the server passes on, however wide its characters are and
\* whatever is put in.
LinesFit ==
  ~TooLongAnyway(request) => \A i \in DOMAIN built : Size(built[i]) <= request.room

\* A message for which checkSendMsg is true is sent whole; a split one loses no text
\* between its lines, and none at all unless MaxParts are sent.  A message that is not
\* formatted is sent as it is written, the fields it has included.
NothingIsDropped ==
  LET r == Literal(request)  n == Size(r.head) IN
  ~Templated(request) /\ built # <<>> /\ r.room - n >= 3 =>
    IF ~r.split THEN checkSendMsg(r) <=> built = <<Whole(r)>>
    ELSE LET body == FlattenSeq([i \in DOMAIN built |-> SubSeq(built[i], Len(r.head) + 1, Len(built[i]))]) IN
         /\ IsPrefix(body, FlattenSeq(r.msg)) /\ Len(built) <= MaxParts
         /\ Len(built) < MaxParts => body = FlattenSeq(r.msg)

\* Texts that fit together are sent whole where the template gives each what it needs.
\* A single empty text is excepted: its template is sent unformatted, fields and all.
WholeTextsWhenTheyFit ==
  LET r == request  all == Format(Whole(r), r.strins) IN
  Templated(r) /\ r.sep = <<>> /\ r.how # "even" /\ built # <<>>
    /\ Size(Format(Whole(r), Blank(r.strins))) < r.room /\ Size(all) <= r.room
      => built = <<all>>

\* A message becomes lines that fit the connection, with as much of it as they hold
\* (sendmsg, _buildmsg, assembleMsgWLen, splitEncodedUnicode).
MessagesFit == built # Unbuilt => LinesFit /\ NothingIsDropped /\ WholeTextsWhenTheyFit
============================================================================
