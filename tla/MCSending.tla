----------------------------- MODULE MCSending -----------------------------
(***************************************************************************)
(* Instance for TLC of the three legs of sending, which share no state: the   *)
(* way of a handler's call to a connection (Outbound), of its message into     *)
(* lines (MessageText), and of a line out of the connection (Throttle).        *)
(* LineQueue, which Throttle implements, is what the others need of it, so a   *)
(* behaviour here runs one leg and leaves the others at rest.                  *)
(***************************************************************************)
EXTENDS Throttle, Outbound, FiniteSets

CONSTANTS line1, line2, h1, h2, MaxParts

MCLine == {line1, line2}
MCHandlers == {h1, h2}
MCRaising == {<<h2, 2>>}

\* Messages of up to four characters of one to three bytes, and rooms about as long.
Words(n) == UNION {[1..k -> {"a", "e", "k"}] : k \in 0..n}
Few == {<<>>, <<"a">>, <<"a", "k">>, <<"e", "e">>}
Request == [head |-> <<"a">>, msg |-> <<>>, room |-> 6, split |-> FALSE, strins |-> <<>>,
            how |-> "one", sep |-> <<>>, override |-> FALSE, direct |-> FALSE]
F == "{0}"
Texts ==
  {[Request EXCEPT !.msg = <<w>>, !.room = n] : w \in Words(4), n \in 2..9}
  \cup {[Request EXCEPT !.msg = m, !.room = n, !.split = TRUE] :
          m \in {<<v, w>> : v \in Words(3), w \in Few} \cup {<<u, v, w>> : u, v, w \in Few}, n \in 2..6}
  \cup {[Request EXCEPT !.msg = <<m>>, !.room = n, !.strins = <<w>>] :
          m \in {<<F>>, <<"k", F>>, <<F, "a">>}, w \in Words(3), n \in 1..9}
  \cup {[Request EXCEPT !.msg = <<m>>, !.room = n, !.strins = <<v, w>>, !.how = h] :
          m \in {<<F, F>>, <<"k", F, "a", F>>}, v, w \in Words(2), n \in 1..9, h \in {"first", "even", "whole"}}
  \cup {[Request EXCEPT !.msg = <<<<F>>>>, !.room = n, !.strins = <<u, v, w>>, !.how = h, !.sep = s] :
          u, v, w \in Few, n \in 1..10, h \in {"first", "even", "whole"}, s \in {<<",">>, <<",", "a">>}}
  \cup {[Request EXCEPT !.msg = <<<<"a">>>>, !.override = o, !.direct = d] : o, d \in BOOLEAN}

VARIABLES part,           \* which leg runs
          request, built

textVars == <<request, built>>
allVars == <<part, vars, outboundVars, textVars>>

M == INSTANCE MessageText

SendingInit ==
  /\ part \in {"lines", "calls", "text"}
  /\ Init /\ (part # "lines" => now = 2 * Second + 1)
  /\ OutboundInit
  /\ M!TextInit(IF part = "text" THEN Texts ELSE {Request})

Runs(leg, step) == part = leg /\ step /\ UNCHANGED part
LineStep(step) == Runs("lines", step) /\ UNCHANGED <<outboundVars, textVars>>
CallStep(step) == Runs("calls", step) /\ UNCHANGED <<vars, textVars>>
TextStep(step) == Runs("text", step) /\ UNCHANGED <<vars, outboundVars>>

SendingNext == LineStep(Next) \/ CallStep(OutboundNext) \/ TextStep(M!sendmsg)

\* The fairness of each leg while it runs.
SendingSpec ==
  /\ SendingInit /\ [][SendingNext]_allVars
  /\ WF_allVars(LineStep(DrainLine)) /\ WF_allVars(LineStep(Tick))
  /\ WF_allVars(CallStep(RunCall)) /\ WF_allVars(CallStep(CheckQueue))

\* Whatever is said in whatever room, each line fits the connection and as much of the
\* message is sent as that allows (sendmsg, assembleMsgWLen, splitEncodedUnicode).
MessagesFit == M!MessagesFit
============================================================================
