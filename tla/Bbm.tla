-------------------------------- MODULE Bbm --------------------------------
(***************************************************************************)
(* pyburlybot_modules/bbm.py: the AI chat harness in one channel.  Every      *)
(* line is handled in a pool thread: the sweep, the mute, the follow-up,      *)
(* the request, the delivery and the conversation's record are steps of its   *)
(* own, the shared dictionaries' under _lock.  The codex backend's request    *)
(* is module CodexTurn.  The history the requests carry is left out.          *)
(***************************************************************************)
EXTENDS CodexTurn, FiniteSets, Integers

CONSTANTS Nicks,
          Confs,      \* what this is run with: backend, kinds of lines; lines and until are bounds
          Keep, MaxFollowups, MaxLines, ToolRounds,
          Window, Sleeps, GcInterval    \* in units of the clock

ASSUME BbmAssumption ==
  /\ Keep \in Nat /\ Keep % 2 = 0 /\ MaxLines \in Nat \ {0} /\ MaxFollowups \in Nat
  /\ Window \in Int /\ Sleeps \subseteq Nat
  /\ \A c \in Confs : c.backend \in {"openai", "codex"}

VARIABLES
  conf, now,
  muted, gcDue,       \* _muted[the channel] (0: none), _gc_due
  convs,              \* _conversations
  talk,               \* the lines heard, each with its handler's state
  promised,           \* what the last _mute promised (history)
  taken               \* follow-ups taken of a nick since its last explicit reply (history)

bbmVars == <<turnVars, conf, now, muted, gcDue, convs, talk, promised, taken>>

NoConv == [there |-> FALSE, messages |-> <<>>, remaining |-> 0, expires |-> 0]

Init ==
  /\ conf \in Confs /\ TurnInit
  /\ now = 1 /\ muted = 0 /\ gcDue = 0 /\ promised = 0
  /\ convs = [n \in Nicks |-> NoConv] /\ taken = [n \in Nicks |-> 0]
  /\ talk = <<>>

Lines == DOMAIN talk
At(i, pc) == talk[i].pc = pc
Goes(i, r) == talk' = [talk EXCEPT ![i] = r]
To(i, pc) == Goes(i, [talk[i] EXCEPT !.pc = pc])
Ended(l) == [l EXCEPT !.pc = "ended", !.at = 0, !.prior = <<>>, !.rounds = 0, !.text = 0, !.said = 0]
Ends(i) == Goes(i, Ended(talk[i]))

Tick == now < conf.until /\ now' = now + 1
        /\ UNCHANGED <<turnVars, conf, muted, gcDue, convs, talk, promised, taken>>

\* explicit: the bot's nick in it, or private; plain: neither
Hear(n, kind) ==
  /\ Len(talk) < conf.lines /\ kind \in conf.kinds
  /\ talk' = Append(talk, [nick |-> n, kind |-> kind, pc |-> "gc", at |-> 0, hushed |-> FALSE,
                           prior |-> <<>>, rounds |-> 0, text |-> 0, said |-> 0])
  /\ UNCHANGED <<turnVars, conf, now, muted, gcDue, convs, promised, taken>>

\* Mutant: a mute is swept when it has yet to end.
GcAnyMute(i) ==
  /\ At(i, "gc")
  /\ IF now < gcDue THEN UNCHANGED <<gcDue, convs, muted>>
     ELSE /\ gcDue' = now + GcInterval
          /\ convs' = [n \in Nicks |-> IF convs[n].expires < now THEN NoConv ELSE convs[n]]
          /\ muted' = 0
  /\ IF talk[i].kind = "command" THEN Ends(i) ELSE To(i, "heard")
  /\ UNCHANGED <<turnVars, conf, now, promised, taken>>

\* _gc; a command, or an ignored nick's line, is for the history only
Gc(i) ==
  /\ At(i, "gc")
  /\ IF now < gcDue THEN UNCHANGED <<gcDue, convs, muted>>
     ELSE /\ gcDue' = now + GcInterval
          /\ convs' = [n \in Nicks |-> IF convs[n].expires < now THEN NoConv ELSE convs[n]]
          /\ muted' = IF muted < now THEN 0 ELSE muted
  /\ IF talk[i].kind = "command" THEN Ends(i) ELSE To(i, "heard")
  /\ UNCHANGED <<turnVars, conf, now, promised, taken>>

\* the clock, read before the lock
ReadClock(i) ==
  /\ At(i, "heard") /\ Goes(i, [talk[i] EXCEPT !.pc = "clocked", !.at = now])
  /\ UNCHANGED <<turnVars, conf, now, muted, gcDue, convs, promised, taken>>

CheckMute(i) ==
  /\ At(i, "clocked")
  /\ LET l == [talk[i] EXCEPT !.hushed = promised > now] IN
     Goes(i, IF muted > l.at THEN Ended(l)
             ELSE [l EXCEPT !.pc = IF l.kind = "explicit" THEN "respond" ELSE "followup"])
  /\ UNCHANGED <<turnVars, conf, now, muted, gcDue, convs, promised, taken>>

\* Mutant: a follow-up does not use one up.
FollowUpFree(i) ==
  /\ At(i, "followup")
  /\ LET n == talk[i].nick
         c == IF convs[n].expires < talk[i].at THEN NoConv ELSE convs[n] IN
     IF c.remaining = 0 THEN /\ convs' = [convs EXCEPT ![n] = c] /\ Ends(i)
                             /\ UNCHANGED taken
     ELSE /\ taken' = [taken EXCEPT ![n] = @ + 1] /\ To(i, "respond") /\ UNCHANGED convs
  /\ UNCHANGED <<turnVars, conf, now, muted, gcDue, promised>>

FollowUp(i) ==
  /\ At(i, "followup")
  /\ LET n == talk[i].nick
         c == IF convs[n].expires < talk[i].at THEN NoConv ELSE convs[n] IN
     IF c.remaining = 0 THEN /\ convs' = [convs EXCEPT ![n] = c] /\ Ends(i)
                             /\ UNCHANGED taken
     ELSE /\ convs' = [convs EXCEPT ![n] = [c EXCEPT !.remaining = @ - 1]]
          /\ taken' = [taken EXCEPT ![n] = @ + 1]
          /\ To(i, "respond")
  /\ UNCHANGED <<turnVars, conf, now, muted, gcDue, promised>>

\* what the conversation is by now goes with the request
Snapshot(i) ==
  /\ At(i, "respond")
  /\ Goes(i, [talk[i] EXCEPT !.pc = conf.backend, !.at = 0,
                             !.prior = convs[talk[i].nick].messages])
  /\ UNCHANGED <<turnVars, conf, now, muted, gcDue, convs, promised, taken>>

----------------------------------------------------------------------------
(* The request.  The model answers what it likes.                           *)

Mute(s) == muted' = now + s /\ promised' = now + s
Answers(i, n) == IF n = 0 THEN Ends(i) ELSE Goes(i, [talk[i] EXCEPT !.text = n, !.pc = "deliver", !.rounds = 0])
RequestKeeps == UNCHANGED <<conf, now, gcDue, convs, taken>>

\* _respond_openai: a plain answer, an error, or a round of tool calls, of which the
\* model is offered ToolRounds; sleep is the tool that matters here
Chat(i) ==
  /\ At(i, "openai") /\ RequestKeeps /\ UNCHANGED turnVars
  /\ \/ Ends(i) /\ UNCHANGED <<muted, promised>>
     \/ \E n \in 0..MaxLines + 1 : Answers(i, n) /\ UNCHANGED <<muted, promised>>
     \/ /\ talk[i].rounds < ToolRounds
        /\ Goes(i, [talk[i] EXCEPT !.rounds = @ + 1])
        /\ (\E s \in Sleeps : Mute(s)) \/ UNCHANGED <<muted, promised>>

\* run_turn
CodexSteps(i) == At(i, "codex") /\ TurnStep(i) /\ RequestKeeps /\ UNCHANGED <<talk, muted, promised>>
CodexServes(i) == CodexServer(i) /\ RequestKeeps /\ UNCHANGED <<talk, muted, promised>>
CodexDeadline(i) == At(i, "codex") /\ Deadline(i) /\ RequestKeeps /\ UNCHANGED <<talk, muted, promised>>

\* _apply_sleep_directive, and the text that is left
CodexAnswers(i) ==
  /\ At(i, "codex") /\ TurnEnded(i) /\ RequestKeeps /\ UNCHANGED turnVars
  /\ IF turn[i].phase = "failed" \/ turn[i].texts = <<>>
     THEN Ends(i) /\ UNCHANGED <<muted, promised>>
     ELSE /\ \E n \in 0..MaxLines + 1 : Answers(i, n)
          /\ (\E s \in Sleeps : Mute(s)) \/ UNCHANGED <<muted, promised>>

----------------------------------------------------------------------------

LeastOf(a, b) == IF a < b THEN a ELSE b

\* _deliver: the lines where they are few and short enough, with a paste the first ones
\* and its URL, or what may be said without it
Deliver(i) ==
  /\ At(i, "deliver")
  /\ LET n == talk[i].text IN
     \E fits, pasted \in BOOLEAN :
       Goes(i, [talk[i] EXCEPT !.pc = "remember",
                               !.said = IF n <= MaxLines /\ fits THEN n
                                        ELSE IF pasted THEN LeastOf(n, MaxLines - 1) + 1
                                        ELSE LeastOf(n, MaxLines)])
  /\ UNCHANGED <<turnVars, conf, now, muted, gcDue, convs, promised, taken>>

LastOf(s, k) == IF Len(s) <= k THEN s ELSE SubSeq(s, Len(s) - k + 1, Len(s))

\* the end of _respond
Remember(i) ==
  /\ At(i, "remember") /\ Ends(i)
  /\ LET n == talk[i].nick IN
     /\ convs' = [convs EXCEPT ![n] =
          [there |-> TRUE, messages |-> LastOf(@.messages \o <<<<"user", i>>, <<"bot", i>>>>, Keep),
           remaining |-> IF talk[i].kind = "explicit" THEN MaxFollowups ELSE @.remaining,
           expires |-> now + Window]]
     /\ taken' = [taken EXCEPT ![n] = IF talk[i].kind = "explicit" THEN 0 ELSE @]
  /\ UNCHANGED <<turnVars, conf, now, muted, gcDue, promised>>

Handler(i) == \/ Gc(i) \/ ReadClock(i) \/ CheckMute(i) \/ FollowUp(i) \/ Snapshot(i) \/ Chat(i)
              \/ CodexSteps(i) \/ CodexAnswers(i) \/ Deliver(i) \/ Remember(i)

Next == \/ Tick
        \/ \E n \in Nicks, k \in {"explicit", "plain", "command"} : Hear(n, k)
        \/ \E i \in Lines : Handler(i) \/ CodexServes(i) \/ CodexDeadline(i)

\* Threads run, HTTP and sockets have timeouts, and time passes.
Spec == /\ Init /\ [][Next]_bbmVars
        /\ \A i \in Turns : WF_bbmVars(i \in Lines /\ Handler(i)) /\ WF_bbmVars(i \in Lines /\ CodexDeadline(i))

----------------------------------------------------------------------------
(* Properties.                                                             *)

\* A conversation, as it is kept and as it is sent, is pairs of a line and its reply,
\* no line twice, however many of the nick's lines are answered at once; and of an
\* explicit reply no more follow-ups are taken than max_followups (_respond, heard).
Paired(s) == /\ Len(s) % 2 = 0 /\ Len(s) <= Keep
             /\ \A k \in 1..Len(s) \div 2 : s[2*k - 1][1] = "user" /\ s[2*k] = <<"bot", s[2*k - 1][2]>>
             /\ Cardinality({s[k] : k \in DOMAIN s}) = Len(s)
ConversationsAreSound ==
  /\ \A n \in Nicks : Paired(convs[n].messages) /\ taken[n] + convs[n].remaining <= MaxFollowups
  /\ \A i \in Lines : Paired(talk[i].prior)

\* A line that comes to be judged before the end of what the last mute promised is not answered,
\* whatever was swept since; and no answer takes more lines than max_lines
\* (_mute, _gc, heard, _deliver).
SpeaksAsTold ==
  \A i \in Lines : (talk[i].hushed => talk[i].pc = "ended") /\ talk[i].said <= MaxLines

\* Every line's handler ends, whatever the model calls and however long the server goes on
\* with its turn (_drain_turn's deadline, the tool rounds of _respond_openai), but for what
\* no deadline is looked at for: frames received during a call, and pings, if they never
\* cease (_Connection.call, recv_text; a finding).
Unhurried(i) == RecvFrame(i) /\ (turn[i].phase = "call" \/ Head(peer[i].frames).op = "ping")
HandlersEnd ==
  \A i \in Turns : \/ <>[](i \in Lines => talk[i].pc = "ended")
                   \/ []<><<Unhurried(i)>>_bbmVars
============================================================================
