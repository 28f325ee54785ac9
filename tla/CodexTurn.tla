----------------------------- MODULE CodexTurn -----------------------------
(***************************************************************************)
(* codex_api.run_turn: a connection of its own for a turn, three JSON-RPC     *)
(* calls over the WebSocket of util/ws.py, then notifications until the turn  *)
(* is completed; in a pool thread, with the server as an external process.    *)
(* A message may come in two frames, with a ping in between.                 *)
(***************************************************************************)
EXTENDS Naturals, Sequences

CONSTANTS Turns,        \* one for each request
          MaxFrames,    \* bound: frames on their way at a time
          MaxItems,     \* bound: items of a turn, and notifications kept during its calls
          Codex         \* the turns whose server does all it may; others' are refused

VARIABLES turn,         \* the client: phase, call, the frame it is in, what it collected
          peer          \* the server: frames on their way, calls answered, items of the turn

turnVars == <<turn, peer>>

TurnInit ==
  /\ turn = [r \in Turns |-> [phase |-> "idle", call |-> 0, open |-> FALSE, pending |-> <<>>,
                              texts |-> <<>>, late |-> FALSE]]
  /\ peer = [r \in Turns |-> [frames |-> <<>>, answered |-> 0, said |-> <<>>,
                              over |-> FALSE, completed |-> FALSE]]

TurnEnded(r) == turn[r].phase \in {"done", "failed"}
Fails(t) == [t EXCEPT !.phase = "failed"]
Calls == 3      \* initialize, thread/start, turn/start

----------------------------------------------------------------------------
(* The server.                                                             *)

\* a message: its kind, and of an item which one it is
Message(kind, n) == [kind |-> kind, n |-> n]
Frame(op, fin, m) == [op |-> op, fin |-> fin, msg |-> m]
Bare(op, fin) == Frame(op, fin, Message("none", 0))
Framings(m) == {<<Frame("text", TRUE, m)>>, <<Bare("text", FALSE), Frame("more", TRUE, m)>>,
                <<Bare("text", FALSE), Bare("ping", TRUE), Frame("more", TRUE, m)>>}

Sends(r, fs) == Len(peer[r].frames) + Len(fs) <= MaxFrames
Put(r, p, fs) == peer' = [peer EXCEPT ![r] = [p EXCEPT !.frames = @ \o fs]]

ServerAnswers(r) ==
  /\ peer[r].answered < turn[r].call
  /\ \E k \in {"result", "refusal"} : \E fs \in Framings(Message(k, 0)) :
       Sends(r, fs) /\ Put(r, [peer[r] EXCEPT !.answered = @ + 1], fs)

\* of a turn under way, replies and its end; what the client ignores at any time, and
\* without end
ServerTells(r) ==
  \E k \in {"item", "other", "completed", "fatal"} :
    \E fs \in Framings(Message(k, IF k = "item" THEN Len(peer[r].said) + 1 ELSE 0)) :
      /\ Sends(r, fs) /\ ~peer[r].over /\ (k # "other" => turn[r].call = Calls)
      /\ k = "item" => Len(peer[r].said) < MaxItems
      /\ k = "other" /\ turn[r].phase = "call" => Len(turn[r].pending) < MaxItems
      /\ Put(r, [peer[r] EXCEPT !.over = k \in {"completed", "fatal"}, !.completed = k = "completed",
                                !.said = IF k = "item" THEN Append(@, Len(@) + 1) ELSE @], fs)

\* a ping, a close, or a frame that makes no sense here
ServerControls(r) ==
  \E o \in {"ping", "close", "more"} :
    Sends(r, <<Bare(o, TRUE)>>) /\ Put(r, peer[r], <<Bare(o, TRUE)>>)

CodexServer(r) ==
  /\ r \in Codex /\ turn[r].phase \in {"call", "drain", "read"}
  /\ ServerAnswers(r) \/ ServerTells(r) \/ ServerControls(r)
  /\ UNCHANGED turn

----------------------------------------------------------------------------
(* The client.                                                             *)

Becomes(r, t) == turn' = [turn EXCEPT ![r] = t]

\* the connection, the handshake and the first call, or an error
Connect(r) ==
  /\ turn[r].phase = "idle" /\ UNCHANGED peer
  /\ \/ r \in Codex /\ Becomes(r, [turn[r] EXCEPT !.phase = "call", !.call = 1])
     \/ Becomes(r, Fails(turn[r]))

\* _drain_turn, for one notification
Notified(t, m) ==
  CASE m.kind = "item"      -> [t EXCEPT !.texts = Append(@, m.n), !.phase = "drain"]
    [] m.kind = "fatal"     -> Fails(t)
    [] m.kind = "completed" -> [t EXCEPT !.phase = "done"]
    [] OTHER                -> [t EXCEPT !.phase = "drain"]

\* Mutant: what comes before the answer to a call is dropped.
AnsweredDropping(t, m) ==
  IF m.kind = "refusal" THEN Fails(t)
  ELSE IF m.kind # "result" THEN t
  ELSE IF t.call < Calls THEN [t EXCEPT !.call = @ + 1]
  ELSE [t EXCEPT !.phase = "drain"]

\* _Connection.call, for one message: what is not its answer is kept for the turn
Answered(t, m) ==
  IF m.kind = "refusal" THEN Fails(t)
  ELSE IF m.kind # "result" THEN [t EXCEPT !.pending = Append(@, m)]
  ELSE IF t.call < Calls THEN [t EXCEPT !.call = @ + 1]
  ELSE [t EXCEPT !.phase = "drain"]

Received(t, m) == IF t.phase = "call" THEN Answered(t, m) ELSE Notified(t, m)

\* recv_text, for one frame
Framed(t, f) ==
  IF f.op = "ping" THEN t
  ELSE IF f.op = "close" \/ t.open # (f.op = "more") THEN Fails(t)
  ELSE IF ~f.fin THEN [t EXCEPT !.open = TRUE]
  ELSE Received([t EXCEPT !.open = FALSE], f.msg)

RecvFrame(r) ==
  /\ turn[r].phase \in {"call", "read"} /\ peer[r].frames # <<>>
  /\ Becomes(r, Framed(turn[r], Head(peer[r].frames)))
  /\ peer' = [peer EXCEPT ![r].frames = Tail(@)]

\* Mutant: only the socket's timeout ends a turn.
DrainOnSocketTimeout(r) ==
  /\ turn[r].phase = "drain" /\ UNCHANGED peer
  /\ LET t == turn[r] IN
     Becomes(r, IF t.pending # <<>> THEN Notified([t EXCEPT !.pending = Tail(@)], Head(t.pending))
                ELSE [t EXCEPT !.phase = "read"])

\* _drain_turn's loop: the deadline, then what is kept, then the socket
Drain(r) ==
  /\ turn[r].phase = "drain" /\ UNCHANGED peer
  /\ LET t == turn[r] IN
     Becomes(r, IF t.late THEN Fails(t)
                ELSE IF t.pending # <<>> THEN Notified([t EXCEPT !.pending = Tail(@)], Head(t.pending))
                ELSE [t EXCEPT !.phase = "read"])

\* nothing comes for the socket's timeout
RecvTimeout(r) ==
  /\ turn[r].phase \in {"call", "read"} /\ peer[r].frames = <<>>
  /\ Becomes(r, Fails(turn[r])) /\ UNCHANGED peer

Deadline(r) ==
  /\ turn[r].phase \in {"call", "drain", "read"} /\ ~turn[r].late
  /\ Becomes(r, [turn[r] EXCEPT !.late = TRUE]) /\ UNCHANGED peer

TurnStep(r) == Connect(r) \/ RecvFrame(r) \/ Drain(r) \/ RecvTimeout(r)

----------------------------------------------------------------------------

\* A turn that ends well has all the replies of the completed turn, in their order,
\* also those that came before the answers to its calls (_Connection.call, _drain_turn)
\* or in pieces (recv_text).
AnswerIsWhole ==
  \A r \in Turns : turn[r].phase = "done" => peer[r].completed /\ turn[r].texts = peer[r].said
============================================================================
