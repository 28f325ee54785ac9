------------------------------- MODULE MCBbm -------------------------------
(* Instance of Bbm, and with it of CodexTurn, for TLC: talk with either       *)
(* backend, and one turn of a codex server that does all it may.              *)
EXTENDS Bbm

MCConfs ==
  {[backend |-> "openai", kinds |-> {"explicit", "plain"}, lines |-> 3, until |-> 3],
   [backend |-> "codex", kinds |-> {"explicit", "command"}, lines |-> 1, until |-> 1]}
============================================================================
