------------------------------- MODULE MCTell -------------------------------
(* Instance of Tell for TLC: three nicks, a group, two messages of ten kinds. *)
EXTENDS Tell

CONSTANTS n1, n2, n3, group

MCNicks == {n1, n2, n3}
MCNames == MCNicks \cup {group}
Row(u, due) == [user |-> u, due |-> due, told |-> MaxTime + 1, sent |-> 0]
MCTables ==
  {[user |-> {n1, n3}, alias |-> [n \in MCNames |-> IF n \in {n1, n2} THEN n1 ELSE None],
    grp |-> {<<group, n3>>}, tells |-> <<Row(n3, 0)>>]}
M(nick, cmd, a, b, targets) ==
  [nick |-> nick, cmd |-> cmd, a |-> a, b |-> b, targets |-> targets, due |-> 1]
MCMessages ==
  {M(n2, "tell", None, None, <<n3>>), M(n1, "remind", None, None, <<group, n3>>),
   M(n1, "alias", n1, n3, <<>>), M(n3, "alias", n3, n1, <<>>), M(n1, "alias", group, n3, <<>>),
   M(n2, "unalias", None, n1, <<>>), M(n2, "subscripe", group, None, <<>>),
   M(n3, "group", group, n2, <<>>), M(n3, "drop", group, n3, <<>>), M(n3, "dropall", group, None, <<>>)}
=============================================================================
