--------------------------- MODULE MCNetworkState ---------------------------
(* Instance of NetworkState for TLC: two users, two channels, four nicks.    *)
EXTENDS NetworkState

CONSTANTS u1, u2, n0, n1, n2, n3, chan1, chan2, acct, t0, t1

MCOthers == {u1, u2}
MCNicks == {n0, n1, n2, n3}
MCChans == {chan1, chan2}
MCAccounts == {acct}
MCHome == [u \in MCOthers |-> IF u = u1 THEN n1 ELSE n2]
MCOpModes == {"o"}
MCVoiceModes == {"v"}
MCConcerns == {[with |-> {"accounts"}, most |-> 4],
               [with |-> {"ranks", "asks"}, most |-> 3],
               [with |-> {"modes", "asks"}, most |-> 3],
               [with |-> {"self", "topics"}, most |-> 3]}
MCStarts == {[c \in MCChans |-> MCOthers],
             [c \in MCChans |-> IF c = chan1 THEN MCOthers ELSE {u1}]}
TwoTopics == {t0, t1}
=============================================================================
