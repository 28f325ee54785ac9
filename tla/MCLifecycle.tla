---------------------------- MODULE MCLifecycle ----------------------------
(* Instance of Lifecycle for TLC: two labels, four modules.                 *)
EXTENDS Lifecycle

CONSTANTS net1, net2, m1, m2, m3, m4, f1

MCLabels == {net1, net2}
MCModules == {m1, m2, m3, m4}
MCRequires == [m \in MCModules |-> CASE m = m1 -> <<m2>> [] m = m2 -> <<>> [] m = m3 -> <<m1>> [] m = m4 -> <<m2, m4>>]
MCFiles == {MainFile, f1}
All == [file |-> f1, modules |-> <<m4, m1, m2, m3>>, denied |-> {}]
Less == [file |-> MainFile, modules |-> <<m3, m1, m2>>, denied |-> {m1}]
MCConfigs == {(net1 :> All) @@ (net2 :> Less), net2 :> All}
MCExample == net2 :> Less
MCFaults == {NoFault, [NoFault EXCEPT !.init = {m1}, !.import = {m4}],
             [NoFault EXCEPT !.provides = {m2}], [NoFault EXCEPT !.mappings = {m2}]}
=============================================================================
