-------------------------- MODULE MCUpdateRelaunch --------------------------
(* Instance of UpdateRelaunch for TLC: two worker threads, two pushes.       *)
EXTENDS UpdateRelaunch

CONSTANTS t1, t2, post

MCThreads == {t1, t2}
MCPosts == {post}
MCKinds == {"deps", "modules"}
============================================================================
