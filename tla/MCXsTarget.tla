----------------------------- MODULE MCXsTarget -----------------------------
(***************************************************************************)
(* An instance of XsTarget and BatchAdapter: every environment for a       *)
(* single call, and a second call that overlaps with it where everything   *)
(* is in place.                                                            *)
(***************************************************************************)
EXTENDS BatchAdapter

EveryEnvironment == Environment

Ready ==
    [homes |-> Homes, envSh |-> "unset", emu |-> "unset", diff |-> "unset",
     onPath |-> FALSE, built |-> {"caller"} \X {"emu", "diff"}]

\* Bound: calls overlap in one environment only.  What an environment decides
\* is whether the files are there, and any call may miss its test.bin.
OverlapWhenReady == env = Ready \/ pc[2] = "out"
=============================================================================
