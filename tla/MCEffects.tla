------------------------------ MODULE MCEffects ------------------------------
(* The handle alone: every kind of handler on a small set of operands.     *)
EXTENDS Effects

Call(mode, json, dry, effect) ==
    [mode |-> mode, json |-> json, dryRun |-> dry, approve |-> TRUE,
     effect |-> effect, consequential |-> FALSE, ownsStdout |-> FALSE,
     schema |-> FALSE, renderer |-> "none", coverage |-> mode = "test"]

\* Both modes of both effect classes; the test door adds the coverage shard.
MCRequests == {Call("run", FALSE, TRUE, "mutating"), Call("run", FALSE, FALSE, "mutating"),
               Call("test", TRUE, TRUE, "mutating"), Call("test", FALSE, TRUE, "read_only")}
MCAllowlist == {<<"ls">>}
=============================================================================
