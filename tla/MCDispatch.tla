----------------------------- MODULE MCDispatch -----------------------------
(* Sets of invocations for the runs of Dispatch.                           *)
EXTENDS Dispatch

Invocation(mode, json, dry) ==
    [mode |-> mode, json |-> json, dryRun |-> dry, approve |-> FALSE,
     effect |-> "mutating", consequential |-> FALSE, ownsStdout |-> FALSE,
     schema |-> FALSE, renderer |-> "none", coverage |-> FALSE]

\* Live runs at a terminal and in machine mode, with children and signals.
LiveRequests ==
    {[Invocation("run", FALSE, FALSE) EXCEPT !.consequential = TRUE],
     [Invocation("run", TRUE, FALSE) EXCEPT !.ownsStdout = TRUE],
     Invocation("test", TRUE, FALSE)}

PartialRenderer ==
    {[Invocation("run", FALSE, TRUE) EXCEPT !.schema = TRUE, !.renderer = "partial"]}

\* Dry runs: previews, claims, truncations, payloads and their renderer.
DryRequests ==
    {Invocation("run", FALSE, TRUE), Invocation("test", TRUE, TRUE),
     [Invocation("run", FALSE, TRUE) EXCEPT !.schema = TRUE, !.renderer = "total"],
     [Invocation("run", TRUE, TRUE) EXCEPT !.schema = TRUE]} \cup PartialRenderer

AllRequests == LiveRequests \cup DryRequests

OneLiveRun == {Invocation("run", TRUE, FALSE)}
NoAllowlist == {}
=============================================================================
