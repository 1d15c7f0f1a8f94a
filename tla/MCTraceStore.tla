---------------------------- MODULE MCTraceStore ----------------------------
(* Two roots and two children, for the run of TraceStore.                  *)
EXTENDS TraceStore, TLC

CONSTANTS r1, r2, c1, c2

MCProcs == {r1, r2, c1, c2}
MCRoots == {r1, r2}
MCRootEnv == (r1 :> Foreign) @@ (r2 :> Invalid)
\* No property or action tells one child from the other.
Interchangeable == Permutations({c1, c2})
============================================================================
