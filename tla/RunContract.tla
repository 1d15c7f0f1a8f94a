---------------------------- MODULE RunContract ----------------------------
(***************************************************************************)
(* What one invocation of a command promises its caller, without saying    *)
(* how: nothing is changed without permission, the permission is given     *)
(* once and before the first change, and the run ends once, with at most   *)
(* one machine document and with a failing status unless it ended well.    *)
(* Dispatch implements it (MCDispatch checks the refinement).              *)
(***************************************************************************)
EXTENDS Naturals

VARIABLES
    stage,     \* asked, running, or over
    permit,    \* whether the run may change anything
    mutated,   \* whether it has
    documents, \* how many machine documents it wrote
    failed     \* whether it was reported as failed, once over

contractVars == <<stage, permit, mutated, documents, failed>>

ContractTypeOK ==
    /\ stage \in {"asked", "running", "over"}
    /\ permit \in BOOLEAN
    /\ mutated \in BOOLEAN
    /\ documents \in {0, 1}
    /\ failed \in BOOLEAN

ContractInit ==
    /\ stage = "asked"
    /\ permit = FALSE
    /\ mutated = FALSE
    /\ documents = 0
    /\ failed = FALSE

Start ==
    /\ stage = "asked"
    /\ stage' = "running"
    /\ permit' \in BOOLEAN
    /\ UNCHANGED <<mutated, documents, failed>>

\* Declined, or gone before it started: a failure without a document.
TurnAway ==
    /\ stage = "asked"
    /\ stage' = "over"
    /\ failed' = TRUE
    /\ UNCHANGED <<permit, mutated, documents>>

Change ==
    /\ stage = "running" /\ permit
    /\ mutated' = TRUE
    /\ UNCHANGED <<stage, permit, documents, failed>>

\* A run without a document may end either way (human mode, or a process
\* that ended itself); a document says how the run ended.
End ==
    /\ stage = "running"
    /\ stage' = "over"
    /\ documents' \in {0, 1}
    /\ failed' \in BOOLEAN
    /\ UNCHANGED <<permit, mutated>>

ContractNext == Start \/ TurnAway \/ Change \/ End

ContractSpec == ContractInit /\ [][ContractNext]_contractVars
=============================================================================
