----------------------- MODULE InvestigationContract -----------------------
(***************************************************************************)
(* What an investigation promises those who watch it, without a word of    *)
(* how it gets there (agents/state_machine.py, docs/adr/0007): at most one *)
(* conclusion is published, the critic can withdraw a draft once, fixes    *)
(* are proposed only after the conclusion is public and only then is the   *)
(* run COMPLETED, and after the result nothing changes any more.           *)
(***************************************************************************)
EXTENDS Naturals

VARIABLES
    conclusion, \* "none", "drafted" or "published"
    withdrawn,  \* whether the critic has sent a draft back
    fixes,      \* number of fixes proposed
    result      \* "RUNNING", or how the run ended

contract_vars == <<conclusion, withdrawn, fixes, result>>

MaxFixes == 3

Init ==
    /\ conclusion = "none"
    /\ withdrawn = FALSE
    /\ fixes = 0
    /\ result = "RUNNING"

Draft ==
    /\ result = "RUNNING"
    /\ conclusion = "none"
    /\ conclusion' = "drafted"
    /\ UNCHANGED <<withdrawn, fixes, result>>

\* A rejected draft is withdrawn without ever having been announced.
Withdraw ==
    /\ result = "RUNNING"
    /\ conclusion = "drafted"
    /\ ~ withdrawn
    /\ conclusion' = "none"
    /\ withdrawn' = TRUE
    /\ UNCHANGED <<fixes, result>>

Publish ==
    /\ result = "RUNNING"
    /\ conclusion = "drafted"
    /\ conclusion' = "published"
    /\ UNCHANGED <<withdrawn, fixes, result>>

Propose ==
    /\ result = "RUNNING"
    /\ conclusion = "published"
    /\ fixes = 0
    /\ fixes' \in 1 .. MaxFixes
    /\ UNCHANGED <<conclusion, withdrawn, result>>

\* COMPLETED means there is a fix to approve; a run that proposed one does not
\* end in any other way.
End ==
    /\ result = "RUNNING"
    /\ result' \in IF fixes > 0 THEN {"COMPLETED"} ELSE {"NEEDS_HUMAN", "FAILED"}
    /\ UNCHANGED <<conclusion, withdrawn, fixes>>

Next == Draft \/ Withdraw \/ Publish \/ Propose \/ End

Spec == Init /\ [][Next]_contract_vars

=============================================================================
