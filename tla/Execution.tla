----------------------------- MODULE Execution -----------------------------
(***************************************************************************)
(* What Orchestrator.execute promises the rest of the system: whatever the *)
(* agents do, it ends once, with a human or with a recommendation the      *)
(* policy engine has ruled on, and it forgets no flag the case arrived     *)
(* with.  CaseWorkflow's Finish takes exactly these outcomes.              *)
(***************************************************************************)
EXTENDS PolicyEngine

CONSTANT Running     \* no outcome yet

VARIABLES case, result

Escalated == [kind : {"NEEDS_MANUAL_REVIEW", "FAILED"}]

Recommended == [kind : {"recommended"}, action : Actions, verified : BOOLEAN,
                automatic : BOOLEAN]

(* The policy's ruling on an action, on the case c as it was ruled on.     *)
Ruling(action, c, verified) ==
    [kind |-> "recommended", action |-> action, verified |-> verified,
     automatic |-> ~ RequiresApproval(action, c, verified)]

ExecutionInit == case \in CaseFacts /\ result = Running

EndWithHuman == result = Running /\ result' \in Escalated

EndWithRuling ==
    /\ result = Running
    /\ \E action \in Actions, verified \in BOOLEAN, flagged \in BOOLEAN :
          /\ case.flagged => flagged
          /\ result' = Ruling(action, [case EXCEPT !.flagged = flagged], verified)

ExecutionNext == (EndWithHuman \/ EndWithRuling) /\ UNCHANGED case

ExecutionSpec == ExecutionInit /\ [][ExecutionNext]_<<case, result>>
=============================================================================
