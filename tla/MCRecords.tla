----------------------------- MODULE MCRecords -----------------------------
(* Audit records: what they append to the chain, and what the requests     *)
(* that write them wait for.  The components share no variable, so that    *)
(* each is explored with the other at rest.                                *)
EXTENDS AuditChain, ConnectionPool

VARIABLE part

MCTrailOf == [r \in Requests |-> "emerald"]

recordVars == <<auditVars, poolVars, part>>

MCInit == AuditInit /\ PoolInit /\ part \in {"audit", "pool"}

Audit == part = "audit" /\ AuditNext /\ UNCHANGED <<poolVars, part>>

Pool == part = "pool" /\ PoolNext /\ UNCHANGED <<auditVars, part>>

MCSpec == MCInit /\ [][Audit \/ Pool]_recordVars

(* FairAuditSpec and FairPoolSpec, for the component that is not at rest.  *)
FairMCSpec ==
    /\ MCSpec
    /\ \A w \in Writers : /\ SF_auditVars(part = "audit" /\ Lock(w))
                          /\ WF_auditVars(part = "audit" /\ HolderMoves(w))
    /\ \A r \in Requests : SF_poolVars(part = "pool" /\ (GoOn(r) \/ PoolTimeout(r)))
=============================================================================
