-------------------------- MODULE MCKnowledgeBase --------------------------
(* A restricted guide of the repository, whose doc_id a tenant may take    *)
(* first (and a procedure of the tenant, in KnowledgeApproval only); a     *)
(* short text for everybody, a long one, and one that looks like an        *)
(* instruction; an administrator, an MLRO, an analyst of another tenant.   *)
EXTENDS KnowledgeBase, TLC

CONSTANTS guide, sop, short, long, flagged, adam, maeve, liam, emerald, liffey

MCPieces == [t \in Texts |-> IF t = long THEN 2 ELSE 1]
MCLevel == [t \in Texts |-> IF t = long THEN 3 ELSE 1]
MCTenantOf == [u \in Users |-> IF u = liam THEN liffey ELSE emerald]
MCRoleOf == [u \in Users |-> IF u = adam THEN "admin" ELSE IF u = maeve THEN "mlro" ELSE "analyst"]
MCFiles == {[doc |-> guide, text |-> long, tenant |-> Global]}

RequestSymmetry == Permutations(Requests)
=============================================================================
