--------------------------- MODULE MCCaseWorkflow ---------------------------
(* Small instances of the case workflow for TLC.                           *)
EXTENDS CaseInvariant, TLC

CONSTANTS a1, a2, c1, ivy, mia, max

MCCustomerOf == [a \in Alerts |-> c1]

MCRoleOf == [u \in Users |-> IF u = ivy THEN "investigator" ELSE "mlro"]

CleanCase == [tenant |-> "emerald", risk |-> 10, anomaly |-> 100, highRisk |-> FALSE,
              sme |-> FALSE, cash |-> 0, flagged |-> FALSE]

FlaggedCase == [CleanCase EXCEPT !.flagged = TRUE]

BothCases == {CleanCase, FlaggedCase}

OnlyClean == {CleanCase}

RequestSymmetry == Permutations(Requests)
=============================================================================
