---------------------------- MODULE MCAlertScan ----------------------------
(* A customer of each tenant.  The deposits of one are near the threshold, *)
(* some of them loaded late; the other is dormant, then receives a payment *)
(* and sends it on.  The job loads the customers and the accounts, with    *)
(* the transactions t3 to t5; then two uploads may bring t1 and t2 at the  *)
(* same time, in the same or in opposite order.                            *)
EXTENDS AlertScan, TLC

CONSTANTS mary, sean, acc1, acc2, emerald, liffey, t1, t2, t3, t4, t5, job

Cash(id, day, counterparty) ==
    [id |-> id, account |-> acc1, tenant |-> emerald, day |-> day, amount |-> 800000, in |-> TRUE,
     channel |-> "cash_deposit", highRisk |-> FALSE, counterparty |-> counterparty,
     wellFormed |-> TRUE, country |-> TRUE]

Wire(id, day, in) ==
    [id |-> id, account |-> acc2, tenant |-> liffey, day |-> day, amount |-> 600000, in |-> in,
     channel |-> "intl_wire", highRisk |-> ~ in, counterparty |-> "exchange",
     wellFormed |-> TRUE, country |-> TRUE]

First == Cash(t1, 46, "branch1")
Second == Cash(t2, 58, "branch1")
Again == Cash(t3, 46, "branch1")
Third == Cash(t3, 70, "branch2")
Broken == [Cash(t2, 58, "branch1") EXCEPT !.wellFormed = FALSE]
Foreign == [Cash(t1, 66, "branch2") EXCEPT !.account = acc2]
In == Wire(t4, 84, TRUE)
Out == [Wire(t5, 86, FALSE) EXCEPT !.country = FALSE]

MCRows == {First, Second, Again, Third, Broken, Foreign, In, Out}

File(rows) == [rows |-> rows, columns |-> TRUE]

MCTransfers == File(<<Third, In, Out>>)

MCFiles ==
    {File(<<Second, Foreign, First, Second>>), File(<<First, Broken, Again, Second>>),
     File(<<First, Again, First>>), [rows |-> <<First>>, columns |-> FALSE], MCTransfers}

MCDirectory ==
    [customers |-> {mary, sean}, badCustomers |-> 1, accounts |-> {acc1, acc2}, badAccounts |-> 0,
     transactions |-> MCTransfers]

MCCustomerOf == [a \in Accounts |-> IF a = acc1 THEN mary ELSE sean]
MCTenantOf == [c \in Customers |-> IF c = mary THEN emerald ELSE liffey]
MCRequestTenant == [p \in Requests |-> emerald]
ScanSymmetry == Permutations(Scanners) \cup Permutations(Requests)

(* Bound: loads overlap while no scan runs.  A scan reads nothing of a     *)
(* load that has not committed, and one load at a time may commit at any   *)
(* of its steps.                                                           *)
LoadsOverlapBetweenScans ==
    (\E s \in Scanners : scan[s].pc # "idle") =>
       Cardinality({p \in Loaders : load[p].pc # "idle"}) <= 1

MCOnboardedOn == [c \in Customers |-> 0]
=============================================================================
