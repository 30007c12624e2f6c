------------------------------ MODULE AuditLog ------------------------------
(***************************************************************************)
(* What the audit trail promises: per tenant one sequence of events, to    *)
(* which events are appended one at a time and from which none is ever     *)
(* removed, whoever writes concurrently.                                   *)
(***************************************************************************)
EXTENDS Sequences

CONSTANTS Tenants, Events

VARIABLE log

Entry(t, e) == [tenant |-> t, event |-> e]

LogInit == log = [t \in Tenants |-> <<>>]

Record(t, e) == log' = [log EXCEPT ![t] = Append(@, Entry(t, e))]

LogNext == \E t \in Tenants, e \in Events : Record(t, e)

LogSpec == LogInit /\ [][LogNext]_log
=============================================================================
