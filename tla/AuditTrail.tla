------------------------------ MODULE AuditTrail ------------------------------
(***************************************************************************)
(* What the immutable audit trail promises: one chain that only grows at   *)
(* its end, every record linked to the one before it, the first to the     *)
(* genesis.                                                                *)
(***************************************************************************)
CONSTANTS Entries, Genesis, Absent

VARIABLES
    link,  \* the record before each record
    tail   \* the last record

vars == <<link, tail>>

Init ==
    /\ link = [e \in Entries |-> Absent]
    /\ tail = Genesis

Append(e) ==
    /\ link[e] = Absent
    /\ link' = [link EXCEPT ![e] = tail]
    /\ tail' = e

Spec == Init /\ [][\E e \in Entries : Append(e)]_vars
=============================================================================
