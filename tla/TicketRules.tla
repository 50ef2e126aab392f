----------------------------- MODULE TicketRules -----------------------------
(***************************************************************************)
(* The domain rules of a ticket: its statuses, the transitions between     *)
(* them, and when it may be assigned or put in progress.                   *)
(***************************************************************************)

Status == {"OPEN", "IN_PROGRESS", "WAITING_CUSTOMER", "ESCALATED", "RESOLVED", "CLOSED"}

AllowedTransitions ==
    [OPEN             |-> {"IN_PROGRESS", "ESCALATED"},
     IN_PROGRESS      |-> {"WAITING_CUSTOMER", "ESCALATED", "RESOLVED"},
     WAITING_CUSTOMER |-> {"IN_PROGRESS", "ESCALATED"},
     ESCALATED        |-> {"IN_PROGRESS", "RESOLVED"},
     RESOLVED         |-> {"CLOSED"},
     CLOSED           |-> {}]

CanTransition(from, to) == from \in Status /\ to \in AllowedTransitions[from]

\* assertTicketAssignable
Assignable(status) == status \in Status \ {"RESOLVED", "CLOSED"}
=============================================================================
