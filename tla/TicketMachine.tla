---------------------------- MODULE TicketMachine ----------------------------
(***************************************************************************)
(* What the domain rules promise of one table of tickets: a ticket is      *)
(* opened once, moves along the allowed transitions only, is in progress   *)
(* only while somebody is assigned, and is assigned only while it is       *)
(* neither resolved nor closed.  Several tickets may move in one step (the *)
(* bulk operations).                                                       *)
(***************************************************************************)
EXTENDS TicketRules

CONSTANTS Tickets, Agents, NoAgent

VARIABLES status, assignee

vars == <<status, assignee>>

Init ==
    /\ status = [t \in Tickets |-> "ABSENT"]
    /\ assignee = [t \in Tickets |-> NoAgent]

Open(t) ==
    /\ status[t] = "ABSENT"
    /\ status' = [status EXCEPT ![t] = "OPEN"]
    /\ \E agent \in Agents \cup {NoAgent} : assignee' = [assignee EXCEPT ![t] = agent]

Move(S, to) ==
    /\ \A t \in S : /\ CanTransition(status[t], to)
                    /\ to = "IN_PROGRESS" => assignee[t] # NoAgent
    /\ status' = [t \in Tickets |-> IF t \in S THEN to ELSE status[t]]
    /\ UNCHANGED assignee

Assign(S, agent) ==
    /\ \A t \in S : Assignable(status[t])
    /\ assignee' = [t \in Tickets |-> IF t \in S THEN agent ELSE assignee[t]]
    /\ UNCHANGED status

Next ==
    \/ \E t \in Tickets : Open(t)
    \/ \E S \in SUBSET Tickets : \/ \E to \in Status : Move(S, to)
                                 \/ \E agent \in Agents : Assign(S, agent)

Spec == Init /\ [][Next]_vars
=============================================================================
