----------------------------- MODULE TicketRouting -----------------------------
(***************************************************************************)
(* Who gets a ticket: the automatic assignment of all unassigned tickets   *)
(* of a tenant, which counts the agents' workloads once and then keeps its *)
(* own count of what it assigns, and the routing of one ticket, which      *)
(* chooses among the users its priority and category call for.             *)
(***************************************************************************)
EXTENDS Integers, Sequences, FiniteSets, FiniteSetsExt, SequencesExt

CONSTANTS
    RoutedTickets,    \* tickets of the tenant
    AgentIds,         \* its users of the role AGENT
    SeniorIds,        \* its users of the role ADMIN
    OmbudsmanIds,     \* and of the role OMBUDSMAN
    NoAgent,          \* null in assignedToId
    Routings,         \* requests that route one ticket
    MaxRoutingMoves,  \* bound: tickets that others assign or close
    MaxRoutingFaults  \* bound: statements that fail

RoutingUsers == AgentIds \cup SeniorIds \cup OmbudsmanIds

ASSUME RoutingAssumption ==
    /\ IsFiniteSet(RoutedTickets \cup RoutingUsers)
    /\ NoAgent \notin RoutingUsers
    /\ AgentIds \cap (SeniorIds \cup OmbudsmanIds) = {} /\ SeniorIds \cap OmbudsmanIds = {}
    /\ MaxRoutingMoves \in Nat /\ MaxRoutingFaults \in Nat

VARIABLES
    routeTicket,   \* rows: whether the ticket is open, whom it is assigned to, what it calls for
    routeRun,      \* the automatic assignment: what it has still to do and the loads it counts
    routeRequest,  \* the routing requests
    routeEntries,  \* assignment entries of every ticket
    routeDrift,    \* by how much the run's own count may be wrong
    routeMoves,    \* changes by others so far
    routeFaults    \* faults so far

routeVars == <<routeTicket, routeRun, routeRequest, routeEntries, routeDrift, routeMoves, routeFaults>>

Demands == {"none", "urgent", "ombudsman"}

RoutedTicket == [open : BOOLEAN, assignee : RoutingUsers \cup {NoAgent}, demand : Demands]

Loads == [RoutingUsers -> 0..(2 * Cardinality(RoutedTickets))]

RoutingTypeOK ==
    /\ routeTicket \in [RoutedTickets -> RoutedTicket]
    /\ routeRun \in [pc : {"new", "count", "assign", "history", "done"}, todo : Seq(RoutedTickets),
                     uncounted : SUBSET AgentIds, loads : Loads, chosen : AgentIds \cup {NoAgent},
                     given : SUBSET AgentIds]
    /\ routeRequest \in [Routings ->
          [pc : {"new", "assign", "history", "done", "refused", "failed"},
           ticket : RoutedTickets, chosen : RoutingUsers \cup {NoAgent}]]
    /\ routeEntries \in [RoutedTickets -> Nat]
    /\ routeDrift \in Nat
    /\ routeMoves \in 0..MaxRoutingMoves
    /\ routeFaults \in 0..MaxRoutingFaults

NoLoads == [u \in RoutingUsers |-> 0]

RoutingInit ==
    /\ routeTicket \in [RoutedTickets -> [open : {TRUE}, assignee : AgentIds \cup {NoAgent},
                                          demand : Demands]]
    /\ \A t \in RoutedTickets : routeTicket[t].assignee # NoAgent => routeTicket[t].demand = "none"
    /\ routeRun = [pc |-> "new", todo |-> <<>>, uncounted |-> {}, loads |-> NoLoads,
                   chosen |-> NoAgent, given |-> {}]
    /\ routeRequest \in [Routings -> [pc : {"new"}, ticket : RoutedTickets, chosen : {NoAgent}]]
    /\ routeEntries = [t \in RoutedTickets |-> IF routeTicket[t].assignee = NoAgent THEN 0 ELSE 1]
    /\ routeDrift = 0
    /\ routeMoves = 0
    /\ routeFaults = 0

-----------------------------------------------------------------------------
(* Workloads *)

\* countActiveTicketsByAgent.
ActiveTickets(u) ==
    Cardinality({t \in RoutedTickets : routeTicket[t].open /\ routeTicket[t].assignee = u})

LeastLoaded(users, load) == {u \in users : \A v \in users : load[u] <= load[v]}

\* Faulty variant: the run does not count what it assigns itself.
CountsNothing(run) == run.loads

\* selectedAgent.activeTicketsCount++.
CountsIts(run) == [run.loads EXCEPT ![run.chosen] = @ + 1]

RunMatters == routeRun.pc # "new"

AssignTo(t, u) == routeTicket' = [routeTicket EXCEPT ![t].assignee = u]

\* What others do to the loads after the run has begun: moving a ticket from one
\* agent to another brings them apart by two.
Drifts(n) == routeDrift' = IF RunMatters THEN routeDrift + n ELSE routeDrift

-----------------------------------------------------------------------------
(* The automatic assignment *)

Unassigned == {t \in RoutedTickets : routeTicket[t].open /\ routeTicket[t].assignee = NoAgent}

FindUnassigned ==
    /\ routeRun.pc = "new"
    /\ \E order \in SetToSeqs(Unassigned) :
          routeRun' = [routeRun EXCEPT !.todo = order, !.uncounted = AgentIds,
                           !.pc = IF order = <<>> \/ AgentIds = {} THEN "done" ELSE "count"]
    /\ UNCHANGED <<routeTicket, routeRequest, routeEntries, routeDrift, routeMoves, routeFaults>>

\* One statement for each agent.
CountWorkload(u) ==
    /\ routeRun.pc = "count"
    /\ u \in routeRun.uncounted
    /\ routeRun' = [routeRun EXCEPT !.uncounted = @ \ {u}, !.loads[u] = ActiveTickets(u),
                        !.pc = IF routeRun.uncounted = {u} THEN "assign" ELSE "count"]
    /\ UNCHANGED <<routeTicket, routeRequest, routeEntries, routeDrift, routeMoves, routeFaults>>

\* assignTo asks nothing of the row: an assignment that was made meanwhile is
\* replaced, and a ticket that was closed is assigned.
AssignNext ==
    LET t == Head(routeRun.todo) IN
    /\ routeRun.pc = "assign"
    /\ \E u \in LeastLoaded(AgentIds, routeRun.loads) :
          /\ AssignTo(t, u)
          /\ routeRun' = [routeRun EXCEPT !.chosen = u, !.pc = "history"]
    /\ routeDrift' = IF t \in Unassigned THEN routeDrift ELSE routeDrift + 1
    /\ UNCHANGED <<routeRequest, routeEntries, routeMoves, routeFaults>>

NextTicket(loads) ==
    routeRun' = [routeRun EXCEPT !.todo = Tail(@), !.loads = loads, !.chosen = NoAgent,
                     !.given = @ \cup ({routeRun.chosen} \ {NoAgent}),
                     !.pc = IF Tail(routeRun.todo) = <<>> THEN "done" ELSE "assign"]

\* The entry, the notification, and only then the run's own count.
RecordAssignment ==
    /\ routeRun.pc = "history"
    /\ routeEntries' = [routeEntries EXCEPT ![Head(routeRun.todo)] = @ + 1]
    /\ NextTicket(CountsIts(routeRun))
    /\ UNCHANGED <<routeTicket, routeRequest, routeDrift, routeMoves, routeFaults>>

-----------------------------------------------------------------------------
(* Routing one ticket *)

\* Urgent tickets go to the administrators, those of the ombudsman's category to
\* ombudsmen, administrators and supervisors, if there are any; else to agents.
Eligible(demand) ==
    CASE demand = "urgent" /\ SeniorIds # {} -> SeniorIds
      [] demand = "ombudsman" /\ OmbudsmanIds \cup SeniorIds # {} -> OmbudsmanIds \cup SeniorIds
      [] OTHER -> AgentIds

\* selectBestAgent: the least loaded, of these an administrator before an ombudsman.
BestAgents(users) ==
    LET least == LeastLoaded(users, [u \in users |-> ActiveTickets(u)])
    IN  IF least \cap SeniorIds # {} THEN least \cap SeniorIds ELSE least

ChooseAgent(r) ==
    LET ticket == routeTicket[routeRequest[r].ticket] IN
    /\ routeRequest[r].pc = "new"
    /\ IF ~ticket.open \/ Eligible(ticket.demand) = {}
       THEN routeRequest' = [routeRequest EXCEPT ![r].pc = "refused"]
       ELSE \E u \in BestAgents(Eligible(ticket.demand)) :
               routeRequest' = [routeRequest EXCEPT ![r].pc = "assign", ![r].chosen = u]
    /\ UNCHANGED <<routeTicket, routeRun, routeEntries, routeDrift, routeMoves, routeFaults>>

RouteTicket(r) ==
    /\ routeRequest[r].pc = "assign"
    /\ AssignTo(routeRequest[r].ticket, routeRequest[r].chosen)
    /\ routeRequest' = [routeRequest EXCEPT ![r].pc = "history"]
    /\ Drifts(2)
    /\ UNCHANGED <<routeRun, routeEntries, routeMoves, routeFaults>>

RecordRouting(r) ==
    /\ routeRequest[r].pc = "history"
    /\ routeEntries' = [routeEntries EXCEPT ![routeRequest[r].ticket] = @ + 1]
    /\ routeRequest' = [routeRequest EXCEPT ![r].pc = "done"]
    /\ UNCHANGED <<routeTicket, routeRun, routeDrift, routeMoves, routeFaults>>

-----------------------------------------------------------------------------
(* Others, and faults *)

OthersFinish(t) ==
    /\ routeMoves < MaxRoutingMoves
    /\ routeMoves' = routeMoves + 1
    /\ routeTicket[t].open
    /\ routeTicket' = [routeTicket EXCEPT ![t].open = FALSE]
    /\ Drifts(1)
    /\ UNCHANGED <<routeRun, routeRequest, routeEntries, routeFaults>>

RoutingFault == routeFaults < MaxRoutingFaults /\ routeFaults' = routeFaults + 1

\* The run goes on with the next ticket; one that fails after its assignment, at
\* its entry or at the notification, is assigned all the same, and not counted.
AssignmentFails ==
    /\ RoutingFault
    /\ \/ routeRun.pc = "assign" /\ UNCHANGED <<routeEntries, routeDrift>>
       \/ /\ routeRun.pc = "history"
          /\ \E entries \in {0, 1} :
                routeEntries' = [routeEntries EXCEPT ![Head(routeRun.todo)] = @ + entries]
          /\ routeDrift' = routeDrift + 1
    /\ NextTicket(routeRun.loads)
    /\ UNCHANGED <<routeTicket, routeRequest, routeMoves>>

RoutingFails(r) ==
    /\ RoutingFault
    /\ routeRequest[r].pc \in {"assign", "history"}
    /\ routeRequest' = [routeRequest EXCEPT ![r].pc = "failed"]
    /\ UNCHANGED <<routeTicket, routeRun, routeEntries, routeDrift, routeMoves>>

RoutingNext ==
    \/ FindUnassigned \/ AssignNext \/ RecordAssignment \/ AssignmentFails
    \/ \E u \in AgentIds : CountWorkload(u)
    \/ \E r \in Routings : ChooseAgent(r) \/ RouteTicket(r) \/ RecordRouting(r) \/ RoutingFails(r)
    \/ \E t \in RoutedTickets : OthersFinish(t)

RoutingSpec == RoutingInit /\ [][RoutingNext]_routeVars

-----------------------------------------------------------------------------
(* Correctness *)

RoutingInFlight ==
    {routeRequest[r].ticket : r \in {q \in Routings : routeRequest[q].pc = "history"}}
        \cup (IF routeRun.pc = "history" THEN {Head(routeRun.todo)} ELSE {})

\* When the run has ended, an agent that it gave a ticket has at most one active
\* ticket more than any other agent, and one more still for each load that was
\* changed behind its own count; and an assignment lacks its history entry only
\* by a fault.
RoutedFairly ==
    /\ routeRun.pc = "done" =>
          \A u \in routeRun.given, v \in AgentIds :
              ActiveTickets(u) <= ActiveTickets(v) + 1 + routeDrift
    /\ Cardinality({t \in RoutedTickets \ RoutingInFlight :
                       routeTicket[t].assignee # NoAgent /\ routeEntries[t] = 0}) <= routeFaults
================================================================================
