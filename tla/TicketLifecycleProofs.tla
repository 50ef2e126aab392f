------------------------ MODULE TicketLifecycleProofs ------------------------
(***************************************************************************)
(* Proofs about TicketLifecycle for any number of tickets, agents and      *)
(* workers, any choice of operations and any number of faults.             *)
(*                                                                         *)
(* A worker's local state is the crux: what it read may be out of date     *)
(* when it writes.  Two facts about stale rows survive every interleaving  *)
(* and carry the argument: what was validated of a row holds of the row    *)
(* as it was read (Validated), and a ticket that had an assignee then has  *)
(* one still (StaysAssigned).                                              *)
(***************************************************************************)
EXTENDS TicketLifecycle, SequenceTheorems, TLAPS

USE DEF StatusOperations

-----------------------------------------------------------------------------
(* What a change writes *)

LEMMA ChangedType ==
    ASSUME NEW ticket \in Ticket, NEW op, NEW goal, GoalFits(op, goal)
    PROVE  /\ Changed(ticket, op, goal) \in Ticket
           /\ Changed(ticket, op, goal).status =
                 IF op \in StatusOperations THEN goal ELSE ticket.status
           /\ Changed(ticket, op, goal).assignee =
                 IF op \in StatusOperations THEN ticket.assignee ELSE goal
<1>1. CASE op \in StatusOperations
  <2>1. goal \in Status
    BY <1>1 DEF GoalFits
  <2>2. Changed(ticket, op, goal) =
           [ticket EXCEPT !.status = goal, !.closedAt = (goal = "CLOSED")]
    BY <1>1 DEF Changed
  <2>3. (goal = "CLOSED") \in BOOLEAN
    OBVIOUS
  <2> QED
    BY <1>1, <2>1, <2>2, <2>3 DEF Ticket
<1>2. CASE op \notin StatusOperations
  <2>1. goal \in Agents
    BY <1>2 DEF GoalFits
  <2>2. Changed(ticket, op, goal) = [ticket EXCEPT !.assignee = goal]
    BY <1>2 DEF Changed
  <2> QED
    BY <1>2, <2>1, <2>2 DEF Ticket
<1> QED
  BY <1>1, <1>2

LEMMA EntryType ==
    ASSUME NEW seen \in Ticket, seen.status # "ABSENT",
           NEW op \in AllOperations, NEW goal, GoalFits(op, goal)
    PROVE  EntryOf(op, seen, goal) \in Entry
<1>1. goal \in Value
  BY DEF GoalFits, Value
<1>2. seen.status \in Value /\ seen.assignee \in Value
  BY DEF Ticket, Value
<1>3. CASE op = "escalate"
  BY <1>1, <1>2, <1>3 DEF EntryOf, Entry
<1>4. CASE op \in StatusOperations \ {"escalate"}
  BY <1>1, <1>2, <1>4 DEF EntryOf, Entry
<1>5. CASE op \notin StatusOperations
  BY <1>1, <1>2, <1>5 DEF EntryOf, Entry
<1> QED
  BY <1>3, <1>4, <1>5

LEMMA EventsType ==
    ASSUME NEW seen \in Ticket, seen.status # "ABSENT",
           NEW op \in Transactional, NEW goal, GoalFits(op, goal)
    PROVE  EventsOf(op, seen, goal) \in Seq(Event)
<1> DEFINE old == IF op = "status" THEN seen.status ELSE seen.assignee
           event(name) == [name |-> name, new |-> goal, old |-> old]
<1>1. goal \in Value
  BY DEF GoalFits, Value
<1>2. old \in Value
  BY DEF Ticket, Value
<1>3. \A name \in {"ticket.created", "ticket.status_changed", "ticket.resolved",
                   "ticket.closed", "ticket.assigned"} : event(name) \in Event
  BY <1>1, <1>2 DEF Event
<1> HIDE DEF old
<1>4. CASE op = "assign"
  <2>1. EventsOf(op, seen, goal) = <<event("ticket.assigned")>>
    BY <1>4 DEF EventsOf, old
  <2> HIDE DEF event
  <2> QED
    BY <1>3, <2>1
<1>5. CASE op # "assign"
  <2> DEFINE resolved == IF goal = "RESOLVED" THEN <<event("ticket.resolved")>> ELSE <<>>
             closed == IF goal = "CLOSED" THEN <<event("ticket.closed")>> ELSE <<>>
  <2>1. EventsOf(op, seen, goal) = <<event("ticket.status_changed")>> \o resolved \o closed
    BY <1>5 DEF EventsOf, old
  <2> HIDE DEF event
  <2>2. resolved \in Seq(Event) /\ closed \in Seq(Event)
    BY <1>3
  <2>3. <<event("ticket.status_changed")>> \in Seq(Event)
    BY <1>3
  <2> HIDE DEF resolved, closed
  <2>4. <<event("ticket.status_changed")>> \o resolved \in Seq(Event)
    BY <2>2, <2>3, ConcatProperties
  <2> QED
    BY <2>1, <2>2, <2>4, ConcatProperties
<1> QED
  BY <1>4, <1>5

-----------------------------------------------------------------------------
(* The local state of a worker *)

\* The part of the invariant that is about the workers.
WorkInv ==
    /\ work \in [Workers -> Worker]
    /\ \A w \in Workers : Consistent(work[w])
    /\ \A w \in Workers : Validated(work[w])
    /\ \A w \in Workers : StaysAssigned(work[w])

\* Tickets keep their assignee, if they have one.
KeepsAssigned ==
    \A t \in Tickets : tickets[t].assignee # NoAgent => tickets'[t].assignee # NoAgent

LEMMA WorkUpdate ==
    ASSUME WorkInv, KeepsAssigned, NEW w \in Workers, NEW r \in Worker,
           Consistent(r), Validated(r), StaysAssigned(r),
           work' = [work EXCEPT ![w] = r]
    PROVE  WorkInv'
<1>1. work' \in [Workers -> Worker]
  BY DEF WorkInv
<1>2. ASSUME NEW v \in Workers
      PROVE  Consistent(work'[v]) /\ Validated(work'[v])
  <2>1. work'[v] = IF v = w THEN r ELSE work[v]
    BY DEF WorkInv
  <2> QED
    BY <2>1 DEF WorkInv
<1>3. ASSUME NEW v \in Workers, NEW t \in Tickets, work'[v].seen[t].assignee # NoAgent
      PROVE  tickets'[t].assignee # NoAgent
  <2>1. work'[v] = IF v = w THEN r ELSE work[v]
    BY DEF WorkInv
  <2>2. tickets[t].assignee # NoAgent
    BY <1>3, <2>1 DEF WorkInv, StaysAssigned
  <2> QED
    BY <2>2 DEF KeepsAssigned
<1> QED
  BY <1>1, <1>2, <1>3 DEF WorkInv, StaysAssigned

LEMMA IdleFits ==
    ASSUME OperationsAssumption
    PROVE  /\ Idle \in Worker
           /\ Consistent(Idle)
           /\ Validated(Idle)
           /\ StaysAssigned(Idle)
<1>1. Absent \in Ticket
  BY DEF Absent, Ticket
<1>2. Idle \in Worker
  BY <1>1 DEF Idle, Worker, Value
<1>3. Consistent(Idle)
  BY DEF Consistent, Idle
<1>4. Validated(Idle)
  BY DEF Validated, Idle
<1>5. StaysAssigned(Idle)
  BY DEF StaysAssigned, Idle, Absent
<1> QED
  BY <1>2, <1>3, <1>4, <1>5

\* A worker that is done keeps nothing.
LEMMA FinishFits ==
    ASSUME OperationsAssumption, WorkInv, KeepsAssigned, NEW w \in Workers, Finish(w)
    PROVE  WorkInv'
BY IdleFits, WorkUpdate DEF Finish

\* The next ticket of a loop was read and validated with the others.
LEMMA MoveOnFits ==
    ASSUME OperationsAssumption, WorkInv, KeepsAssigned,
           NEW w \in Workers, work[w].pc \in {"update", "record"}, MoveOn(w)
    PROVE  WorkInv'
<1> DEFINE rest == work[w].todo \ {work[w].at}
<1>1. CASE rest = {}
  BY <1>1, FinishFits DEF MoveOn
<1>2. CASE rest # {}
  <2>1. PICK n \in rest :
           work' = [work EXCEPT ![w].pc = "update", ![w].todo = rest, ![w].at = n]
    BY <1>2 DEF MoveOn
  <2> DEFINE r == [work[w] EXCEPT !.pc = "update", !.todo = rest, !.at = n]
  <2>2. work' = [work EXCEPT ![w] = r]
    BY <2>1 DEF WorkInv, Worker
  <2>3. work[w] \in Worker /\ Consistent(work[w]) /\ Validated(work[w])
           /\ StaysAssigned(work[w])
    BY DEF WorkInv
  <2>4. /\ r \in Worker
        /\ r.pc = "update" /\ r.todo = rest /\ r.at = n /\ r.op = work[w].op
        /\ r.wrote = work[w].wrote /\ r.seen = work[w].seen /\ r.goal = work[w].goal
    BY <2>3 DEF Worker
  <2> HIDE DEF r
  <2>5. Consistent(r)
    BY <2>3, <2>4 DEF Consistent
  <2>6. Validated(r)
    BY <2>3, <2>4 DEF Validated
  <2>7. StaysAssigned(r)
    BY <2>3, <2>4 DEF StaysAssigned
  <2> QED
    BY <2>2, <2>4, <2>5, <2>6, <2>7, WorkUpdate
<1> QED
  BY <1>1, <1>2

-----------------------------------------------------------------------------
(* The start of an operation *)

\* Whatever is read of existing tickets is fresh when the operation starts.
LEMMA BeginFits ==
    ASSUME OperationsAssumption, IInv, NEW w \in Workers, NEW op \in AllOperations,
           NEW pc \in {"write", "update"}, NEW S \in SUBSET Existing, NEW goal \in Value,
           pc = IF op \in Transactional THEN "write" ELSE "update",
           pc = "write" => GoalFits(op, goal),
           op = "escalate" => goal = "ESCALATED",
           op = "rule-assign" => goal \in Agents,
           \A t \in S : /\ op = "status" => MayMove(tickets[t], goal)
                        /\ op = "escalate" => CanTransition(tickets[t].status, "ESCALATED")
                        /\ op = "rule-close" =>
                              \/ tickets[t].status = "RESOLVED"
                              \/ CanTransition(tickets[t].status, "RESOLVED")
                        /\ op \in {"assign", "auto-assign", "route"} =>
                              Assignable(tickets[t].status),
           Begin(w, op, pc, S, goal)
    PROVE  IInv'
<1> DEFINE read == [s \in Tickets |-> IF s \in S THEN tickets[s] ELSE Absent]
           r(t) == [pc |-> pc, op |-> op, todo |-> S, at |-> t, wrote |-> {},
                    seen |-> read, goal |-> goal]
<1>1. PICK t \in S : work' = [work EXCEPT ![w] = r(t)]
  BY DEF Begin
<1>2. UNCHANGED <<tickets, history, outbox, faults>>
  BY DEF Begin
<1>3. started' \in 0..MaxStarts
  BY DEF Begin, IInv, TypeOK, OperationsAssumption
<1>4. S \in SUBSET Tickets
  BY DEF Existing
<1>5. read \in [Tickets -> Ticket]
  BY DEF IInv, TypeOK, Absent, Ticket
<1>6. \A s \in S : read[s] = tickets[s] /\ read[s].status # "ABSENT"
  BY <1>4 DEF Existing
<1>7. \A s \in Tickets : read[s].assignee # NoAgent => tickets[s].assignee # NoAgent
  BY DEF Absent
<1> HIDE DEF read
<1>8. r(t) \in Worker
  BY <1>1, <1>4, <1>5 DEF Worker
<1>9. Consistent(r(t))
  <2>1. op \in Operations
    BY DEF Begin
  <2> QED
    BY <1>1, <2>1 DEF Consistent, Transactional
<1>10. Validated(r(t))
  BY <1>6 DEF Validated
<1>11. StaysAssigned(r(t))
  BY <1>7 DEF StaysAssigned
<1>12. WorkInv /\ KeepsAssigned
  BY <1>2 DEF IInv, TypeOK, WorkInv, KeepsAssigned
<1> HIDE DEF r
<1>13. WorkInv'
  BY <1>1, <1>8, <1>9, <1>10, <1>11, <1>12, WorkUpdate
<1>14. InProgressHasAssignee'
  BY <1>2 DEF IInv, InProgressHasAssignee
<1> QED
  BY <1>2, <1>3, <1>13, <1>14 DEF IInv, TypeOK, WorkInv

LEMMA StartFits ==
    ASSUME OperationsAssumption, IInv, NEW w \in Workers, Start(w)
    PROVE  IInv'
<1>1. CASE StartStatusUpdate(w)
  <2>1. PICK S \in SUBSET Existing, to \in Status :
           /\ \A t \in S : MayMove(tickets[t], to)
           /\ Begin(w, "status", "write", S, to)
    BY <1>1 DEF StartStatusUpdate
  <2>2. GoalFits("status", to) /\ to \in Value
    BY DEF GoalFits, Value
  <2>3. "status" \in AllOperations /\ "status" \in Transactional
    BY DEF AllOperations, Transactional
  <2> QED
    BY <2>1, <2>2, <2>3, BeginFits
<1>2. CASE StartAssign(w)
  <2>1. PICK S \in SUBSET Existing, agent \in Agents :
           /\ \A t \in S : Assignable(tickets[t].status)
           /\ Begin(w, "assign", "write", S, agent)
    BY <1>2 DEF StartAssign
  <2>2. GoalFits("assign", agent) /\ agent \in Value
    BY DEF GoalFits, Value
  <2>3. "assign" \in AllOperations /\ "assign" \in Transactional
    BY DEF AllOperations, Transactional
  <2> QED
    BY <2>1, <2>2, <2>3, BeginFits
<1>3. CASE StartEscalation(w)
  <2>1. PICK S \in SUBSET {t \in Tickets : tickets[t].status \in {"OPEN", "IN_PROGRESS"}} :
           Begin(w, "escalate", "update", S, "ESCALATED")
    BY <1>3 DEF StartEscalation
  <2>2. \A t \in S : CanTransition(tickets[t].status, "ESCALATED")
    BY DEF CanTransition, AllowedTransitions, Status
  <2>3. S \in SUBSET Existing
    BY DEF Existing
  <2>4. "ESCALATED" \in Value
    BY DEF Value, Status
  <2>5. "escalate" \in AllOperations /\ "escalate" \notin Transactional
    BY DEF AllOperations, Transactional
  <2> QED
    BY <2>1, <2>2, <2>3, <2>4, <2>5, BeginFits
<1>4. CASE StartAutoAssign(w)
  <2> DEFINE S == {t \in Tickets : tickets[t].status = "OPEN" /\ tickets[t].assignee = NoAgent}
  <2>1. Begin(w, "auto-assign", "update", S, "none")
    BY <1>4 DEF StartAutoAssign
  <2>2. S \in SUBSET Existing
    BY DEF Existing
  <2>3. "none" \in Value
    BY DEF Value
  <2>4. "auto-assign" \in AllOperations /\ "auto-assign" \notin Transactional
    BY DEF AllOperations, Transactional
  <2>5. \A t \in S : Assignable(tickets[t].status)
    BY DEF Assignable, Status
  <2> HIDE DEF S
  <2> QED
    BY <2>1, <2>2, <2>3, <2>4, <2>5, BeginFits
<1>5. CASE StartRoute(w)
  <2>1. PICK t \in Tickets : /\ Assignable(tickets[t].status)
                             /\ Begin(w, "route", "update", {t}, "none")
    BY <1>5 DEF StartRoute
  <2>2. {t} \in SUBSET Existing
    BY <2>1 DEF Existing, Assignable, Status
  <2>3. "none" \in Value
    BY DEF Value
  <2>4. "route" \in AllOperations /\ "route" \notin Transactional
    BY DEF AllOperations, Transactional
  <2> QED
    BY <2>1, <2>2, <2>3, <2>4, BeginFits
<1>6. CASE StartRuleAssign(w)
  <2>1. PICK t \in Existing, agent \in Agents :
           Begin(w, "rule-assign", "update", {t}, agent)
    BY <1>6 DEF StartRuleAssign
  <2>2. {t} \in SUBSET Existing
    OBVIOUS
  <2>3. agent \in Value
    BY DEF Value
  <2>4. "rule-assign" \in AllOperations /\ "rule-assign" \notin Transactional
    BY DEF AllOperations, Transactional
  <2> QED
    BY <2>1, <2>2, <2>3, <2>4, BeginFits
<1>7. CASE StartRuleClose(w)
  <2>1. PICK t \in Existing :
           /\ CanTransition(tickets[t].status, "RESOLVED") \/ tickets[t].status = "RESOLVED"
           /\ Begin(w, "rule-close", "update", {t}, "none")
    BY <1>7 DEF StartRuleClose
  <2>2. {t} \in SUBSET Existing
    OBVIOUS
  <2>3. "none" \in Value
    BY DEF Value
  <2>4. "rule-close" \in AllOperations /\ "rule-close" \notin Transactional
    BY DEF AllOperations, Transactional
  <2> QED
    BY <2>1, <2>2, <2>3, <2>4, BeginFits
<1> QED
  BY <1>1, <1>2, <1>3, <1>4, <1>5, <1>6, <1>7 DEF Start

-----------------------------------------------------------------------------
(* The transaction *)

LEMMA IInvWorker ==
    ASSUME IInv, NEW w \in Workers
    PROVE  /\ WorkInv
           /\ work[w] \in Worker
           /\ Consistent(work[w])
           /\ Validated(work[w])
           /\ StaysAssigned(work[w])
BY DEF IInv, TypeOK, WorkInv

LEMMA TxWriteFits ==
    ASSUME OperationsAssumption, IInv, NEW w \in Workers, TxWrite(w)
    PROVE  IInv'
<1> DEFINE t == work[w].at
           rest == work[w].todo \ {t}
           next == IF rest = {} THEN "commit" ELSE "write"
<1>1. PICK n \in IF rest = {} THEN {t} ELSE rest :
         work' = [work EXCEPT ![w].pc = next, ![w].todo = rest,
                              ![w].wrote = @ \cup {t}, ![w].at = n]
  BY DEF TxWrite
<1>2. work[w].pc = "write" /\ UNCHANGED <<tickets, history, outbox, started, faults>>
  BY DEF TxWrite
<1>3. /\ WorkInv
      /\ work[w] \in Worker
      /\ Consistent(work[w])
      /\ Validated(work[w])
      /\ StaysAssigned(work[w])
  BY IInvWorker
<1>4. t \in work[w].todo /\ work[w].op \in Transactional /\ GoalFits(work[w].op, work[w].goal)
  BY <1>2, <1>3 DEF Consistent
<1> DEFINE r == [work[w] EXCEPT !.pc = next, !.todo = rest, !.wrote = @ \cup {t}, !.at = n]
<1>5. work' = [work EXCEPT ![w] = r]
  BY <1>1, <1>3 DEF WorkInv, Worker
<1>6. /\ r \in Worker
      /\ r.pc = next /\ r.todo = rest /\ r.at = n /\ r.op = work[w].op
      /\ r.wrote = work[w].wrote \cup {t} /\ r.seen = work[w].seen /\ r.goal = work[w].goal
  BY <1>3, <1>4 DEF Worker
<1> HIDE DEF r
<1>7. Consistent(r)
  <2>1. r.op \in Operations
    BY <1>2, <1>3, <1>6 DEF Consistent
  <2> QED
    BY <1>4, <1>6, <2>1 DEF Consistent, Transactional
<1>8. Validated(r)
  BY <1>3, <1>4, <1>6 DEF Validated
<1>9. StaysAssigned(r)
  BY <1>3, <1>6 DEF StaysAssigned
<1>10. WorkInv'
  BY <1>2, <1>3, <1>5, <1>6, <1>7, <1>8, <1>9, WorkUpdate DEF KeepsAssigned
<1> QED
  BY <1>2, <1>10 DEF IInv, TypeOK, WorkInv, InProgressHasAssignee

\* A worker that gives up leaves the tables alone.
LEMMA GiveUpFits ==
    ASSUME OperationsAssumption, IInv, NEW w \in Workers, Finish(w),
           UNCHANGED <<tickets, history, outbox, started>>, faults' \in 0..MaxFaults
    PROVE  IInv'
<1>1. WorkInv'
  BY IInvWorker, FinishFits DEF KeepsAssigned
<1> QED
  BY <1>1 DEF IInv, TypeOK, WorkInv, InProgressHasAssignee

\* A ticket in progress had an assignee when the status was validated, and has
\* one still.
LEMMA WriteFits ==
    ASSUME OperationsAssumption, IInv, NEW w \in Workers, NEW goal,
           NEW t \in work[w].todo \cup work[w].wrote, GoalFits(work[w].op, goal),
           work[w].op = "status" => goal = work[w].goal,
           work[w].op \in {"escalate", "rule-close"} => goal # "IN_PROGRESS",
           work[w].op \in AllOperations
    PROVE  LET new == Changed(tickets[t], work[w].op, goal) IN
           /\ new \in Ticket
           /\ tickets[t].assignee # NoAgent => new.assignee # NoAgent
           /\ new.status = "IN_PROGRESS" => new.assignee # NoAgent
<1> DEFINE op == work[w].op
           new == Changed(tickets[t], op, goal)
<1>1. t \in Tickets /\ tickets[t] \in Ticket
  BY IInvWorker DEF IInv, TypeOK, Worker
<1>2. /\ new \in Ticket
      /\ new.status = IF op \in StatusOperations THEN goal ELSE tickets[t].status
      /\ new.assignee = IF op \in StatusOperations THEN tickets[t].assignee ELSE goal
  BY <1>1, ChangedType
<1> HIDE DEF new
<1>3. CASE op \notin StatusOperations
  <2>1. new.assignee # NoAgent
    BY <1>2, <1>3 DEF GoalFits, OperationsAssumption
  <2> QED
    BY <1>2, <2>1 DEF new
<1>4. CASE op \in StatusOperations
  <2>1. new.assignee = tickets[t].assignee /\ new.status = goal
    BY <1>2, <1>4
  <2>2. ASSUME goal = "IN_PROGRESS" PROVE tickets[t].assignee # NoAgent
    <3>1. op = "status" /\ work[w].goal = "IN_PROGRESS"
      BY <1>4, <2>2
    <3>2. MayMove(work[w].seen[t], "IN_PROGRESS")
      BY <3>1, IInvWorker DEF Validated
    <3>3. work[w].seen[t].assignee # NoAgent
      BY <3>2 DEF MayMove
    <3> QED
      BY <1>1, <3>3, IInvWorker DEF StaysAssigned
  <2> QED
    BY <1>2, <2>1, <2>2 DEF new
<1> QED
  BY <1>3, <1>4

LEMMA TxCommitFits ==
    ASSUME OperationsAssumption, IInv, NEW w \in Workers, TxCommit(w)
    PROVE  IInv'
<1> DEFINE op == work[w].op
           goal == work[w].goal
           wrote == work[w].wrote
           seen == work[w].seen
           new(t) == Changed(tickets[t], op, goal)
<1>1. /\ work[w].pc = "commit"
      /\ tickets' = [t \in Tickets |-> IF t \in wrote THEN new(t) ELSE tickets[t]]
      /\ history' = [t \in Tickets |-> IF t \in wrote
                                       THEN Append(history[t], EntryOf(op, seen[t], goal))
                                       ELSE history[t]]
      /\ outbox' = [t \in Tickets |-> IF t \in wrote
                                      THEN outbox[t] \o EventsOf(op, seen[t], goal)
                                      ELSE outbox[t]]
      /\ Finish(w)
      /\ UNCHANGED <<started, faults>>
  BY DEF TxCommit
<1>2. op \in Transactional /\ op \in AllOperations /\ GoalFits(op, goal)
  BY <1>1, IInvWorker DEF Consistent, AllOperations
<1>3. ASSUME NEW t \in wrote
      PROVE  /\ t \in Tickets
             /\ seen[t] \in Ticket /\ seen[t].status # "ABSENT"
             /\ history[t] \in Seq(Entry) /\ outbox[t] \in Seq(Event)
  BY IInvWorker DEF IInv, TypeOK, Worker, Validated
<1>4. ASSUME NEW t \in wrote
      PROVE  /\ new(t) \in Ticket
             /\ tickets[t].assignee # NoAgent => new(t).assignee # NoAgent
             /\ new(t).status = "IN_PROGRESS" => new(t).assignee # NoAgent
  <2>1. op \notin {"escalate", "rule-close"}
    BY <1>2 DEF Transactional
  <2> QED
    BY <1>2, <2>1, WriteFits
<1> HIDE DEF new
<1>5. tickets' \in [Tickets -> Ticket]
  BY <1>1, <1>4 DEF IInv, TypeOK
<1>6. history' \in [Tickets -> Seq(Entry)]
  <2>1. \A t \in wrote : Append(history[t], EntryOf(op, seen[t], goal)) \in Seq(Entry)
    BY <1>2, <1>3, EntryType, AppendProperties
  <2> QED
    BY <1>1, <2>1 DEF IInv, TypeOK
<1>7. outbox' \in [Tickets -> Seq(Event)]
  <2>1. \A t \in wrote : EventsOf(op, seen[t], goal) \in Seq(Event)
    BY <1>2, <1>3, EventsType
  <2>2. \A t \in wrote : outbox[t] \o EventsOf(op, seen[t], goal) \in Seq(Event)
    BY <1>3, <2>1, ConcatProperties
  <2> QED
    BY <1>1, <2>2 DEF IInv, TypeOK
<1>8. KeepsAssigned
  BY <1>1, <1>4 DEF KeepsAssigned
<1>9. WorkInv'
  BY <1>1, <1>8, IInvWorker, FinishFits
<1>10. InProgressHasAssignee'
  BY <1>1, <1>4 DEF IInv, InProgressHasAssignee
<1> QED
  BY <1>1, <1>5, <1>6, <1>7, <1>9, <1>10 DEF IInv, TypeOK, WorkInv

-----------------------------------------------------------------------------
(* The operations without a transaction *)

LEMMA UpdateRowFits ==
    ASSUME OperationsAssumption, IInv, NEW w \in Workers, UpdateRow(w)
    PROVE  IInv'
<1> DEFINE t == work[w].at
           op == work[w].op
<1>1. PICK goal \in Goals(w) :
         /\ tickets' = [tickets EXCEPT ![t] = Changed(tickets[t], op, goal)]
         /\ work' = [work EXCEPT ![w].pc = "record", ![w].goal = goal]
  BY DEF UpdateRow, IInv, TypeOK
<1>2. work[w].pc = "update" /\ UNCHANGED <<history, outbox, started, faults>>
  BY DEF UpdateRow
<1>3. /\ WorkInv
      /\ work[w] \in Worker
      /\ Consistent(work[w])
      /\ Validated(work[w])
      /\ StaysAssigned(work[w])
  BY IInvWorker
<1>4. op \in AllOperations \ Transactional /\ t \in work[w].todo /\ t \in Tickets
  BY <1>2, <1>3 DEF Consistent, Worker
<1>5. /\ GoalFits(op, goal)
      /\ op = "escalate" => goal = "ESCALATED"
      /\ op = "rule-assign" => goal \in Agents
      /\ op = "rule-close" => goal \in {"RESOLVED", "CLOSED"}
  <2>1. CASE op = "escalate"
    <3>1. goal = work[w].goal
      BY <2>1 DEF Goals
    <3>2. goal = "ESCALATED"
      BY <1>2, <1>3, <2>1, <3>1 DEF Consistent
    <3> QED
      BY <2>1, <3>2 DEF GoalFits, Status
  <2>2. CASE op = "rule-assign"
    <3>1. goal = work[w].goal
      BY <2>2 DEF Goals
    <3>2. goal \in Agents
      BY <1>2, <1>3, <2>2, <3>1 DEF Consistent
    <3> QED
      BY <2>2, <3>2 DEF GoalFits
  <2>3. CASE op = "rule-close"
    <3>1. goal \in {"RESOLVED", "CLOSED"}
      BY <2>3 DEF Goals
    <3> QED
      BY <2>3, <3>1 DEF GoalFits, Status
  <2>4. CASE op \in {"auto-assign", "route"}
    <3>1. goal \in Agents
      BY <2>4 DEF Goals
    <3> QED
      BY <2>4, <3>1 DEF GoalFits
  <2> QED
    BY <1>4, <2>1, <2>2, <2>3, <2>4 DEF AllOperations
<1> DEFINE new == Changed(tickets[t], op, goal)
<1>6. /\ new \in Ticket
      /\ tickets[t].assignee # NoAgent => new.assignee # NoAgent
      /\ new.status = "IN_PROGRESS" => new.assignee # NoAgent
  <2>1. op # "status"
    BY <1>4 DEF Transactional
  <2>2. op \in {"escalate", "rule-close"} => goal # "IN_PROGRESS"
    BY <1>5
  <2> QED
    BY <1>4, <1>5, <2>1, <2>2, WriteFits
<1> HIDE DEF new
<1>7. tickets' = [tickets EXCEPT ![t] = new]
  BY <1>1 DEF new
<1>8. tickets' \in [Tickets -> Ticket]
  BY <1>6, <1>7 DEF IInv, TypeOK
<1>9. KeepsAssigned
  BY <1>6, <1>7 DEF KeepsAssigned, IInv, TypeOK
<1>10. InProgressHasAssignee'
  BY <1>6, <1>7 DEF IInv, TypeOK, InProgressHasAssignee
<1> DEFINE r == [work[w] EXCEPT !.pc = "record", !.goal = goal]
<1>11. work' = [work EXCEPT ![w] = r]
  BY <1>1, <1>3 DEF WorkInv, Worker
<1>12. goal \in Value
  BY <1>5 DEF GoalFits, Value
<1>13. /\ r \in Worker
       /\ r.pc = "record" /\ r.todo = work[w].todo /\ r.at = t /\ r.op = op
       /\ r.wrote = work[w].wrote /\ r.seen = work[w].seen /\ r.goal = goal
  BY <1>3, <1>12 DEF Worker
<1> HIDE DEF r
<1>14. Consistent(r)
  <2>1. r.wrote = {} /\ r.op \in Operations
    BY <1>2, <1>3, <1>13 DEF Consistent
  <2> QED
    BY <1>4, <1>5, <1>13, <2>1 DEF Consistent
<1>15. Validated(r)
  <2>1. op # "status"
    BY <1>4 DEF Transactional
  <2> QED
    BY <1>3, <1>13, <2>1 DEF Validated
<1>16. StaysAssigned(r)
  BY <1>3, <1>13 DEF StaysAssigned
<1>17. WorkInv'
  BY <1>3, <1>9, <1>11, <1>13, <1>14, <1>15, <1>16, WorkUpdate
<1> QED
  BY <1>2, <1>8, <1>10, <1>17 DEF IInv, TypeOK, WorkInv

LEMMA RecordChangeFits ==
    ASSUME OperationsAssumption, IInv, NEW w \in Workers, RecordChange(w)
    PROVE  IInv'
<1> DEFINE t == work[w].at
           op == work[w].op
           goal == work[w].goal
           entry == EntryOf(op, work[w].seen[t], goal)
<1>1. /\ work[w].pc = "record"
      /\ history' = [history EXCEPT ![t] = Append(history[t], entry)]
      /\ UNCHANGED <<tickets, outbox, started, faults>>
  BY DEF RecordChange, IInv, TypeOK
<1>2. /\ WorkInv
      /\ work[w] \in Worker
      /\ Consistent(work[w])
      /\ Validated(work[w])
      /\ StaysAssigned(work[w])
  BY IInvWorker
<1>3. op \in AllOperations \ Transactional /\ t \in work[w].todo /\ t \in Tickets
  BY <1>1, <1>2 DEF Consistent, Worker
<1>4. GoalFits(op, goal)
  BY <1>1, <1>2 DEF Consistent
<1>5. work[w].seen[t] \in Ticket /\ work[w].seen[t].status # "ABSENT"
  BY <1>2, <1>3 DEF Worker, Validated
<1>6. entry \in Entry
  BY <1>3, <1>4, <1>5, EntryType
<1> HIDE DEF entry
<1>7. Append(history[t], entry) \in Seq(Entry)
  BY <1>3, <1>6, AppendProperties DEF IInv, TypeOK
<1>8. history' \in [Tickets -> Seq(Entry)]
  BY <1>1, <1>7 DEF IInv, TypeOK
<1>9. KeepsAssigned
  BY <1>1 DEF KeepsAssigned
<1>10. WorkInv'
  <2>1. CASE op = "rule-close" /\ goal = "RESOLVED"
    <3>1. work' = [work EXCEPT ![w].pc = "update", ![w].seen[t].status = "RESOLVED"]
      BY <2>1 DEF RecordChange
    <3> DEFINE resolved == [work[w].seen EXCEPT ![t].status = "RESOLVED"]
               r == [work[w] EXCEPT !.pc = "update", !.seen = resolved]
    <3>2. work' = [work EXCEPT ![w] = r]
      BY <1>2, <3>1 DEF WorkInv, Worker
    <3>3. /\ resolved \in [Tickets -> Ticket]
          /\ resolved[t].status = "RESOLVED"
          /\ \A s \in Tickets : /\ resolved[s].assignee = work[w].seen[s].assignee
                                /\ s # t => resolved[s] = work[w].seen[s]
      BY <1>2, <1>3 DEF Worker, Ticket, Status
    <3> HIDE DEF resolved
    <3>4. /\ r \in Worker
          /\ r.pc = "update" /\ r.todo = work[w].todo /\ r.at = t /\ r.op = op
          /\ r.wrote = work[w].wrote /\ r.seen = resolved /\ r.goal = goal
      BY <1>2, <3>3 DEF Worker
    <3> HIDE DEF r
    <3>5. Consistent(r)
      BY <1>1, <1>2, <1>3, <2>1, <3>4 DEF Consistent
    <3>6. Validated(r)
      <4>1. work[w].todo \cup work[w].wrote \subseteq Tickets
        BY <1>2 DEF Worker
      <4> QED
        BY <1>2, <2>1, <3>3, <3>4, <4>1 DEF Validated
    <3>7. StaysAssigned(r)
      BY <1>2, <3>3, <3>4 DEF StaysAssigned
    <3> QED
      BY <1>2, <1>9, <3>2, <3>4, <3>5, <3>6, <3>7, WorkUpdate
  <2>2. CASE ~(op = "rule-close" /\ goal = "RESOLVED")
    <3>1. MoveOn(w)
      BY <2>2 DEF RecordChange
    <3> QED
      BY <1>1, <1>2, <1>9, <3>1, MoveOnFits
  <2> QED
    BY <2>1, <2>2
<1> QED
  BY <1>1, <1>8, <1>10 DEF IInv, TypeOK, WorkInv, InProgressHasAssignee

-----------------------------------------------------------------------------
(* Opening a ticket *)

LEMMA OpenFits ==
    ASSUME OperationsAssumption, IInv, NEW t \in Tickets, NEW agent \in Agents \cup {NoAgent},
           Open(t, agent)
    PROVE  IInv'
<1> DEFINE new == [status |-> "OPEN", assignee |-> agent, closedAt |-> FALSE]
           created == [event |-> "CREATED", old |-> "none", new |-> "none"]
           assigned == [event |-> "ASSIGNED", old |-> NoAgent, new |-> agent]
           announced == [name |-> "ticket.created", old |-> "none", new |-> "none"]
           rest == IF agent = NoAgent THEN <<>> ELSE <<assigned>>
<1>1. /\ tickets[t] = Absent
      /\ tickets' = [tickets EXCEPT ![t] = new]
      /\ history' = [history EXCEPT ![t] = <<created>> \o rest]
      /\ outbox' = [outbox EXCEPT ![t] = <<announced>>]
      /\ UNCHANGED <<work, started, faults>>
  BY DEF Open
<1>2. new \in Ticket /\ new.status = "OPEN"
  BY DEF Ticket, Status
<1>3. created \in Entry /\ assigned \in Entry
  BY DEF Entry, Value
<1>4. announced \in Event
  BY DEF Event, Value
<1> HIDE DEF new, created, assigned, announced
<1>5. rest \in Seq(Entry) /\ <<created>> \in Seq(Entry) /\ <<announced>> \in Seq(Event)
  BY <1>3, <1>4
<1> HIDE DEF rest
<1>6. <<created>> \o rest \in Seq(Entry)
  BY <1>5, ConcatProperties
<1>7. /\ tickets' \in [Tickets -> Ticket]
      /\ history' \in [Tickets -> Seq(Entry)]
      /\ outbox' \in [Tickets -> Seq(Event)]
  BY <1>1, <1>2, <1>5, <1>6 DEF IInv, TypeOK
<1>8. KeepsAssigned
  BY <1>1 DEF KeepsAssigned, Absent, IInv, TypeOK
<1>9. (\A w \in Workers : StaysAssigned(work[w]))'
  <2> SUFFICES ASSUME NEW w \in Workers, NEW s \in Tickets,
                      work[w].seen[s].assignee # NoAgent
               PROVE  tickets'[s].assignee # NoAgent
    BY <1>1 DEF StaysAssigned
  <2>1. tickets[s].assignee # NoAgent
    BY IInvWorker DEF StaysAssigned
  <2> QED
    BY <1>8, <2>1 DEF KeepsAssigned
<1>10. InProgressHasAssignee'
  BY <1>1, <1>2 DEF InProgressHasAssignee, IInv, TypeOK
<1> QED
  BY <1>1, <1>7, <1>9, <1>10 DEF IInv, TypeOK

-----------------------------------------------------------------------------
(* The invariant *)

LEMMA InitInv ==
    ASSUME OperationsAssumption, Init
    PROVE  IInv
<1>1. Absent \in Ticket /\ Absent.status = "ABSENT"
  BY DEF Absent, Ticket
<1>2. tickets \in [Tickets -> Ticket] /\ InProgressHasAssignee
  BY <1>1 DEF Init, InProgressHasAssignee
<1>3. /\ history \in [Tickets -> Seq(Entry)]
      /\ outbox \in [Tickets -> Seq(Event)]
      /\ started \in 0..MaxStarts
      /\ faults \in 0..MaxFaults
  BY DEF Init, OperationsAssumption
<1>4. /\ work \in [Workers -> Worker]
      /\ \A w \in Workers : /\ Consistent(work[w])
                            /\ Validated(work[w])
                            /\ StaysAssigned(work[w])
  BY IdleFits DEF Init
<1> QED
  BY <1>2, <1>3, <1>4 DEF IInv, TypeOK

LEMMA StepInv ==
    ASSUME OperationsAssumption, IInv, [Next]_vars
    PROVE  IInv'
<1>1. CASE UNCHANGED vars
  BY <1>1 DEF vars, IInv, TypeOK, StaysAssigned, InProgressHasAssignee
<1>2. CASE \E t \in Tickets, agent \in Agents \cup {NoAgent} : Open(t, agent)
  BY <1>2, OpenFits
<1>3. ASSUME NEW w \in Workers,
             \/ Start(w)
             \/ TxWrite(w) \/ TxCommit(w) \/ DeadlockVictim(w)
             \/ UpdateRow(w) \/ RecordChange(w)
             \/ Crash(w) \/ StatementFails(w)
      PROVE  IInv'
  <2>1. CASE Start(w)
    BY <2>1, StartFits
  <2>2. CASE TxWrite(w)
    BY <2>2, TxWriteFits
  <2>3. CASE TxCommit(w)
    BY <2>3, TxCommitFits
  <2>4. CASE DeadlockVictim(w)
    BY <2>4, GiveUpFits DEF DeadlockVictim, IInv, TypeOK
  <2>5. CASE UpdateRow(w)
    BY <2>5, UpdateRowFits
  <2>6. CASE RecordChange(w)
    BY <2>6, RecordChangeFits
  <2>7. CASE Crash(w)
    <3>1. faults' \in 0..MaxFaults
      BY <2>7 DEF Crash, Fault, IInv, TypeOK, OperationsAssumption
    <3> QED
      BY <2>7, <3>1, GiveUpFits DEF Crash
  <2>8. CASE StatementFails(w)
    <3>1. faults' \in 0..MaxFaults
      BY <2>8 DEF StatementFails, Fault, IInv, TypeOK, OperationsAssumption
    <3>2. /\ work[w].pc \in {"update", "record"}
          /\ MoveOn(w) \/ Finish(w)
          /\ UNCHANGED <<tickets, history, outbox, started>>
      BY <2>8 DEF StatementFails
    <3>3. WorkInv'
      BY <3>2, IInvWorker, MoveOnFits, FinishFits DEF KeepsAssigned
    <3> QED
      BY <3>1, <3>2, <3>3 DEF IInv, TypeOK, WorkInv, InProgressHasAssignee
  <2> QED
    BY <1>3, <2>1, <2>2, <2>3, <2>4, <2>5, <2>6, <2>7, <2>8
<1> QED
  BY <1>1, <1>2, <1>3 DEF Next

LEMMA Invariance == Spec => []IInv
<1>1. Init => IInv
  BY InitInv, OperationsAssumption
<1>2. IInv /\ [Next]_vars => IInv'
  BY StepInv, OperationsAssumption
<1> QED
  BY <1>1, <1>2, PTL DEF Spec

\* Every variable keeps its type: tickets, their history and their events,
\* whichever operations overlap and whatever fails.
THEOREM TypeCorrect == Spec => []TypeOK
<1>1. IInv => TypeOK
  BY DEF IInv
<1> QED
  BY <1>1, Invariance, PTL

\* No interleaving of status updates, escalations, assignments and automation
\* leaves a ticket IN_PROGRESS with nobody assigned, although
\* assertAssigneeRequiredForInProgress looks at a row that may be out of date.
THEOREM InProgressCorrect == Spec => []InProgressHasAssignee
<1>1. IInv => InProgressHasAssignee
  BY DEF IInv
<1> QED
  BY <1>1, Invariance, PTL

-----------------------------------------------------------------------------
(* Illegal transitions come from stale reads only *)

LEMMA CommitTransition ==
    ASSUME OperationsAssumption, IInv, NEW w \in Workers, TxCommit(w),
           NEW t \in Existing, tickets'[t].status # tickets[t].status,
           ~CanTransition(tickets[t].status, tickets'[t].status)
    PROVE  Writes(w, t) /\ work[w].seen[t].status # tickets[t].status
<1> DEFINE op == work[w].op
           goal == work[w].goal
           new == Changed(tickets[t], op, goal)
<1>1. /\ work[w].pc = "commit"
      /\ tickets'[t] = IF t \in work[w].wrote THEN new ELSE tickets[t]
      /\ work' = [work EXCEPT ![w] = Idle]
  BY DEF TxCommit, Finish, Existing
<1>2. t \in work[w].wrote /\ tickets'[t] = new
  BY <1>1
<1>3. op \in Transactional /\ GoalFits(op, goal)
  BY <1>1, IInvWorker DEF Consistent
<1>4. t \in Tickets /\ tickets[t] \in Ticket
  BY DEF Existing, IInv, TypeOK
<1>5. new.status = IF op \in StatusOperations THEN goal ELSE tickets[t].status
  BY <1>3, <1>4, ChangedType
<1> HIDE DEF new
<1>6. op = "status" /\ tickets'[t].status = goal
  BY <1>2, <1>3, <1>5 DEF Transactional
<1>7. CanTransition(work[w].seen[t].status, goal)
  BY <1>2, <1>6, IInvWorker DEF Validated, MayMove
<1>8. work'[w] # work[w]
  BY <1>1, IInvWorker DEF Idle, WorkInv
<1> QED
  BY <1>1, <1>2, <1>6, <1>7, <1>8 DEF Writes

LEMMA UpdateTransition ==
    ASSUME OperationsAssumption, IInv, NEW w \in Workers, UpdateRow(w),
           NEW t \in Existing, tickets'[t].status # tickets[t].status,
           ~CanTransition(tickets[t].status, tickets'[t].status)
    PROVE  Writes(w, t) /\ work[w].seen[t].status # tickets[t].status
<1> DEFINE op == work[w].op
           seen == work[w].seen[t]
<1>1. PICK goal \in Goals(w) :
         /\ tickets' = [tickets EXCEPT ![work[w].at] = Changed(@, op, goal)]
         /\ work' = [work EXCEPT ![w].pc = "record", ![w].goal = goal]
  BY DEF UpdateRow
<1>2. work[w].pc = "update"
  BY DEF UpdateRow
<1> DEFINE new == Changed(tickets[t], op, goal)
<1>3. t \in Tickets /\ tickets[t] \in Ticket
  BY DEF Existing, IInv, TypeOK
<1>4. t = work[w].at /\ tickets'[t] = new
  BY <1>1, <1>3 DEF IInv, TypeOK
<1>5. op \in AllOperations \ Transactional /\ t \in work[w].todo
  BY <1>2, <1>4, IInvWorker DEF Consistent
<1>6. op \in StatusOperations
  <2>1. ASSUME op \notin StatusOperations PROVE new.status = tickets[t].status
    <3>1. new = [tickets[t] EXCEPT !.assignee = goal]
      BY <2>1 DEF Changed
    <3> QED
      BY <1>3, <3>1 DEF Ticket
  <2> QED
    BY <1>4, <2>1
<1>7. new.status = goal
  BY <1>3, <1>6 DEF Changed, Ticket
<1> HIDE DEF new
<1>8. CanTransition(seen.status, goal)
  <2>1. CASE op = "escalate"
    <3>1. goal = work[w].goal
      BY <2>1 DEF Goals
    <3>2. goal = "ESCALATED"
      BY <1>2, <2>1, <3>1, IInvWorker DEF Consistent
    <3> QED
      BY <1>5, <2>1, <3>2, IInvWorker DEF Validated
  <2>2. CASE op = "rule-close"
    <3>1. goal \in IF seen.status = "RESOLVED" THEN {"CLOSED"} ELSE {"RESOLVED"}
      BY <1>4, <2>2 DEF Goals
    <3>2. seen.status = "RESOLVED" \/ CanTransition(seen.status, "RESOLVED")
      BY <1>5, <2>2, IInvWorker DEF Validated
    <3>3. CanTransition("RESOLVED", "CLOSED")
      BY DEF CanTransition, AllowedTransitions, Status
    <3> QED
      BY <3>1, <3>2, <3>3
  <2> QED
    BY <1>5, <1>6, <2>1, <2>2 DEF Transactional
<1>9. work'[w] # work[w]
  BY <1>1, <1>2, IInvWorker DEF WorkInv, Worker
<1> QED
  BY <1>2, <1>4, <1>7, <1>8, <1>9 DEF Writes

\* Every status change follows the transition table unless the worker that makes
\* it looked at the ticket before somebody else's change: the validation of every
\* operation covers all it writes, and the races are the only hole in it.
THEOREM TransitionsCorrect == Spec => IllegalOnlyWhenStale
<1>1. ASSUME IInv, [Next]_vars
      PROVE  [\A t \in Existing :
                 tickets'[t].status # tickets[t].status =>
                     \/ CanTransition(tickets[t].status, tickets'[t].status)
                     \/ \E w \in Workers :
                           Writes(w, t) /\ work[w].seen[t].status # tickets[t].status]_vars
  <2> SUFFICES ASSUME Next, NEW t \in Existing,
                      tickets'[t].status # tickets[t].status,
                      ~CanTransition(tickets[t].status, tickets'[t].status)
               PROVE  \E w \in Workers :
                         Writes(w, t) /\ work[w].seen[t].status # tickets[t].status
    BY <1>1
  <2>1. CASE \E s \in Tickets, agent \in Agents \cup {NoAgent} : Open(s, agent)
    <3>1. PICK s \in Tickets, agent \in Agents \cup {NoAgent} : Open(s, agent)
      BY <2>1
    <3>2. tickets[s].status = "ABSENT" /\ t # s
      BY <3>1 DEF Open, Absent, Existing
    <3> QED
      BY <1>1, <3>1, <3>2 DEF Open, IInv, TypeOK
  <2>2. ASSUME NEW w \in Workers, Start(w) PROVE FALSE
    BY <2>2 DEF Start, StartStatusUpdate, StartAssign, StartEscalation, StartAutoAssign,
                StartRoute, StartRuleAssign, StartRuleClose, Begin
  <2>3. ASSUME NEW w \in Workers, TxCommit(w)
        PROVE  Writes(w, t) /\ work[w].seen[t].status # tickets[t].status
    BY <1>1, <2>3, CommitTransition, OperationsAssumption
  <2>4. ASSUME NEW w \in Workers, UpdateRow(w)
        PROVE  Writes(w, t) /\ work[w].seen[t].status # tickets[t].status
    BY <1>1, <2>4, UpdateTransition, OperationsAssumption
  <2>5. ASSUME NEW w \in Workers,
               TxWrite(w) \/ DeadlockVictim(w) \/ RecordChange(w) \/ Crash(w)
                  \/ StatementFails(w)
        PROVE  FALSE
    BY <2>5 DEF TxWrite, DeadlockVictim, RecordChange, Crash, StatementFails
  <2> QED
    BY <2>1, <2>2, <2>3, <2>4, <2>5 DEF Next
<1> QED
  BY <1>1, Invariance, PTL DEF Spec, IllegalOnlyWhenStale

-----------------------------------------------------------------------------
(* Without overlaps the table implements the state machine *)

\* What a worker read of the tickets that it is about to write is what the
\* table holds, except for the row that it has written without a history entry.
Fresh(r, table) ==
    \A t \in r.todo \cup r.wrote :
        table[t].status =
            IF r.pc = "record" /\ t = r.at /\ r.op \in StatusOperations
            THEN r.goal ELSE r.seen[t].status

\* The inductive invariant of the executions without overlaps.
IsolatedInv ==
    /\ IInv
    /\ Isolated
    /\ \A w \in Workers : Fresh(work[w], tickets)

\* No step of one worker makes the rows of another out of date.
LEMMA FreshUpdate ==
    ASSUME IsolatedInv, NEW w \in Workers, NEW r, work' = [work EXCEPT ![w] = r],
           Fresh(r, tickets'),
           \A t \in Tickets \ Involved(w) : tickets'[t].status = tickets[t].status
    PROVE  \A v \in Workers : Fresh(work'[v], tickets')
<1> TAKE v \in Workers
<1>1. CASE v = w
  <2>1. work'[v] = r
    BY <1>1 DEF IsolatedInv, IInv, TypeOK
  <2> QED
    BY <2>1
<1>2. CASE v # w
  <2>1. work'[v] = work[v]
    BY <1>2 DEF IsolatedInv, IInv, TypeOK
  <2>2. Involved(v) \subseteq Tickets \ Involved(w)
    BY <1>2 DEF IsolatedInv, IInv, TypeOK, Isolated, Involved, Worker
  <2>3. \A t \in Involved(v) : tickets'[t].status = tickets[t].status
    BY <2>2
  <2>4. Fresh(work[v], tickets)
    BY DEF IsolatedInv
  <2> QED
    BY <2>1, <2>3, <2>4 DEF Fresh, Involved
<1> QED
  BY <1>1, <1>2

LEMMA FreshFinish ==
    ASSUME IsolatedInv, NEW w \in Workers, Finish(w),
           \A t \in Tickets \ Involved(w) : tickets'[t].status = tickets[t].status
    PROVE  \A v \in Workers : Fresh(work'[v], tickets')
<1>1. Fresh(Idle, tickets')
  BY DEF Fresh, Idle
<1> QED
  BY <1>1, FreshUpdate DEF Finish

LEMMA FreshMoveOn ==
    ASSUME OperationsAssumption, IsolatedInv, NEW w \in Workers, MoveOn(w),
           work[w].pc \in {"update", "record"}, UNCHANGED tickets
    PROVE  \A v \in Workers : Fresh(work'[v], tickets')
<1> DEFINE rest == work[w].todo \ {work[w].at}
<1>1. CASE rest = {}
  BY <1>1, FreshFinish DEF MoveOn
<1>2. CASE rest # {}
  <2>1. PICK n \in rest :
           work' = [work EXCEPT ![w].pc = "update", ![w].todo = rest, ![w].at = n]
    BY <1>2 DEF MoveOn
  <2>2. /\ work[w] \in Worker /\ Consistent(work[w]) /\ Fresh(work[w], tickets)
        /\ work \in [Workers -> Worker]
    BY DEF IsolatedInv, IInv, TypeOK
  <2> DEFINE r == [work[w] EXCEPT !.pc = "update", !.todo = rest, !.at = n]
  <2>3. work' = [work EXCEPT ![w] = r]
    BY <2>1, <2>2 DEF Worker
  <2>4. /\ r.pc = "update" /\ r.todo = rest /\ r.at = n /\ r.op = work[w].op
        /\ r.wrote = work[w].wrote /\ r.seen = work[w].seen /\ r.goal = work[w].goal
    BY <2>2 DEF Worker
  <2> HIDE DEF r
  <2>5. r.wrote = {}
    BY <2>2, <2>4 DEF Consistent
  <2>6. Fresh(r, tickets')
    BY <2>2, <2>4, <2>5 DEF Fresh
  <2> QED
    BY <2>3, <2>6, FreshUpdate
<1> QED
  BY <1>1, <1>2

\* A step without overlaps keeps every worker's rows fresh.
LEMMA FreshStep ==
    ASSUME OperationsAssumption, IsolatedInv, Next
    PROVE  \A v \in Workers : Fresh(work'[v], tickets')
<1>1. CASE \E t \in Tickets, agent \in Agents \cup {NoAgent} : Open(t, agent)
  <2>1. PICK s \in Tickets, agent \in Agents \cup {NoAgent} : Open(s, agent)
    BY <1>1
  <2>2. tickets[s].status = "ABSENT" /\ work' = work
    BY <2>1 DEF Open, Absent
  <2>3. \A t \in Tickets \ {s} : tickets'[t] = tickets[t]
    BY <2>1 DEF Open, IsolatedInv, IInv, TypeOK
  <2> SUFFICES ASSUME NEW v \in Workers PROVE Fresh(work[v], tickets')
    BY <2>2
  <2>4. /\ work[v] \in Worker /\ Consistent(work[v]) /\ Validated(work[v])
        /\ Fresh(work[v], tickets)
    BY DEF IsolatedInv, IInv, TypeOK
  <2>5. s \notin work[v].todo \cup work[v].wrote
    <3> SUFFICES ASSUME s \in work[v].todo \cup work[v].wrote PROVE FALSE
      OBVIOUS
    <3>1. work[v].seen[s].status # "ABSENT"
      BY <2>4 DEF Validated
    <3>2. work[v].pc = "record" /\ work[v].op \in StatusOperations /\ work[v].goal = "ABSENT"
      BY <2>2, <2>4, <3>1 DEF Fresh
    <3>3. work[v].goal \in Status
      BY <2>4, <3>2 DEF Consistent, GoalFits
    <3> QED
      BY <3>2, <3>3 DEF Status
  <2>6. work[v].todo \cup work[v].wrote \subseteq Tickets
    BY <2>4 DEF Worker
  <2> QED
    BY <2>3, <2>4, <2>5, <2>6 DEF Fresh
<1>2. ASSUME NEW w \in Workers, NEW op, NEW pc \in {"write", "update"},
             NEW S \in SUBSET Existing, NEW goal, Begin(w, op, pc, S, goal)
      PROVE  \A v \in Workers : Fresh(work'[v], tickets')
  <2> DEFINE read == [s \in Tickets |-> IF s \in S THEN tickets[s] ELSE Absent]
             r(t) == [pc |-> pc, op |-> op, todo |-> S, at |-> t, wrote |-> {},
                      seen |-> read, goal |-> goal]
  <2>1. PICK t \in S : work' = [work EXCEPT ![w] = r(t)]
    BY <1>2 DEF Begin
  <2>2. tickets' = tickets
    BY <1>2 DEF Begin
  <2>3. \A s \in S : read[s] = tickets[s]
    BY DEF Existing
  <2> HIDE DEF read
  <2>4. Fresh(r(t), tickets')
    BY <2>2, <2>3 DEF Fresh
  <2> HIDE DEF r
  <2> QED
    BY <2>1, <2>2, <2>4, FreshUpdate
<1>3. ASSUME NEW w \in Workers, Start(w)
      PROVE  \A v \in Workers : Fresh(work'[v], tickets')
  <2>1. CASE StartStatusUpdate(w)
    BY <1>2, <2>1 DEF StartStatusUpdate
  <2>2. CASE StartAssign(w)
    BY <1>2, <2>2 DEF StartAssign
  <2>3. CASE StartEscalation(w)
    BY <1>2, <2>3 DEF StartEscalation, Existing
  <2>4. CASE StartAutoAssign(w)
    BY <1>2, <2>4 DEF StartAutoAssign, Existing
  <2>5. CASE StartRoute(w)
    BY <1>2, <2>5 DEF StartRoute, Existing, Assignable, Status
  <2>6. CASE StartRuleAssign(w)
    BY <1>2, <2>6 DEF StartRuleAssign
  <2>7. CASE StartRuleClose(w)
    BY <1>2, <2>7 DEF StartRuleClose
  <2> QED
    BY <1>3, <2>1, <2>2, <2>3, <2>4, <2>5, <2>6, <2>7 DEF Start
<1>4. ASSUME NEW w \in Workers, TxWrite(w)
      PROVE  \A v \in Workers : Fresh(work'[v], tickets')
  <2> DEFINE t == work[w].at
             rest == work[w].todo \ {t}
             next == IF rest = {} THEN "commit" ELSE "write"
  <2>1. PICK n \in IF rest = {} THEN {t} ELSE rest :
           work' = [work EXCEPT ![w].pc = next, ![w].todo = rest,
                                ![w].wrote = @ \cup {t}, ![w].at = n]
    BY <1>4 DEF TxWrite
  <2>2. work[w].pc = "write" /\ tickets' = tickets
    BY <1>4 DEF TxWrite
  <2>3. /\ work[w] \in Worker /\ Consistent(work[w]) /\ Fresh(work[w], tickets)
        /\ work \in [Workers -> Worker]
    BY DEF IsolatedInv, IInv, TypeOK
  <2> DEFINE r == [work[w] EXCEPT !.pc = next, !.todo = rest, !.wrote = @ \cup {t}, !.at = n]
  <2>4. work' = [work EXCEPT ![w] = r]
    BY <2>1, <2>3 DEF Worker
  <2>5. /\ r.pc = next /\ r.todo = rest /\ r.wrote = work[w].wrote \cup {t}
        /\ r.seen = work[w].seen /\ r.goal = work[w].goal
    BY <2>3 DEF Worker
  <2> HIDE DEF r
  <2>6. t \in work[w].todo
    BY <2>2, <2>3 DEF Consistent
  <2>7. r.pc # "record" /\ r.todo \cup r.wrote \subseteq work[w].todo \cup work[w].wrote
    BY <2>5, <2>6
  <2>8. Fresh(r, tickets')
    BY <2>2, <2>3, <2>5, <2>7 DEF Fresh
  <2> QED
    BY <2>2, <2>4, <2>8, FreshUpdate
<1>5. ASSUME NEW w \in Workers, TxCommit(w)
      PROVE  \A v \in Workers : Fresh(work'[v], tickets')
  <2>1. Finish(w)
    BY <1>5 DEF TxCommit
  <2>2. \A t \in Tickets \ Involved(w) : tickets'[t].status = tickets[t].status
    BY <1>5 DEF TxCommit, Involved
  <2> QED
    BY <2>1, <2>2, FreshFinish
<1>6. ASSUME NEW w \in Workers, UpdateRow(w)
      PROVE  \A v \in Workers : Fresh(work'[v], tickets')
  <2> DEFINE t == work[w].at
             op == work[w].op
  <2>1. PICK goal \in Goals(w) :
           /\ tickets' = [tickets EXCEPT ![t] = Changed(@, op, goal)]
           /\ work' = [work EXCEPT ![w].pc = "record", ![w].goal = goal]
    BY <1>6 DEF UpdateRow
  <2>2. work[w].pc = "update"
    BY <1>6 DEF UpdateRow
  <2>3. /\ work[w] \in Worker /\ Consistent(work[w]) /\ Fresh(work[w], tickets)
        /\ work \in [Workers -> Worker] /\ tickets \in [Tickets -> Ticket]
    BY DEF IsolatedInv, IInv, TypeOK
  <2> DEFINE r == [work[w] EXCEPT !.pc = "record", !.goal = goal]
  <2>4. work' = [work EXCEPT ![w] = r]
    BY <2>1, <2>3 DEF Worker
  <2>5. /\ r.pc = "record" /\ r.todo = work[w].todo /\ r.wrote = work[w].wrote /\ r.at = t
        /\ r.op = op /\ r.seen = work[w].seen /\ r.goal = goal
    BY <2>3 DEF Worker
  <2> HIDE DEF r
  <2>6. t \in work[w].todo /\ work[w].todo \subseteq Tickets /\ t \in Involved(w)
    BY <2>2, <2>3 DEF Consistent, Worker, Involved
  <2>7. tickets'[t].status = IF op \in StatusOperations THEN goal ELSE tickets[t].status
    BY <2>1, <2>3, <2>6 DEF Changed, Ticket
  <2>8. \A s \in Tickets \ {t} : tickets'[s] = tickets[s]
    BY <2>1, <2>3
  <2>9. \A s \in work[w].todo \cup work[w].wrote :
           s \in Tickets /\ tickets[s].status = work[w].seen[s].status
    BY <2>2, <2>3 DEF Fresh, Worker
  <2>10. Fresh(r, tickets')
    BY <2>5, <2>6, <2>7, <2>8, <2>9 DEF Fresh
  <2> QED
    BY <2>4, <2>6, <2>8, <2>10, FreshUpdate
<1>7. ASSUME NEW w \in Workers, RecordChange(w)
      PROVE  \A v \in Workers : Fresh(work'[v], tickets')
  <2> DEFINE t == work[w].at
  <2>1. work[w].pc = "record" /\ UNCHANGED tickets
    BY <1>7 DEF RecordChange
  <2>2. CASE work[w].op = "rule-close" /\ work[w].goal = "RESOLVED"
    <3>1. work' = [work EXCEPT ![w].pc = "update", ![w].seen[t].status = "RESOLVED"]
      BY <1>7, <2>2 DEF RecordChange
    <3>2. /\ work[w] \in Worker /\ Consistent(work[w]) /\ Fresh(work[w], tickets)
          /\ work \in [Workers -> Worker]
      BY DEF IsolatedInv, IInv, TypeOK
    <3> DEFINE resolved == [work[w].seen EXCEPT ![t].status = "RESOLVED"]
               r == [work[w] EXCEPT !.pc = "update", !.seen = resolved]
    <3>3. work' = [work EXCEPT ![w] = r]
      BY <3>1, <3>2 DEF Worker
    <3>4. t \in work[w].todo /\ work[w].todo \cup work[w].wrote \subseteq Tickets
      BY <2>1, <3>2 DEF Consistent, Worker
    <3>5. /\ resolved[t].status = "RESOLVED"
          /\ \A s \in Tickets : s # t => resolved[s] = work[w].seen[s]
      BY <3>2, <3>4 DEF Worker, Ticket
    <3> HIDE DEF resolved
    <3>6. /\ r.pc = "update" /\ r.todo = work[w].todo /\ r.wrote = work[w].wrote
          /\ r.seen = resolved
      BY <3>2 DEF Worker
    <3> HIDE DEF r
    <3>7. Fresh(r, tickets')
      BY <2>1, <2>2, <3>2, <3>4, <3>5, <3>6 DEF Fresh
    <3> QED
      BY <2>1, <3>3, <3>7, FreshUpdate
  <2>3. CASE ~(work[w].op = "rule-close" /\ work[w].goal = "RESOLVED")
    <3>1. MoveOn(w)
      BY <1>7, <2>3 DEF RecordChange
    <3> QED
      BY <2>1, <3>1, FreshMoveOn
  <2> QED
    BY <2>2, <2>3
<1>8. ASSUME NEW w \in Workers, DeadlockVictim(w) \/ Crash(w)
      PROVE  \A v \in Workers : Fresh(work'[v], tickets')
  <2>1. Finish(w) /\ UNCHANGED tickets
    BY <1>8 DEF DeadlockVictim, Crash
  <2> QED
    BY <2>1, FreshFinish
<1>9. ASSUME NEW w \in Workers, StatementFails(w)
      PROVE  \A v \in Workers : Fresh(work'[v], tickets')
  <2>1. /\ work[w].pc \in {"update", "record"}
        /\ MoveOn(w) \/ Finish(w)
        /\ UNCHANGED tickets
    BY <1>9 DEF StatementFails
  <2> QED
    BY <2>1, FreshMoveOn, FreshFinish
<1> QED
  BY <1>1, <1>3, <1>4, <1>5, <1>6, <1>7, <1>8, <1>9 DEF Next

LEMMA IsolatedInvariance == IsolatedSpec => []IsolatedInv
<1>1. Init => IsolatedInv
  <2>1. Init => IInv
    BY InitInv, OperationsAssumption
  <2>2. Init => Isolated
    BY DEF Init, Isolated, Involved, Idle
  <2>3. Init => \A w \in Workers : Fresh(work[w], tickets)
    BY DEF Init, Fresh, Idle
  <2> QED
    BY <2>1, <2>2, <2>3 DEF IsolatedInv
<1>2. IsolatedInv /\ [Next /\ Isolated']_vars => IsolatedInv'
  <2> SUFFICES ASSUME IsolatedInv, [Next /\ Isolated']_vars PROVE IsolatedInv'
    OBVIOUS
  <2>1. CASE UNCHANGED vars
    <3>1. IInv'
      BY <2>1, StepInv, OperationsAssumption DEF IsolatedInv
    <3> QED
      BY <2>1, <3>1 DEF vars, IsolatedInv, Isolated, Involved
  <2>2. CASE Next /\ Isolated'
    <3>1. IInv'
      BY <2>2, StepInv, OperationsAssumption DEF IsolatedInv
    <3>2. \A v \in Workers : Fresh(work'[v], tickets')
      BY <2>2, FreshStep, OperationsAssumption
    <3> QED
      BY <2>2, <3>1, <3>2 DEF IsolatedInv
  <2> QED
    BY <2>1, <2>2
<1> QED
  BY <1>1, <1>2, PTL DEF IsolatedSpec

\* The status and the assignee of every ticket, as the state machine sees them.
StatusMap == [t \in Tickets |-> tickets[t].status]

AssigneeMap == [t \in Tickets |-> tickets[t].assignee]

\* The state machine and the table share the domain rules.
LEMMA SameRules ==
    /\ Machine!Status = Status
    /\ \A from, to : Machine!CanTransition(from, to) <=> CanTransition(from, to)
    /\ \A st : Machine!Assignable(st) <=> Assignable(st)
<1>1. Machine!Status = Status
  BY DEF Machine!Status, Status
<1>2. Machine!AllowedTransitions = AllowedTransitions
  BY DEF Machine!AllowedTransitions, AllowedTransitions
<1> QED
  BY <1>1, <1>2 DEF Machine!CanTransition, CanTransition, Machine!Assignable, Assignable

\* The write of a set of fresh rows by one worker is one step of the machine.
LEMMA WriteImplements ==
    ASSUME OperationsAssumption, IsolatedInv, "rule-assign" \notin Operations,
           NEW w \in Workers, work[w].op \in Operations, work[w].pc # "record",
           NEW S \in SUBSET Involved(w), NEW goal, GoalFits(work[w].op, goal),
           work[w].op = "status" => goal = work[w].goal,
           work[w].op \in {"escalate", "rule-close"} =>
              \A t \in S : /\ CanTransition(work[w].seen[t].status, goal)
                           /\ goal # "IN_PROGRESS",
           tickets' = [t \in Tickets |-> IF t \in S
                                         THEN Changed(tickets[t], work[w].op, goal)
                                         ELSE tickets[t]]
    PROVE  Machine!Next
<1> DEFINE op == work[w].op
           new(t) == Changed(tickets[t], op, goal)
<1>1. S \in SUBSET Tickets /\ tickets \in [Tickets -> Ticket]
  BY DEF IsolatedInv, IInv, TypeOK, Involved, Worker
<1>2. \A t \in S : /\ new(t).status = IF op \in StatusOperations THEN goal
                                      ELSE tickets[t].status
                   /\ new(t).assignee = IF op \in StatusOperations
                                        THEN tickets[t].assignee ELSE goal
  BY <1>1, ChangedType
<1> HIDE DEF new
<1>3. \A t \in S : tickets[t].status = work[w].seen[t].status
  BY DEF IsolatedInv, Fresh, Involved
<1>4. /\ tickets' = [t \in Tickets |-> IF t \in S THEN new(t) ELSE tickets[t]]
      /\ Validated(work[w]) /\ StaysAssigned(work[w])
  BY DEF new, IsolatedInv, IInv
<1>5. CASE op \in StatusOperations
  <2>1. goal \in Status
    BY <1>5 DEF GoalFits
  <2>2. \A t \in S : /\ CanTransition(StatusMap[t], goal)
                     /\ goal = "IN_PROGRESS" => AssigneeMap[t] # NoAgent
    <3> TAKE t \in S
    <3>1. CASE op = "status"
      <4>1. MayMove(work[w].seen[t], goal)
        BY <1>4, <3>1 DEF Validated, Involved
      <4>2. goal = "IN_PROGRESS" => tickets[t].assignee # NoAgent
        BY <1>1, <1>4, <4>1 DEF MayMove, StaysAssigned
      <4> QED
        BY <1>1, <1>3, <4>1, <4>2 DEF MayMove, StatusMap, AssigneeMap
    <3>2. CASE op \in {"escalate", "rule-close"}
      BY <1>1, <1>3, <3>2 DEF StatusMap
    <3> QED
      BY <1>5, <3>1, <3>2
  <2>3. StatusMap' = [t \in Tickets |-> IF t \in S THEN goal ELSE StatusMap[t]]
    BY <1>1, <1>2, <1>4, <1>5 DEF StatusMap
  <2>4. AssigneeMap' = AssigneeMap
    BY <1>1, <1>2, <1>4, <1>5 DEF AssigneeMap
  <2>5. Machine!Move(S, goal)
    BY <2>2, <2>3, <2>4, SameRules, Zenon DEF Machine!Move, StatusMap, AssigneeMap
  <2> QED
    BY <1>1, <2>1, <2>5, SameRules, Zenon DEF Machine!Next
<1>6. CASE op \notin StatusOperations
  <2>1. goal \in Agents
    BY <1>6 DEF GoalFits
  <2>2. op \in {"assign", "auto-assign", "route"}
    BY <1>6 DEF OperationsAssumption, AllOperations, Transactional
  <2>3. \A t \in S : Assignable(StatusMap[t])
    BY <1>1, <1>3, <1>4, <2>2 DEF Validated, Involved, StatusMap
  <2>4. AssigneeMap' = [t \in Tickets |-> IF t \in S THEN goal ELSE AssigneeMap[t]]
    BY <1>1, <1>2, <1>4, <1>6 DEF AssigneeMap
  <2>5. StatusMap' = StatusMap
    BY <1>1, <1>2, <1>4, <1>6 DEF StatusMap
  <2>6. Machine!Assign(S, goal)
    BY <2>3, <2>4, <2>5, SameRules, Zenon DEF Machine!Assign, StatusMap, AssigneeMap
  <2> QED
    BY <1>1, <2>1, <2>6, Zenon DEF Machine!Next
<1> QED
  BY <1>5, <1>6

LEMMA OpenImplements ==
    ASSUME IInv, NEW t \in Tickets, NEW agent \in Agents \cup {NoAgent}, Open(t, agent)
    PROVE  Machine!Next
<1>1. /\ tickets[t] = Absent
      /\ tickets' = [tickets EXCEPT ![t] = [status |-> "OPEN", assignee |-> agent,
                                            closedAt |-> FALSE]]
      /\ tickets \in [Tickets -> Ticket]
  BY DEF Open, IInv, TypeOK
<1>2. StatusMap[t] = "ABSENT"
  BY <1>1 DEF StatusMap, Absent
<1>3. StatusMap' = [StatusMap EXCEPT ![t] = "OPEN"]
  BY <1>1 DEF StatusMap
<1>4. AssigneeMap' = [AssigneeMap EXCEPT ![t] = agent]
  BY <1>1 DEF AssigneeMap
<1>5. Machine!Open(t)
  BY <1>2, <1>3, <1>4, Zenon DEF Machine!Open, StatusMap, AssigneeMap
<1> QED
  BY <1>5, Zenon DEF Machine!Next

LEMMA CommitImplements ==
    ASSUME OperationsAssumption, IsolatedInv, "rule-assign" \notin Operations,
           NEW w \in Workers, work[w].op \in Operations, TxCommit(w)
    PROVE  Machine!Next
<1>1. /\ work[w].pc = "commit"
      /\ tickets' = [t \in Tickets |-> IF t \in work[w].wrote
                                       THEN Changed(tickets[t], work[w].op, work[w].goal)
                                       ELSE tickets[t]]
  BY DEF TxCommit
<1>2. work[w].op \in Transactional /\ GoalFits(work[w].op, work[w].goal)
  BY <1>1 DEF IsolatedInv, IInv, Consistent
<1>3. work[w].op \notin {"escalate", "rule-close"}
  BY <1>2 DEF Transactional
<1>4. work[w].wrote \in SUBSET Involved(w)
  BY DEF Involved
<1> QED
  BY <1>1, <1>2, <1>3, <1>4, WriteImplements

LEMMA UpdateImplements ==
    ASSUME OperationsAssumption, IsolatedInv, "rule-assign" \notin Operations,
           NEW w \in Workers, work[w].op \in Operations, UpdateRow(w)
    PROVE  Machine!Next
<1> DEFINE t == work[w].at
           op == work[w].op
           seen == work[w].seen[t]
<1>1. PICK goal \in Goals(w) : tickets' = [tickets EXCEPT ![t] = Changed(@, op, goal)]
  BY DEF UpdateRow
<1>2. work[w].pc = "update"
  BY DEF UpdateRow
<1>3. /\ work[w] \in Worker /\ Consistent(work[w]) /\ Validated(work[w])
      /\ tickets \in [Tickets -> Ticket]
  BY DEF IsolatedInv, IInv, TypeOK
<1>4. op \in AllOperations \ Transactional /\ t \in work[w].todo /\ t \in Tickets
  BY <1>2, <1>3 DEF Consistent, Worker
<1>5. tickets' = [s \in Tickets |-> IF s \in {t} THEN Changed(tickets[s], op, goal)
                                    ELSE tickets[s]]
  BY <1>1, <1>3, <1>4
<1>6. {t} \in SUBSET Involved(w)
  BY <1>4 DEF Involved
<1>7. CASE op = "escalate"
  <2>1. goal = work[w].goal
    BY <1>7 DEF Goals
  <2>2. goal = "ESCALATED"
    BY <1>2, <1>3, <1>7, <2>1 DEF Consistent
  <2>3. GoalFits(op, goal) /\ CanTransition(seen.status, goal)
    BY <1>3, <1>4, <1>7, <2>2 DEF Validated, GoalFits, Status
  <2>4. \A s \in {t} : CanTransition(work[w].seen[s].status, goal) /\ goal # "IN_PROGRESS"
    BY <2>2, <2>3
  <2>5. op # "status" /\ work[w].pc # "record"
    BY <1>2, <1>7
  <2> QED
    BY <1>5, <1>6, <2>3, <2>4, <2>5, WriteImplements
<1>8. CASE op = "rule-close"
  <2>1. goal \in IF seen.status = "RESOLVED" THEN {"CLOSED"} ELSE {"RESOLVED"}
    BY <1>8 DEF Goals
  <2>2. seen.status = "RESOLVED" \/ CanTransition(seen.status, "RESOLVED")
    BY <1>3, <1>4, <1>8 DEF Validated
  <2>3. CanTransition("RESOLVED", "CLOSED")
    BY DEF CanTransition, AllowedTransitions, Status
  <2>4. CanTransition(seen.status, goal) /\ goal # "IN_PROGRESS"
    BY <2>1, <2>2, <2>3
  <2>5. GoalFits(op, goal)
    BY <1>8, <2>1 DEF GoalFits, Status
  <2> QED
    BY <1>2, <1>5, <1>6, <1>8, <2>4, <2>5, WriteImplements
<1>9. CASE op \in {"auto-assign", "route"}
  <2>1. goal \in Agents
    BY <1>9 DEF Goals
  <2>2. GoalFits(op, goal)
    BY <1>9, <2>1 DEF GoalFits
  <2> QED
    BY <1>2, <1>5, <1>6, <1>9, <2>2, WriteImplements
<1>10. op # "rule-assign" /\ op \notin Transactional
  BY <1>4
<1> QED
  BY <1>4, <1>7, <1>8, <1>9, <1>10 DEF AllOperations

\* Every step without overlaps is a step of the state machine or changes no
\* status and no assignee.
LEMMA StepImplements ==
    ASSUME OperationsAssumption, IsolatedInv, "rule-assign" \notin Operations,
           Next
    PROVE  Machine!Next \/ UNCHANGED <<StatusMap, AssigneeMap>>
<1>1. CASE \E t \in Tickets, agent \in Agents \cup {NoAgent} : Open(t, agent)
  BY <1>1, OpenImplements DEF IsolatedInv
<1>2. ASSUME NEW w \in Workers, TxCommit(w) PROVE Machine!Next
  <2>1. work[w].op \in Operations
    BY <1>2 DEF TxCommit, IsolatedInv, IInv, Consistent
  <2> QED
    BY <1>2, <2>1, CommitImplements
<1>3. ASSUME NEW w \in Workers, UpdateRow(w) PROVE Machine!Next
  <2>1. work[w].op \in Operations
    BY <1>3 DEF UpdateRow, IsolatedInv, IInv, Consistent
  <2> QED
    BY <1>3, <2>1, UpdateImplements
<1>4. ASSUME NEW w \in Workers, Start(w) PROVE UNCHANGED tickets
  BY <1>4 DEF Start, StartStatusUpdate, StartAssign, StartEscalation, StartAutoAssign,
              StartRoute, StartRuleAssign, StartRuleClose, Begin
<1>5. ASSUME NEW w \in Workers,
             TxWrite(w) \/ DeadlockVictim(w) \/ RecordChange(w) \/ Crash(w)
                \/ StatementFails(w)
      PROVE  UNCHANGED tickets
  BY <1>5 DEF TxWrite, DeadlockVictim, RecordChange, Crash, StatementFails
<1>6. UNCHANGED tickets => UNCHANGED <<StatusMap, AssigneeMap>>
  BY DEF StatusMap, AssigneeMap
<1> QED
  BY <1>1, <1>2, <1>3, <1>4, <1>5, <1>6 DEF Next

\* While no two operations overlap on a ticket, and without the automation's
\* assignment (which does not look at the status), the table of tickets is the
\* state machine of the domain rules: every validation covers what it guards,
\* in every operation, through every crash and failed statement.
THEOREM ImplementsMachineCorrect ==
    ASSUME "rule-assign" \notin Operations
    PROVE  IsolatedSpec => ImplementsMachine
<1>1. Init => Machine!Init
  <2>1. Init => /\ StatusMap = [t \in Tickets |-> "ABSENT"]
                /\ AssigneeMap = [t \in Tickets |-> NoAgent]
    BY DEF Init, StatusMap, AssigneeMap, Absent
  <2> QED
    BY <2>1, Zenon DEF Machine!Init, StatusMap, AssigneeMap
<1>2. IsolatedInv /\ [Next /\ Isolated']_vars => [Machine!Next]_Machine!vars
  <2> SUFFICES ASSUME IsolatedInv, [Next /\ Isolated']_vars
               PROVE  Machine!Next \/ UNCHANGED Machine!vars
    OBVIOUS
  <2>1. Machine!Next \/ UNCHANGED <<StatusMap, AssigneeMap>>
    <3>1. CASE Next
      BY <3>1, StepImplements, OperationsAssumption
    <3>2. CASE UNCHANGED vars
      BY <3>2 DEF vars, StatusMap, AssigneeMap
    <3> QED
      BY <3>1, <3>2
  <2> QED
    BY <2>1, Zenon DEF Machine!vars, StatusMap, AssigneeMap
<1> QED
  BY <1>1, <1>2, IsolatedInvariance, PTL DEF IsolatedSpec, ImplementsMachine, Machine!Spec

-----------------------------------------------------------------------------
(* What the history and the outbox tell of a ticket                        *)

\* An entry with one of the events is the last one of them from now on; another
\* entry changes nothing.
LEMMA AppendTells ==
    ASSUME NEW entries \in Seq(Entry), NEW e \in Entry, NEW events, NEW default, NEW value,
           IF e.event \in events THEN value = e.new
           ELSE LastTells(entries, events, default, value)
    PROVE  LastTells(Append(entries, e), events, default, value)
<1> DEFINE more == Append(entries, e)
           n == Len(entries)
           places == {i \in 1..Len(entries) : entries[i].event \in events}
           after == {i \in 1..Len(more) : more[i].event \in events}
<1>1. /\ Len(more) = n + 1 /\ more[n + 1] = e /\ n \in Nat
      /\ \A i \in 1..n : more[i] = entries[i]
  OBVIOUS
<1> HIDE DEF more
<1>2. CASE e.event \in events
  <2>1. n + 1 \in after /\ \A j \in after : j <= n + 1
    BY <1>1, <1>2
  <2>2. more[n + 1].new = value
    BY <1>1, <1>2
  <2>3. QED
    BY <2>1, <2>2 DEF LastTells, more
<1>3. CASE e.event \notin events
  <2>1. after = places
    BY <1>1, <1>3
  <2>2. \A i \in places : more[i].new = entries[i].new
    BY <1>1
  <2>3. LastTells(entries, events, default, value)
    BY <1>3
  <2>4. IF after = {} THEN value = default
        ELSE \E i \in after : (\A j \in after : j <= i) /\ more[i].new = value
    BY <2>1, <2>2, <2>3 DEF LastTells
  <2>5. QED
    BY <2>4 DEF LastTells, more
<1>4. QED
  BY <1>2, <1>3

StatusEvents == {"STATUS_CHANGED", "TICKET_ESCALATED"}
AssignmentEvents == {"ASSIGNED", "REASSIGNED"}

\* A history that tells this of a ticket; of one that is absent it tells nothing yet.
StatusTold(ticket) == IF ticket.status = "ABSENT" THEN "OPEN" ELSE ticket.status

Tells(entries, ticket) ==
    /\ LastTells(entries, StatusEvents, "OPEN", StatusTold(ticket))
    /\ LastTells(entries, AssignmentEvents, NoAgent, ticket.assignee)

\* The entry of a change tells what the change has written.
LEMMA ChangeTells ==
    ASSUME NEW ticket \in Ticket, NEW seen \in Ticket, seen.status # "ABSENT",
           NEW op \in AllOperations, NEW goal, GoalFits(op, goal),
           NEW entries \in Seq(Entry), Tells(entries, ticket)
    PROVE  Tells(Append(entries, EntryOf(op, seen, goal)), Changed(ticket, op, goal))
<1> DEFINE e == EntryOf(op, seen, goal)
           new == Changed(ticket, op, goal)
<1>1. e \in Entry
  BY EntryType
<1>2. /\ new.status = IF op \in StatusOperations THEN goal ELSE ticket.status
      /\ new.assignee = IF op \in StatusOperations THEN ticket.assignee ELSE goal
  BY ChangedType
<1>0. StatusTold(new) = IF op \in StatusOperations THEN goal ELSE StatusTold(ticket)
  BY <1>2 DEF StatusTold, GoalFits, Status
<1>3. /\ e.new = goal
      /\ op \in StatusOperations => e.event \in StatusEvents /\ e.event \notin AssignmentEvents
      /\ op \notin StatusOperations => e.event \in AssignmentEvents /\ e.event \notin StatusEvents
  <2>1. CASE op = "escalate"
    BY <2>1 DEF EntryOf, StatusEvents, AssignmentEvents
  <2>2. CASE op \in StatusOperations \ {"escalate"}
    BY <2>2 DEF EntryOf, StatusEvents, AssignmentEvents
  <2>3. CASE op \notin StatusOperations
    BY <2>3 DEF EntryOf, StatusEvents, AssignmentEvents
  <2>4. QED
    BY <2>1, <2>2, <2>3
<1> HIDE DEF e, new
<1>4. LastTells(Append(entries, e), StatusEvents, "OPEN", StatusTold(new))
  BY <1>0, <1>1, <1>3, AppendTells DEF Tells
<1>5. LastTells(Append(entries, e), AssignmentEvents, NoAgent, new.assignee)
  BY <1>1, <1>2, <1>3, AppendTells DEF Tells
<1>6. QED
  BY <1>4, <1>5 DEF Tells, e, new

\* While only transactions write, the history tells every ticket at any moment.
AllTold == \A t \in Tickets : Tells(history[t], tickets[t])

LEMMA OpenTells ==
    ASSUME OperationsAssumption, IInv, AllTold,
           NEW t \in Tickets, NEW agent \in Agents \cup {NoAgent}, Open(t, agent)
    PROVE  AllTold'
<1> DEFINE created == [event |-> "CREATED", old |-> "none", new |-> "none"]
           assigned == [event |-> "ASSIGNED", old |-> NoAgent, new |-> agent]
           h == <<created>> \o IF agent = NoAgent THEN <<>> ELSE <<assigned>>
<1>1. /\ tickets' = [tickets EXCEPT ![t] = [status |-> "OPEN", assignee |-> agent,
                                            closedAt |-> FALSE]]
      /\ history' = [history EXCEPT ![t] = h]
      /\ tickets \in [Tickets -> Ticket] /\ history \in [Tickets -> Seq(Entry)]
  BY DEF Open, IInv, TypeOK
<1>2. created \in Entry /\ assigned \in Entry
  BY DEF Entry, Value
<1>3. LastTells(<<>>, StatusEvents, "OPEN", "OPEN") /\ LastTells(<<>>, AssignmentEvents, NoAgent, NoAgent)
  BY DEF LastTells
<1>4. created.event \notin StatusEvents /\ created.event \notin AssignmentEvents
      /\ assigned.event \notin StatusEvents /\ assigned.event \in AssignmentEvents
      /\ assigned.new = agent
  BY DEF StatusEvents, AssignmentEvents
<1> HIDE DEF created, assigned
<1>5. /\ LastTells(<<created>>, StatusEvents, "OPEN", "OPEN")
      /\ LastTells(<<created>>, AssignmentEvents, NoAgent, NoAgent)
  <2>1. <<created>> = Append(<<>>, created) /\ <<>> \in Seq(Entry)
    OBVIOUS
  <2>2. LastTells(Append(<<>>, created), StatusEvents, "OPEN", "OPEN")
    BY <1>2, <1>3, <1>4, <2>1, AppendTells
  <2>3. LastTells(Append(<<>>, created), AssignmentEvents, NoAgent, NoAgent)
    BY <1>2, <1>3, <1>4, <2>1, AppendTells
  <2>4. QED
    BY <2>1, <2>2, <2>3
<1>6. /\ LastTells(h, StatusEvents, "OPEN", "OPEN")
      /\ LastTells(h, AssignmentEvents, NoAgent, agent)
  <2>1. CASE agent = NoAgent
    <3>1. h = <<created>>
      BY <2>1
    <3>2. QED
      BY <1>5, <2>1, <3>1
  <2>2. CASE agent # NoAgent
    <3>1. h = Append(<<created>>, assigned) /\ <<created>> \in Seq(Entry)
      BY <1>2, <2>2
    <3> HIDE DEF h
    <3>2. LastTells(Append(<<created>>, assigned), StatusEvents, "OPEN", "OPEN")
      BY <1>2, <1>4, <1>5, <3>1, AppendTells
    <3>3. LastTells(Append(<<created>>, assigned), AssignmentEvents, NoAgent, agent)
      BY <1>2, <1>4, <3>1, AppendTells
    <3>4. QED
      BY <3>1, <3>2, <3>3
  <2>3. QED
    BY <2>1, <2>2
<1> HIDE DEF h
<1>7. ASSUME NEW s \in Tickets PROVE Tells(history'[s], tickets'[s])
  <2>1. CASE s = t
    <3>1. history'[s] = h /\ tickets'[s].status = "OPEN" /\ tickets'[s].assignee = agent
      BY <1>1, <2>1
    <3>2. QED
      BY <1>6, <3>1 DEF Tells, StatusTold
  <2>2. CASE s # t
    <3>1. history'[s] = history[s] /\ tickets'[s] = tickets[s]
      BY <1>1, <2>2
    <3>2. QED
      BY <3>1 DEF AllTold
  <2>3. QED
    BY <2>1, <2>2
<1>8. QED
  BY <1>7 DEF AllTold

LEMMA CommitTells ==
    ASSUME OperationsAssumption, IInv, AllTold, NEW w \in Workers, TxCommit(w)
    PROVE  AllTold'
<1> DEFINE r == work[w]
<1>1. /\ r.pc = "commit"
      /\ tickets' = [t \in Tickets |-> IF t \in r.wrote THEN Changed(tickets[t], r.op, r.goal)
                                       ELSE tickets[t]]
      /\ history' = [t \in Tickets |->
                        IF t \in r.wrote
                        THEN Append(history[t], EntryOf(r.op, r.seen[t], r.goal))
                        ELSE history[t]]
  BY DEF TxCommit
<1>2. /\ r \in Worker /\ Consistent(r) /\ Validated(r)
      /\ tickets \in [Tickets -> Ticket] /\ history \in [Tickets -> Seq(Entry)]
  BY IInvWorker DEF IInv, TypeOK
<1>3. r.op \in AllOperations /\ GoalFits(r.op, r.goal)
  BY <1>1, <1>2, OperationsAssumption DEF Consistent, AllOperations, OperationsAssumption
<1> HIDE DEF r
<1>4. ASSUME NEW t \in Tickets PROVE Tells(history'[t], tickets'[t])
  <2>0. tickets[t] \in Ticket /\ history[t] \in Seq(Entry)
    BY <1>2
  <2>1. CASE t \in r.wrote
    <3>1. r.seen[t] \in Ticket /\ r.seen[t].status # "ABSENT"
      BY <1>2, <2>0, <2>1 DEF Worker, Validated
    <3>3. Tells(history[t], tickets[t])
      BY DEF AllTold
    <3>4. Tells(Append(history[t], EntryOf(r.op, r.seen[t], r.goal)),
                Changed(tickets[t], r.op, r.goal))
      BY <1>3, <2>0, <3>1, <3>3, ChangeTells
    <3>5. QED
      BY <1>1, <2>0, <2>1, <3>4
  <2>2. CASE t \notin r.wrote
    <3>1. history'[t] = history[t] /\ tickets'[t] = tickets[t]
      BY <1>1, <2>2
    <3>2. QED
      BY <3>1 DEF AllTold
  <2>3. QED
    BY <2>1, <2>2
<1>5. QED
  BY <1>4 DEF AllTold

\* Other steps of requests write neither.
LEMMA OthersTell ==
    ASSUME AllTold, UNCHANGED <<tickets, history>>
    PROVE  AllTold'
BY DEF AllTold

LEMMA StepTells ==
    ASSUME OperationsAssumption, Operations \subseteq Transactional,
           IInv, AllTold, [Next]_vars
    PROVE  AllTold'
<1>1. CASE UNCHANGED vars
  BY <1>1, OthersTell DEF vars
<1>2. CASE \E t \in Tickets, agent \in Agents \cup {NoAgent} : Open(t, agent)
  BY <1>2, OpenTells
<1>3. ASSUME NEW w \in Workers, TxCommit(w) PROVE AllTold'
  BY <1>3, CommitTells
<1>4. ASSUME NEW w \in Workers, Start(w) PROVE AllTold'
  <2>1. UNCHANGED <<tickets, history>>
    BY <1>4 DEF Start, StartStatusUpdate, StartAssign, StartEscalation, StartAutoAssign,
                StartRoute, StartRuleAssign, StartRuleClose, Begin
  <2>2. QED
    BY <2>1, OthersTell
<1>5. ASSUME NEW w \in Workers,
             TxWrite(w) \/ DeadlockVictim(w) \/ Crash(w) \/ StatementFails(w)
      PROVE  AllTold'
  BY <1>5, OthersTell DEF TxWrite, DeadlockVictim, Crash, StatementFails
<1>6. ASSUME NEW w \in Workers, UpdateRow(w) \/ RecordChange(w) PROVE FALSE
  <2>1. work[w].pc \in {"update", "record"} /\ Consistent(work[w])
    BY <1>6, IInvWorker DEF UpdateRow, RecordChange
  <2>2. QED
    BY <2>1 DEF Consistent
<1>7. QED
  BY <1>1, <1>2, <1>3, <1>4, <1>5, <1>6 DEF Next

\* For requests, whose writes are transactions, the history is exact: its last
\* entries tell a ticket's status and assignee, however many requests race, and
\* whichever of them wrote from a row that was out of date, wait or die.
THEOREM HistoryCorrect ==
    ASSUME Operations \subseteq Transactional
    PROVE  Spec => []HistoryTellsTicket
<1>1. Init => AllTold
  BY DEF Init, AllTold, Tells, StatusTold, LastTells, Absent
<1>2. IInv /\ AllTold /\ [Next]_vars => AllTold'
  BY OperationsAssumption, StepTells
<1>3. AllTold => HistoryTellsTicket
  BY DEF AllTold, Tells, StatusTold, Existing, HistoryTellsTicket, StatusEvents, AssignmentEvents
<1>4. QED
  BY <1>1, <1>2, <1>3, Invariance, PTL DEF Spec

\* Events that were enqueued stay enqueued.
Announced(events) == \E i \in 1..Len(events) : events[i].name = "ticket.closed"

LEMMA AnnouncedStays ==
    ASSUME NEW s \in Seq(Event), NEW u \in Seq(Event), Announced(s) \/ Announced(u)
    PROVE  Announced(s \o u)
<1>1. /\ s \o u \in Seq(Event) /\ Len(s \o u) = Len(s) + Len(u)
      /\ \A i \in 1..Len(s) : (s \o u)[i] = s[i]
      /\ \A i \in 1..Len(u) : (s \o u)[Len(s) + i] = u[i]
  BY ConcatProperties
<1>2. Len(s) \in Nat /\ Len(u) \in Nat
  OBVIOUS
<1>3. CASE Announced(s)
  <2>1. PICK i \in 1..Len(s) : s[i].name = "ticket.closed"
    BY <1>3 DEF Announced
  <2>2. i \in 1..Len(s \o u) /\ (s \o u)[i] = s[i]
    BY <1>1, <1>2
  <2>3. QED
    BY <2>1, <2>2 DEF Announced
<1>4. CASE Announced(u)
  <2>1. PICK i \in 1..Len(u) : u[i].name = "ticket.closed"
    BY <1>4 DEF Announced
  <2>2. Len(s) + i \in 1..Len(s \o u) /\ (s \o u)[Len(s) + i] = u[i]
    BY <1>1, <1>2
  <2>3. QED
    BY <2>1, <2>2 DEF Announced
<1>5. QED
  BY <1>3, <1>4

\* updateStatus announces that it closes a ticket.
LEMMA ClosingAnnounces ==
    ASSUME NEW seen \in Ticket, seen.status # "ABSENT"
    PROVE  Announced(EventsOf("status", seen, "CLOSED"))
<1> DEFINE event(name) == [name |-> name, new |-> "CLOSED", old |-> seen.status]
           first == event("ticket.status_changed")
           last == event("ticket.closed")
<1>1. EventsOf("status", seen, "CLOSED") = <<first>> \o <<>> \o <<last>>
  BY DEF EventsOf
<1>2. first \in Event /\ last \in Event /\ last.name = "ticket.closed"
  BY DEF Event, Value, Ticket, Status
<1> HIDE DEF first, last
<1>3. <<first>> \o <<>> = <<first>>
  OBVIOUS
<1>4. Announced(<<last>>)
  BY <1>2 DEF Announced
<1>5. Announced(<<first>> \o <<last>>)
  <2>1. <<first>> \in Seq(Event) /\ <<last>> \in Seq(Event)
    BY <1>2
  <2>2. QED
    BY <1>4, <2>1, AnnouncedStays
<1>6. QED
  BY <1>1, <1>3, <1>5

LEMMA ClosedRestated ==
    /\ ClosedIsAnnounced
          <=> \A t \in Tickets : tickets[t].status = "CLOSED" => Announced(outbox[t])
    /\ ClosedIsAnnounced'
          <=> \A t \in Tickets : tickets'[t].status = "CLOSED" => Announced(outbox'[t])
<1>1. ClosedIsAnnounced
         <=> \A t \in Tickets : tickets[t].status = "CLOSED" => Announced(outbox[t])
  BY DEF ClosedIsAnnounced, Announced
<1>2. ClosedIsAnnounced'
         <=> \A t \in Tickets : tickets'[t].status = "CLOSED" => Announced(outbox'[t])
  BY DEF ClosedIsAnnounced, Announced
<1>3. QED
  BY <1>1, <1>2

LEMMA CommitAnnounces ==
    ASSUME OperationsAssumption, IInv, ClosedIsAnnounced, NEW w \in Workers, TxCommit(w)
    PROVE  ClosedIsAnnounced'
<1> DEFINE r == work[w]
<1>1. /\ r.pc = "commit"
      /\ tickets' = [t \in Tickets |-> IF t \in r.wrote THEN Changed(tickets[t], r.op, r.goal)
                                       ELSE tickets[t]]
      /\ outbox' = [t \in Tickets |->
                       IF t \in r.wrote
                       THEN outbox[t] \o EventsOf(r.op, r.seen[t], r.goal)
                       ELSE outbox[t]]
  BY DEF TxCommit
<1>2. /\ r \in Worker /\ Consistent(r) /\ Validated(r)
      /\ tickets \in [Tickets -> Ticket] /\ outbox \in [Tickets -> Seq(Event)]
  BY IInvWorker DEF IInv, TypeOK
<1>3. r.op \in Transactional /\ GoalFits(r.op, r.goal)
  BY <1>1, <1>2 DEF Consistent
<1> HIDE DEF r
<1>4. ASSUME NEW t \in Tickets, tickets'[t].status = "CLOSED" PROVE Announced(outbox'[t])
  <2>0. tickets[t] \in Ticket /\ outbox[t] \in Seq(Event)
    BY <1>2
  <2>1. CASE t \in r.wrote
    <3>1. r.seen[t] \in Ticket /\ r.seen[t].status # "ABSENT"
      BY <1>2, <2>1 DEF Worker, Validated
    <3>2. EventsOf(r.op, r.seen[t], r.goal) \in Seq(Event)
      BY <1>3, <3>1, EventsType
    <3>3. tickets'[t].status = IF r.op \in StatusOperations THEN r.goal ELSE tickets[t].status
      <4>1. tickets'[t] = Changed(tickets[t], r.op, r.goal)
        BY <1>1, <2>1
      <4>2. QED
        BY <1>3, <2>0, <4>1, ChangedType
    <3>4. Announced(outbox[t]) \/ Announced(EventsOf(r.op, r.seen[t], r.goal))
      <4>1. CASE r.op = "status"
        BY <1>4, <3>1, <3>3, <4>1, ClosingAnnounces
      <4>2. CASE r.op = "assign"
        BY <1>4, <3>3, <4>2, ClosedRestated
      <4>3. QED
        BY <1>3, <4>1, <4>2 DEF Transactional
    <3>5. Announced(outbox[t] \o EventsOf(r.op, r.seen[t], r.goal))
      BY <2>0, <3>2, <3>4, AnnouncedStays
    <3>6. QED
      BY <1>1, <2>1, <3>5
  <2>2. CASE t \notin r.wrote
    <3>1. outbox'[t] = outbox[t] /\ tickets'[t] = tickets[t]
      BY <1>1, <2>2
    <3>2. QED
      BY <1>4, <3>1, ClosedRestated
  <2>3. QED
    BY <2>1, <2>2
<1>5. QED
  BY <1>4, ClosedRestated

\* Of the operations without a transaction only the rule's closes a ticket.
LEMMA UpdateAnnounces ==
    ASSUME OperationsAssumption, "rule-close" \notin Operations, IInv, ClosedIsAnnounced,
           NEW w \in Workers, UpdateRow(w)
    PROVE  ClosedIsAnnounced'
<1> DEFINE op == work[w].op
           at == work[w].at
<1>1. PICK goal \in Goals(w) :
         /\ tickets' = [tickets EXCEPT ![at] = Changed(@, op, goal)]
         /\ UNCHANGED outbox
  BY DEF UpdateRow
<1>2. work[w].pc = "update"
  BY DEF UpdateRow
<1>3. /\ Consistent(work[w]) /\ op \in AllOperations \ Transactional /\ op # "rule-close"
      /\ tickets \in [Tickets -> Ticket] /\ outbox \in [Tickets -> Seq(Event)]
  BY <1>2, IInvWorker DEF Consistent, IInv, TypeOK
<1>4. op = "escalate" => goal = "ESCALATED"
  BY <1>2, <1>3 DEF Goals, Consistent
<1>5. ASSUME NEW t \in Tickets, tickets'[t].status = "CLOSED"
      PROVE  tickets[t].status = "CLOSED"
  <2>1. CASE t # at
    BY <1>1, <1>3, <1>5, <2>1
  <2>2. CASE t = at
    <3>1. tickets'[t] = Changed(tickets[t], op, goal) /\ tickets[t] \in Ticket
      BY <1>1, <1>3, <2>2
    <3>2. CASE op = "escalate"
      BY <1>4, <1>5, <3>1, <3>2 DEF Changed, Ticket
    <3>3. CASE op # "escalate"
      <4>1. op \notin StatusOperations
        BY <1>3, <3>3 DEF Transactional
      <4>2. QED
        BY <1>5, <3>1, <4>1 DEF Changed, Ticket
    <3>4. QED
      BY <3>2, <3>3
  <2>3. QED
    BY <2>1, <2>2
<1>6. QED
  BY <1>1, <1>5, ClosedRestated

LEMMA StepAnnounces ==
    ASSUME OperationsAssumption, "rule-close" \notin Operations,
           IInv, ClosedIsAnnounced, [Next]_vars
    PROVE  ClosedIsAnnounced'
<1>1. CASE UNCHANGED <<tickets, outbox>>
  BY <1>1 DEF ClosedIsAnnounced
<1>2. CASE UNCHANGED vars
  BY <1>1, <1>2 DEF vars
<1>3. CASE \E t \in Tickets, agent \in Agents \cup {NoAgent} : Open(t, agent)
  <2>1. PICK t \in Tickets, agent \in Agents \cup {NoAgent} : Open(t, agent)
    BY <1>3
  <2>2. ASSUME NEW s \in Tickets, tickets'[s].status = "CLOSED"
        PROVE  tickets[s].status = "CLOSED" /\ outbox'[s] = outbox[s]
    BY <2>1, <2>2 DEF Open, IInv, TypeOK
  <2>3. QED
    BY <2>2, ClosedRestated
<1>4. ASSUME NEW w \in Workers, TxCommit(w) PROVE ClosedIsAnnounced'
  BY <1>4, CommitAnnounces
<1>5. ASSUME NEW w \in Workers, UpdateRow(w) PROVE ClosedIsAnnounced'
  BY <1>5, UpdateAnnounces
<1>6. ASSUME NEW w \in Workers, Start(w) PROVE ClosedIsAnnounced'
  <2>1. UNCHANGED <<tickets, outbox>>
    BY <1>6 DEF Start, StartStatusUpdate, StartAssign, StartEscalation, StartAutoAssign,
                StartRoute, StartRuleAssign, StartRuleClose, Begin
  <2>2. QED
    BY <1>1, <2>1
<1>7. ASSUME NEW w \in Workers,
             \/ TxWrite(w) \/ DeadlockVictim(w) \/ RecordChange(w)
             \/ Crash(w) \/ StatementFails(w)
      PROVE  ClosedIsAnnounced'
  BY <1>1, <1>7 DEF TxWrite, DeadlockVictim, RecordChange, Crash, StatementFails
<1>8. QED
  BY <1>2, <1>3, <1>4, <1>5, <1>6, <1>7 DEF Next

\* Every CLOSED ticket was announced by a ticket.closed event, unless a rule closes
\* tickets: escalations, assignments and routing that race with it change nothing.
THEOREM AnnouncedCorrect ==
    ASSUME "rule-close" \notin Operations
    PROVE  Spec => []ClosedIsAnnounced
<1>1. Init => ClosedIsAnnounced
  BY DEF Init, ClosedIsAnnounced, Absent
<1>2. IInv /\ ClosedIsAnnounced /\ [Next]_vars => ClosedIsAnnounced'
  BY OperationsAssumption, StepAnnounces
<1>3. QED
  BY <1>1, <1>2, Invariance, PTL DEF Spec
=============================================================================
