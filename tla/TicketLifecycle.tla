--------------------------- MODULE TicketLifecycle ---------------------------
(***************************************************************************)
(* Everything that changes the status or the assignee of a ticket, run by  *)
(* concurrent workers (API requests, the escalation cron and automation    *)
(* jobs) against one PostgreSQL database.                                  *)
(*                                                                         *)
(* Status updates and assignments, single or bulk, read and validate the   *)
(* tickets first and then write them in one READ COMMITTED transaction:    *)
(* an UPDATE takes the row's lock and keeps it until commit or rollback.   *)
(* Escalation, auto-assignment, routing and the automation actions use no  *)
(* transaction: the UPDATE and the insert of the history entry are two     *)
(* autocommitted statements.  A step is one statement, or one read with    *)
(* the validation that follows it.                                         *)
(***************************************************************************)
EXTENDS TicketRules, Integers, Sequences

CONSTANTS
    Tickets,     \* ticket ids of one tenant
    Agents,      \* the assignable users
    Workers,     \* concurrent executors
    Operations,  \* the operations that an instance runs
    MaxStarts,   \* bound: operations started
    FaultKinds,  \* which faults may happen
    MaxFaults,   \* bound: how many faults may happen
    NoAgent,     \* null in assignedToId
    NoTicket     \* an idle worker's ticket

\* update-status and bulk-update-status, assign and bulk-assign.
Transactional == {"status", "assign"}

StatusOperations == {"status", "escalate", "rule-close"}

AllOperations ==
    Transactional \cup
    {"escalate", "auto-assign", "route", "rule-assign", "rule-close"}

ASSUME OperationsAssumption ==
    /\ Operations \subseteq AllOperations
    /\ FaultKinds \subseteq {"crash", "statement"}
    /\ MaxStarts \in Nat
    /\ MaxFaults \in Nat
    /\ NoAgent \notin Agents
    /\ NoTicket \notin Tickets
    /\ Agents \cap Status = {}

VARIABLES
    tickets,  \* the tickets table
    history,  \* ticket_histories of every ticket, in the order they became visible
    outbox,   \* the domain events enqueued for every ticket
    work,     \* the local state of every worker
    started,  \* operations started so far
    faults    \* faults so far

vars == <<tickets, history, outbox, work, started, faults>>

-----------------------------------------------------------------------------
(* Types *)

Ticket == [status : Status \cup {"ABSENT"}, assignee : Agents \cup {NoAgent},
           closedAt : BOOLEAN]

Absent == [status |-> "ABSENT", assignee |-> NoAgent, closedAt |-> FALSE]

Value == Status \cup Agents \cup {NoAgent, "none"}

Entry == [event : {"CREATED", "STATUS_CHANGED", "TICKET_ESCALATED", "ASSIGNED",
                   "REASSIGNED"},
          old : Value, new : Value]

Event == [name : {"ticket.created", "ticket.status_changed", "ticket.resolved",
                  "ticket.closed", "ticket.assigned"},
          old : Value, new : Value]

Worker == [pc : {"idle", "write", "commit", "update", "record"},
           op : AllOperations \cup {"none"},
           todo : SUBSET Tickets,             \* not written yet
           at : Tickets \cup {NoTicket},      \* written next
           wrote : SUBSET Tickets,            \* written in the open transaction
           seen : [Tickets -> Ticket],        \* the rows as they were read
           goal : Value]                      \* the status or assignee to write

Idle == [pc |-> "idle", op |-> "none", todo |-> {}, at |-> NoTicket, wrote |-> {},
         seen |-> [t \in Tickets |-> Absent], goal |-> "none"]

TypeOK ==
    /\ tickets \in [Tickets -> Ticket]
    /\ history \in [Tickets -> Seq(Entry)]
    /\ outbox \in [Tickets -> Seq(Event)]
    /\ work \in [Workers -> Worker]
    /\ started \in 0..MaxStarts
    /\ faults \in 0..MaxFaults

Init ==
    /\ tickets = [t \in Tickets |-> Absent]
    /\ history = [t \in Tickets |-> <<>>]
    /\ outbox = [t \in Tickets |-> <<>>]
    /\ work = [w \in Workers |-> Idle]
    /\ started = 0
    /\ faults = 0

-----------------------------------------------------------------------------
(* The repositories *)

Existing == {t \in Tickets : tickets[t].status # "ABSENT"}

\* updateStatus writes closedAt as well; assignTo writes the assignee.
Changed(ticket, op, goal) ==
    IF op \in StatusOperations
    THEN [ticket EXCEPT !.status = goal, !.closedAt = (goal = "CLOSED")]
    ELSE [ticket EXCEPT !.assignee = goal]

\* The history entry of the change, as seen by the worker that makes it.
EntryOf(op, seen, goal) ==
    [event |-> CASE op = "escalate" -> "TICKET_ESCALATED"
                 [] op \in StatusOperations \ {"escalate"} -> "STATUS_CHANGED"
                 [] OTHER -> IF seen.assignee = NoAgent THEN "ASSIGNED" ELSE "REASSIGNED",
     old   |-> IF op \in StatusOperations THEN seen.status ELSE seen.assignee,
     new   |-> goal]

\* Faulty variant: a ticket that is closed is not announced as closed.
EventsOfWithoutClosed(op, seen, goal) ==
    LET event(name) == [name |-> name, new |-> goal,
                        old |-> IF op = "status" THEN seen.status ELSE seen.assignee]
    IN  IF op = "assign"
        THEN <<event("ticket.assigned")>>
        ELSE <<event("ticket.status_changed")>>
             \o (IF goal = "RESOLVED" THEN <<event("ticket.resolved")>> ELSE <<>>)

\* The domain events of the change: only the transactional use cases have any.
EventsOf(op, seen, goal) ==
    LET event(name) == [name |-> name, new |-> goal,
                        old |-> IF op = "status" THEN seen.status ELSE seen.assignee]
    IN  IF op = "assign"
        THEN <<event("ticket.assigned")>>
        ELSE <<event("ticket.status_changed")>>
             \o (IF goal = "RESOLVED" THEN <<event("ticket.resolved")>> ELSE <<>>)
             \o (IF goal = "CLOSED" THEN <<event("ticket.closed")>> ELSE <<>>)

-----------------------------------------------------------------------------
(* PostgreSQL: row locks and deadlock detection *)

\* No other open transaction has written the row.
Free(w, t) == \A v \in Workers \ {w} : t \notin work[v].wrote

WaitsFor(w, v) == w # v /\ work[w].pc = "write" /\ work[w].at \in work[v].wrote

\* A transaction waits for one row at a time, so a set of workers is a union of
\* waiting cycles when each waits for, and is waited for by, one of the set.
InCycle(w) ==
    \E C \in SUBSET Workers :
        /\ w \in C
        /\ \A v \in C : (\E u \in C : WaitsFor(v, u)) /\ (\E u \in C : WaitsFor(u, v))

-----------------------------------------------------------------------------
(* Starting an operation: read and validate *)

\* Faulty variant: a bulk operation keeps the first ticket's row only.
BeginWithOneRow(w, op, pc, S, goal) ==
    /\ op \in Operations
    /\ work[w].pc = "idle"
    /\ started < MaxStarts
    /\ started' = started + 1
    /\ \E t \in S :
          work' = [work EXCEPT ![w] =
                      [pc |-> pc, op |-> op, todo |-> S, at |-> t, wrote |-> {},
                       seen |-> [s \in Tickets |-> IF s = t THEN tickets[s] ELSE Absent],
                       goal |-> goal]]
    /\ UNCHANGED <<tickets, history, outbox, faults>>

Begin(w, op, pc, S, goal) ==
    /\ op \in Operations
    /\ work[w].pc = "idle"
    /\ started < MaxStarts
    /\ started' = started + 1
    /\ \E t \in S :
          work' = [work EXCEPT ![w] =
                      [pc |-> pc, op |-> op, todo |-> S, at |-> t, wrote |-> {},
                       seen |-> [s \in Tickets |-> IF s \in S THEN tickets[s] ELSE Absent],
                       goal |-> goal]]
    /\ UNCHANGED <<tickets, history, outbox, faults>>

\* Faulty variant: IN_PROGRESS does not ask for an assignee.
MayMoveUnassigned(ticket, to) == CanTransition(ticket.status, to)

\* Faulty variant: the transition is not validated.
MayMoveAnywhere(ticket, to) == to = "IN_PROGRESS" => ticket.assignee # NoAgent

\* assertValidTicketStatusTransition and assertAssigneeRequiredForInProgress
MayMove(ticket, to) ==
    /\ CanTransition(ticket.status, to)
    /\ to = "IN_PROGRESS" => ticket.assignee # NoAgent

StartStatusUpdate(w) ==
    \E S \in SUBSET Existing, to \in Status :
        /\ \A t \in S : MayMove(tickets[t], to)
        /\ Begin(w, "status", "write", S, to)

StartAssign(w) ==
    \E S \in SUBSET Existing, agent \in Agents :
        /\ \A t \in S : Assignable(tickets[t].status)
        /\ Begin(w, "assign", "write", S, agent)

\* Which of the OPEN and IN_PROGRESS tickets are overdue is left open.
StartEscalation(w) ==
    \E S \in SUBSET {t \in Tickets : tickets[t].status \in {"OPEN", "IN_PROGRESS"}} :
        Begin(w, "escalate", "update", S, "ESCALATED")

\* The agent with the least workload is chosen per ticket, at its update.
StartAutoAssign(w) ==
    Begin(w, "auto-assign", "update",
          {t \in Tickets : tickets[t].status = "OPEN" /\ tickets[t].assignee = NoAgent},
          "none")

StartRoute(w) ==
    \E t \in Tickets :
        /\ Assignable(tickets[t].status)
        /\ Begin(w, "route", "update", {t}, "none")

\* The automation action ASSIGN_AGENT (or ASSIGN_TEAM, with the team's least
\* loaded agent): nothing to do when the ticket has that agent already.
StartRuleAssign(w) ==
    \E t \in Existing, agent \in Agents :
        /\ tickets[t].assignee # agent
        /\ Begin(w, "rule-assign", "update", {t}, agent)

\* The automation action CLOSE_TICKET: RESOLVED first unless it is already.
StartRuleClose(w) ==
    \E t \in Existing :
        /\ CanTransition(tickets[t].status, "RESOLVED") \/ tickets[t].status = "RESOLVED"
        /\ Begin(w, "rule-close", "update", {t}, "none")

-----------------------------------------------------------------------------
(* The transaction of a status update or an assignment *)

Finish(w) == work' = [work EXCEPT ![w] = Idle]

\* Faulty variant: the history entry is not written with the transaction.
TxWriteHistoryAtOnce(w) ==
    LET t == work[w].at
        rest == work[w].todo \ {t}
    IN  /\ work[w].pc = "write"
        /\ Free(w, t)
        /\ \E n \in IF rest = {} THEN {t} ELSE rest :
              work' = [work EXCEPT ![w].pc = IF rest = {} THEN "commit" ELSE "write",
                                   ![w].todo = rest,
                                   ![w].wrote = @ \cup {t},
                                   ![w].at = n]
        /\ history' = [history EXCEPT ![t] =
              Append(@, EntryOf(work[w].op, work[w].seen[t], work[w].goal))]
        /\ UNCHANGED <<tickets, outbox, started, faults>>

\* Faulty variant: the loop does not advance.
TxWriteAgain(w) ==
    /\ work[w].pc = "write"
    /\ Free(w, work[w].at)
    /\ \E n \in work[w].todo :
          work' = [work EXCEPT ![w].wrote = @ \cup {work[w].at}, ![w].at = n]
    /\ UNCHANGED <<tickets, history, outbox, started, faults>>

\* The loop's UPDATE of one ticket; findMany gives the tickets in no order.
TxWrite(w) ==
    LET t == work[w].at
        rest == work[w].todo \ {t}
    IN  /\ work[w].pc = "write"
        /\ Free(w, t)
        /\ \E n \in IF rest = {} THEN {t} ELSE rest :
              work' = [work EXCEPT ![w].pc = IF rest = {} THEN "commit" ELSE "write",
                                   ![w].todo = rest,
                                   ![w].wrote = @ \cup {t},
                                   ![w].at = n]
        /\ UNCHANGED <<tickets, history, outbox, started, faults>>

\* The updates, the history entries and the outbox rows become visible at once.
TxCommit(w) ==
    LET r == work[w] IN
    /\ r.pc = "commit"
    /\ tickets' = [t \in Tickets |->
                      IF t \in r.wrote THEN Changed(tickets[t], r.op, r.goal)
                      ELSE tickets[t]]
    /\ history' = [t \in Tickets |->
                      IF t \in r.wrote
                      THEN Append(history[t], EntryOf(r.op, r.seen[t], r.goal))
                      ELSE history[t]]
    /\ outbox' = [t \in Tickets |->
                     IF t \in r.wrote
                     THEN outbox[t] \o EventsOf(r.op, r.seen[t], r.goal)
                     ELSE outbox[t]]
    /\ Finish(w)
    /\ UNCHANGED <<started, faults>>

\* PostgreSQL aborts a transaction of a waiting cycle; the request fails.
DeadlockVictim(w) ==
    /\ InCycle(w)
    /\ Finish(w)
    /\ UNCHANGED <<tickets, history, outbox, started, faults>>

-----------------------------------------------------------------------------
(* The operations without a transaction *)

Goals(w) ==
    LET r == work[w] IN
    CASE r.op \in {"escalate", "rule-assign"} -> {r.goal}
      [] r.op = "rule-close" ->
            IF r.seen[r.at].status = "RESOLVED" THEN {"CLOSED"} ELSE {"RESOLVED"}
      [] OTHER -> Agents

UpdateRow(w) ==
    LET t == work[w].at IN
    /\ work[w].pc = "update"
    /\ Free(w, t)
    /\ \E goal \in Goals(w) :
          /\ tickets' = [tickets EXCEPT ![t] = Changed(@, work[w].op, goal)]
          /\ work' = [work EXCEPT ![w].pc = "record", ![w].goal = goal]
    /\ UNCHANGED <<history, outbox, started, faults>>

\* The next ticket of the loop, if any.
MoveOn(w) ==
    LET rest == work[w].todo \ {work[w].at} IN
    IF rest = {}
    THEN Finish(w)
    ELSE \E n \in rest :
            work' = [work EXCEPT ![w].pc = "update", ![w].todo = rest, ![w].at = n]

RecordChange(w) ==
    LET r == work[w] IN
    /\ r.pc = "record"
    /\ history' = [history EXCEPT ![r.at] =
                      Append(@, EntryOf(r.op, r.seen[r.at], r.goal))]
    /\ IF r.op = "rule-close" /\ r.goal = "RESOLVED"
       THEN work' = [work EXCEPT ![w].pc = "update",
                                 ![w].seen[r.at].status = "RESOLVED"]
       ELSE MoveOn(w)
    /\ UNCHANGED <<tickets, outbox, started, faults>>

-----------------------------------------------------------------------------
(* Opening a ticket: one transaction on a row nobody else knows *)

Open(t, agent) ==
    /\ tickets[t] = Absent
    /\ tickets' = [tickets EXCEPT ![t] = [status |-> "OPEN", assignee |-> agent,
                                          closedAt |-> FALSE]]
    /\ history' = [history EXCEPT ![t] =
          <<[event |-> "CREATED", old |-> "none", new |-> "none"]>>
          \o IF agent = NoAgent THEN <<>>
             ELSE <<[event |-> "ASSIGNED", old |-> NoAgent, new |-> agent]>>]
    /\ outbox' = [outbox EXCEPT ![t] =
          <<[name |-> "ticket.created", old |-> "none", new |-> "none"]>>]
    /\ UNCHANGED <<work, started, faults>>

-----------------------------------------------------------------------------
(* Faults *)

Fault(kind) ==
    /\ kind \in FaultKinds
    /\ faults < MaxFaults
    /\ faults' = faults + 1

\* The process dies, or the transaction times out or loses its connection: an
\* open transaction is rolled back, what is autocommitted stays.
Crash(w) ==
    /\ work[w].pc # "idle"
    /\ Fault("crash")
    /\ Finish(w)
    /\ UNCHANGED <<tickets, history, outbox, started>>

\* An autocommitted statement throws.  The loops of escalation and
\* auto-assignment catch it and go on; the other operations end.
StatementFails(w) ==
    /\ work[w].pc \in {"update", "record"}
    /\ Fault("statement")
    /\ IF work[w].op \in {"escalate", "auto-assign"} THEN MoveOn(w) ELSE Finish(w)
    /\ UNCHANGED <<tickets, history, outbox, started>>

-----------------------------------------------------------------------------
(* The specification *)

Start(w) ==
    \/ StartStatusUpdate(w) \/ StartAssign(w) \/ StartEscalation(w)
    \/ StartAutoAssign(w) \/ StartRoute(w) \/ StartRuleAssign(w) \/ StartRuleClose(w)

Next ==
    \/ \E t \in Tickets, agent \in Agents \cup {NoAgent} : Open(t, agent)
    \/ \E w \in Workers :
          \/ Start(w)
          \/ TxWrite(w) \/ TxCommit(w) \/ DeadlockVictim(w)
          \/ UpdateRow(w) \/ RecordChange(w)
          \/ Crash(w) \/ StatementFails(w)

Spec == Init /\ [][Next]_vars

(***************************************************************************)
(* Fairness.  A worker that can go on goes on; PostgreSQL serves the       *)
(* waiters of a row lock in order, so a statement that can take the lock   *)
(* again and again takes it (SF); and it resolves every deadlock.          *)
(***************************************************************************)
Fairness ==
    /\ \A w \in Workers : /\ SF_vars(TxWrite(w)) /\ WF_vars(TxCommit(w))
                          /\ SF_vars(UpdateRow(w)) /\ WF_vars(RecordChange(w))
    /\ WF_vars(\E w \in Workers : DeadlockVictim(w))

FairSpec == Spec /\ Fairness

(***************************************************************************)
(* The executions in which no two operations overlap on a ticket: nothing  *)
(* in the code makes them so, and the properties below say what holds of   *)
(* them only.                                                              *)
(***************************************************************************)
Involved(w) == work[w].todo \cup work[w].wrote

Isolated == \A v, w \in Workers : v # w => Involved(v) \cap Involved(w) = {}

IsolatedSpec == Init /\ [][Next /\ Isolated']_vars

-----------------------------------------------------------------------------
(* Correctness *)

\* A ticket IN_PROGRESS has an assignee, however stale the row was that
\* assertAssigneeRequiredForInProgress looked at: no operation takes the
\* assignee away.
InProgressHasAssignee ==
    \A t \in Tickets : tickets[t].status = "IN_PROGRESS" => tickets[t].assignee # NoAgent

\* What the last of the entries with one of these events tells is the value, and
\* the default when there is none.
LastTells(entries, events, default, value) ==
    LET places == {i \in 1..Len(entries) : entries[i].event \in events} IN
    IF places = {} THEN value = default
    ELSE \E i \in places : (\A j \in places : j <= i) /\ entries[i].new = value

\* The history is the audit trail of the ticket: its last entries tell the
\* ticket's status and assignee, unless a worker is about to insert one.
HistoryTellsTicket ==
    \A t \in Existing :
        (\A w \in Workers : ~(work[w].pc = "record" /\ work[w].at = t)) =>
            /\ LastTells(history[t], {"STATUS_CHANGED", "TICKET_ESCALATED"}, "OPEN",
                         tickets[t].status)
            /\ LastTells(history[t], {"ASSIGNED", "REASSIGNED"}, NoAgent,
                         tickets[t].assignee)

\* A ticket that is CLOSED was announced by a ticket.closed event, which
\* notifications, webhooks and automation rules listen to.
ClosedIsAnnounced ==
    \A t \in Tickets :
        tickets[t].status = "CLOSED" =>
            \E i \in 1..Len(outbox[t]) : outbox[t][i].name = "ticket.closed"

\* w is the worker that writes ticket t in this step.
Writes(w, t) ==
    /\ work'[w] # work[w]
    /\ \/ work[w].pc = "commit" /\ t \in work[w].wrote
       \/ work[w].pc = "update" /\ work[w].at = t

\* A status changes along an allowed transition unless the worker that changes
\* it read the ticket before somebody else's change: the races are the only
\* way out of the state machine.
IllegalOnlyWhenStale ==
    [][\A t \in Existing :
          tickets'[t].status # tickets[t].status =>
              \/ CanTransition(tickets[t].status, tickets'[t].status)
              \/ \E w \in Workers :
                    Writes(w, t) /\ work[w].seen[t].status # tickets[t].status]_vars

\* Every operation ends, although transactions wait for each other's row locks.
OperationsEnd ==
    \A w \in Workers : work[w].pc # "idle" ~> work[w].pc = "idle"

(***************************************************************************)
(* The table implements the state machine of the domain rules.             *)
(***************************************************************************)
Machine == INSTANCE TicketMachine WITH
               status   <- [t \in Tickets |-> tickets[t].status],
               assignee <- [t \in Tickets |-> tickets[t].assignee]

\* While no two operations overlap on a ticket, every step is an allowed move
\* or assignment of the state machine or changes no status and no assignee.
ImplementsMachine == Machine!Spec

-----------------------------------------------------------------------------
(* The inductive invariant of the proofs *)

GoalFits(op, goal) == goal \in IF op \in StatusOperations THEN Status ELSE Agents

\* A worker's program counter, operation, ticket and goal fit together.
Consistent(r) ==
    /\ IF r.pc = "idle" THEN r.todo = {} /\ r.wrote = {} ELSE r.op \in Operations
    /\ r.pc \in {"write", "commit"} => r.op \in Transactional
    /\ r.pc \in {"update", "record"} =>
          r.op \in AllOperations \ Transactional /\ r.wrote = {}
    /\ r.pc \in {"write", "update", "record"} => r.at \in r.todo
    /\ r.pc \in {"write", "commit", "record"} => GoalFits(r.op, r.goal)
    /\ r.pc # "idle" /\ r.op = "escalate" => r.goal = "ESCALATED"
    /\ r.pc # "idle" /\ r.op = "rule-assign" => r.goal \in Agents

\* What a worker validated of the tickets that it is about to write, or has
\* written, holds of the rows as it read them.
Validated(r) ==
    \A t \in r.todo \cup r.wrote :
        /\ r.seen[t].status # "ABSENT"
        /\ r.op = "status" => MayMove(r.seen[t], r.goal)
        /\ r.op = "escalate" => CanTransition(r.seen[t].status, "ESCALATED")
        /\ r.op = "rule-close" => \/ r.seen[t].status = "RESOLVED"
                                  \/ CanTransition(r.seen[t].status, "RESOLVED")
        /\ r.op \in {"assign", "auto-assign", "route"} => Assignable(r.seen[t].status)

\* A ticket that was assigned when a worker read it is assigned still.
StaysAssigned(r) ==
    \A t \in Tickets : r.seen[t].assignee # NoAgent => tickets[t].assignee # NoAgent

\* Together with the types and the goal, an invariant that every step keeps.
IInv ==
    /\ TypeOK
    /\ \A w \in Workers : Consistent(work[w])
    /\ \A w \in Workers : Validated(work[w])
    /\ \A w \in Workers : StaysAssigned(work[w])
    /\ InProgressHasAssignee

-----------------------------------------------------------------------------
(* What the documentation and the tests say, refuted in runs of their own  *)

\* ticket-status-transitions allows nothing after CLOSED, and the escalation's
\* tests expect a CLOSED ticket to stay CLOSED.
ClosedIsFinal ==
    [][\A t \in Tickets : tickets[t].status = "CLOSED" => tickets'[t].status = "CLOSED"]_vars
=============================================================================
