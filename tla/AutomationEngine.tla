--------------------------- MODULE AutomationEngine ---------------------------
(***************************************************************************)
(* The automation engine: one job per event of a ticket.  It reads the     *)
(* ticket and the active rules once, and then evaluates rule after rule    *)
(* against the ticket it read at the start, executes the actions of those  *)
(* that match, and writes one execution record per rule.  Each statement   *)
(* commits by itself; a retry of the job begins with the first rule again. *)
(***************************************************************************)
EXTENDS JobQueue, TicketRules, Sequences, FiniteSets

CONSTANTS
    RuleContents,    \* the rules an administrator may write: conditions and actions
    RuleCount,       \* bound: rules of the tenant, numbered as they were created
    Assignees,       \* users of an assignable role
    NoAssignee,      \* null in assignedToId
    TeamOf,          \* the users of each team role, assignable or not
    MaxAutoChanges,  \* bound: changes that users make to rules and to the ticket
    AutoFaultKinds,  \* which faults may happen
    MaxAutoFaults    \* bound: faults of the listener, and faults of the other kinds

Priorities == {"LOW", "HIGH"}

Rules == 1..RuleCount

ActionTypes == {"ASSIGN_AGENT", "ASSIGN_TEAM", "CHANGE_PRIORITY", "SEND_NOTIFICATION", "CLOSE_TICKET"}

RuleActions == UNION {{content.actions[i] : i \in DOMAIN content.actions} : content \in RuleContents}

ASSUME AutomationAssumption ==
    /\ RuleCount \in Nat
    /\ NoAssignee \notin Assignees
    /\ RuleContents # {}
    /\ \A content \in RuleContents : content.actions \in Seq(RuleActions)
    /\ \A action \in RuleActions :
          /\ action.type \in ActionTypes
          /\ action.type = "CHANGE_PRIORITY" => action.priority \in Priorities
    /\ MaxAutoChanges \in Nat
    /\ AutoFaultKinds \subseteq {"statement", "listener", "crash"}
    /\ MaxAutoFaults \in Nat

VARIABLES
    autoRule,     \* the automation_rules table
    autoTicket,   \* the ticket's row
    autoJob,      \* the job of the ticket's event
    autoRun,      \* where its processor stands
    autoRecords,  \* automation_rule_executions: how many of each rule and status
    autoBegun,    \* how often the actions of a rule were begun
    autoNotified, \* notifications created for each rule
    autoWrites,   \* changes of the row, by the automation
    autoEntries,  \* history entries, by the automation
    autoChanges,  \* changes by users so far
    autoFaults    \* faults so far

autoVars == <<autoRule, autoTicket, autoJob, autoRun, autoRecords, autoBegun, autoNotified,
              autoWrites, autoEntries, autoChanges, autoFaults>>

AutoTicket == [status : Status, priority : Priorities, assignee : Assignees \cup {NoAssignee}]

ExecutionStatus == {"SKIPPED", "COMPLETED", "FAILED"}

\* A statement of an action: a change of a field or its history entry, the
\* notification or the outbox row that tells of it.
Statements == [kind : {"row", "history"}, field : {"status"}, value : Status]
              \cup [kind : {"row", "history"}, field : {"priority"}, value : Priorities]
              \cup [kind : {"row", "history"}, field : {"assignee"}, value : Assignees]
              \cup [kind : {"notification", "side-effect"}]

AutoRun == [pc : {"idle", "load", "rule", "skip", "action", "statement", "refresh", "rescue"},
            rules : Seq([rule : Rules, content : RuleContents]), event : AutoTicket, seen : AutoTicket,
            actions : Seq(RuleActions),
            todo : Seq(Statements), failed : BOOLEAN]

AutomationTypeOK ==
    /\ autoRule \in [Rules -> [state : {"absent", "active", "inactive", "deleted"},
                               content : RuleContents]]
    /\ autoTicket \in AutoTicket
    /\ autoJob \in JobRecord
    /\ autoRun \in AutoRun
    /\ autoRecords \in [Rules -> [ExecutionStatus -> Nat]]
    /\ autoBegun \in [Rules -> Nat]
    /\ autoNotified \in [Rules -> Nat]
    /\ autoWrites \in Nat /\ autoEntries \in Nat
    /\ autoChanges \in 0..MaxAutoChanges
    /\ autoFaults \in [AutoFaultKinds -> 0..MaxAutoFaults]

AtRest(ticket) == [pc |-> "idle", rules |-> <<>>, event |-> ticket, seen |-> ticket,
                   actions |-> <<>>, todo |-> <<>>, failed |-> FALSE]

NoRule == [state |-> "absent", content |-> CHOOSE content \in RuleContents : TRUE]

AutomationInit ==
    /\ autoRule \in [Rules -> [state : {"active"}, content : RuleContents] \cup {NoRule}]
    /\ autoTicket \in [status : {"OPEN", "IN_PROGRESS"}, priority : {"LOW"}, assignee : {NoAssignee}]
    /\ autoJob = NoJob
    /\ autoRun = AtRest(autoTicket)
    /\ autoRecords = [r \in Rules |-> [s \in ExecutionStatus |-> 0]]
    /\ autoBegun = [r \in Rules |-> 0]
    /\ autoNotified = [r \in Rules |-> 0]
    /\ autoWrites = 0 /\ autoEntries = 0
    /\ autoChanges = 0
    /\ autoFaults = [kind \in AutoFaultKinds |-> 0]

-----------------------------------------------------------------------------
(* Conditions and actions *)

\* How old a ticket is the model leaves open: an age condition may hold or not.
Holds(condition, ticket) ==
    CASE condition.type = "PRIORITY_EQUALS" -> {ticket.priority = condition.value}
      [] condition.type = "STATUS_EQUALS" -> {ticket.status = condition.value}
      [] condition.type = "ASSIGNED_TO_EXISTS" -> {(ticket.assignee # NoAssignee) = condition.value}
      [] condition.type = "TICKET_AGE_GREATER_THAN" -> BOOLEAN

\* The outcomes evaluateAutomationConditions may have: every condition has to hold.
Matches(conditions, ticket) ==
    {\A c \in conditions : h[c] : h \in {f \in [conditions -> BOOLEAN] :
                                            \A c \in conditions : f[c] \in Holds(c, ticket)}}

WithHistory(field, value) ==
    <<[kind |-> "row", field |-> field, value |-> value],
      [kind |-> "history", field |-> field, value |-> value]>>

Failure == <<[kind |-> "failure"]>>

Fails == {Failure}

AssignAgent(agent, ticket) ==
    IF ticket.assignee = agent THEN {<<>>}
    ELSE IF agent \in Assignees THEN {WithHistory("assignee", agent)} ELSE Fails

\* The least loaded of the team's assignable users, whoever that is.
AssignTeam(team, ticket) ==
    LET eligible == TeamOf[team] \cap Assignees
    IN  IF eligible = {} THEN Fails ELSE UNION {AssignAgent(a, ticket) : a \in eligible}

ChangePriority(priority, ticket) ==
    IF ticket.priority = priority THEN {<<>>} ELSE {WithHistory("priority", priority)}

SendNotification(ticket) ==
    IF ticket.assignee = NoAssignee THEN Fails
    ELSE {<<[kind |-> "notification"], [kind |-> "side-effect"]>>}

CloseTicket(ticket) ==
    CASE ticket.status = "CLOSED" -> {<<>>}
      [] ticket.status = "RESOLVED" -> {WithHistory("status", "CLOSED")}
      [] CanTransition(ticket.status, "RESOLVED") ->
            {WithHistory("status", "RESOLVED") \o WithHistory("status", "CLOSED")}
      [] OTHER -> Fails

\* What an action may do to the ticket it is given: its statements, or Failure.
Plans(action, ticket) ==
    CASE action.type = "ASSIGN_AGENT" -> AssignAgent(action.agent, ticket)
      [] action.type = "ASSIGN_TEAM" -> AssignTeam(action.team, ticket)
      [] action.type = "CHANGE_PRIORITY" -> ChangePriority(action.priority, ticket)
      [] action.type = "SEND_NOTIFICATION" -> SendNotification(ticket)
      [] action.type = "CLOSE_TICKET" -> CloseTicket(ticket)

-----------------------------------------------------------------------------
(* Users *)

UserChanges ==
    /\ autoChanges < MaxAutoChanges
    /\ autoChanges' = autoChanges + 1

CreateRule(r) ==
    /\ UserChanges
    /\ autoRule[r].state = "absent"
    /\ \E content \in RuleContents :
          autoRule' = [autoRule EXCEPT ![r] = [state |-> "active", content |-> content]]
    /\ UNCHANGED <<autoTicket, autoJob, autoRun, autoRecords, autoBegun, autoNotified,
                   autoWrites, autoEntries, autoFaults>>

\* A rule for another trigger is as good as inactive.
UpdateRule(r) ==
    /\ UserChanges
    /\ autoRule[r].state \in {"active", "inactive"}
    /\ \E state \in {"active", "inactive"}, content \in RuleContents :
          autoRule' = [autoRule EXCEPT ![r] = [state |-> state, content |-> content]]
    /\ UNCHANGED <<autoTicket, autoJob, autoRun, autoRecords, autoBegun, autoNotified,
                   autoWrites, autoEntries, autoFaults>>

\* The rule's executions go with it (onDelete: Cascade).
DeleteRule(r) ==
    /\ UserChanges
    /\ autoRule[r].state \in {"active", "inactive"}
    /\ autoRule' = [autoRule EXCEPT ![r].state = "deleted"]
    /\ autoRecords' = [autoRecords EXCEPT ![r] = [s \in ExecutionStatus |-> 0]]
    /\ UNCHANGED <<autoTicket, autoJob, autoRun, autoBegun, autoNotified, autoWrites,
                   autoEntries, autoFaults>>

\* A use case of TicketLifecycle changes the ticket, history and all.
UserChangesTicket ==
    /\ UserChanges
    /\ \/ \E status \in AllowedTransitions[autoTicket.status] :
             autoTicket' = [autoTicket EXCEPT !.status = status]
       \/ \E agent \in Assignees : autoTicket' = [autoTicket EXCEPT !.assignee = agent]
       \/ \E priority \in Priorities : autoTicket' = [autoTicket EXCEPT !.priority = priority]
    /\ UNCHANGED <<autoRule, autoJob, autoRun, autoRecords, autoBegun, autoNotified,
                   autoWrites, autoEntries, autoFaults>>

-----------------------------------------------------------------------------
(* The job *)

ProcessEvent ==
    /\ autoJob = NoJob
    /\ autoJob' = Added(autoJob)
    /\ UNCHANGED <<autoRule, autoTicket, autoRun, autoRecords, autoBegun, autoNotified,
                   autoWrites, autoEntries, autoChanges, autoFaults>>

TakeAutomationJob ==
    /\ autoJob.state = "waiting"
    /\ autoJob' = Taken(autoJob)
    /\ autoRun' = [AtRest(autoRun.event) EXCEPT !.pc = "load"]
    /\ UNCHANGED <<autoRule, autoTicket, autoRecords, autoBegun, autoNotified,
                   autoWrites, autoEntries, autoChanges, autoFaults>>

CompleteAutomationJob ==
    /\ autoJob' = Succeeded(autoJob)
    /\ autoRun' = AtRest(autoRun.event)

AutomationJobThrows ==
    /\ autoJob' = AttemptFailed(autoJob)
    /\ autoRun' = AtRest(autoRun.event)

\* listActiveByTenantAndTrigger, in the order of creation: the one list, in a set.
ActiveRules ==
    LET active == {r \in Rules : autoRule[r].state = "active"}
        orders == {o \in [1..Cardinality(active) -> active] :
                      \A i, j \in DOMAIN o : i < j => o[i] < o[j]}
    IN  {[i \in DOMAIN o |-> [rule |-> o[i], content |-> autoRule[o[i]].content]] : o \in orders}

\* The processor reads the ticket as it is now, then the flag and the rules.
LoadTicketAndRules ==
    /\ autoRun.pc = "load"
    /\ \E enabled \in BOOLEAN, rules \in ActiveRules :
          IF enabled /\ rules # <<>>
          THEN /\ autoRun' = [AtRest(autoTicket) EXCEPT !.pc = "rule", !.rules = rules]
               /\ UNCHANGED autoJob
          ELSE CompleteAutomationJob
    /\ UNCHANGED <<autoRule, autoTicket, autoRecords, autoBegun, autoNotified,
                   autoWrites, autoEntries, autoChanges, autoFaults>>

Current == Head(autoRun.rules).rule

\* Every rule is given the ticket that was read at the start.
EvaluateRule ==
    /\ autoRun.pc = "rule"
    /\ LET content == Head(autoRun.rules).content IN
       \E matched \in Matches(content.conditions, autoRun.event) :
          IF matched
          THEN /\ autoRun' = [autoRun EXCEPT !.pc = "action", !.seen = autoRun.event,
                                             !.actions = content.actions, !.failed = FALSE]
               /\ autoBegun' = [autoBegun EXCEPT ![Current] = @ + 1]
          ELSE /\ autoRun' = [autoRun EXCEPT !.pc = "skip"]
               /\ UNCHANGED autoBegun
    /\ UNCHANGED <<autoRule, autoTicket, autoJob, autoRecords, autoNotified,
                   autoWrites, autoEntries, autoChanges, autoFaults>>

BeginAction ==
    /\ autoRun.pc = "action"
    /\ autoRun.actions # <<>>
    /\ \E plan \in Plans(Head(autoRun.actions), autoRun.seen) :
          autoRun' = CASE plan = Failure -> [autoRun EXCEPT !.pc = "refresh", !.failed = TRUE]
                       [] plan = <<>> -> [autoRun EXCEPT !.pc = "refresh"]
                       [] OTHER -> [autoRun EXCEPT !.pc = "statement", !.todo = plan]
    /\ UNCHANGED <<autoRule, autoTicket, autoJob, autoRecords, autoBegun, autoNotified,
                   autoWrites, autoEntries, autoChanges, autoFaults>>

\* Unconditional updates by id: what was seen is not looked at again.
ExecuteStatement ==
    /\ autoRun.pc = "statement"
    /\ LET statement == Head(autoRun.todo)
           is(kind) == IF statement.kind = kind THEN 1 ELSE 0
       IN  /\ autoTicket' = IF statement.kind = "row"
                            THEN [autoTicket EXCEPT ![statement.field] = statement.value]
                            ELSE autoTicket
           /\ autoWrites' = autoWrites + is("row")
           /\ autoEntries' = autoEntries + is("history")
           /\ autoNotified' = [autoNotified EXCEPT ![Current] = @ + is("notification")]
    /\ autoRun' = [autoRun EXCEPT !.todo = Tail(@),
                       !.pc = IF Tail(autoRun.todo) = <<>> THEN "refresh" ELSE "statement"]
    /\ UNCHANGED <<autoRule, autoJob, autoRecords, autoBegun, autoChanges, autoFaults>>

\* Faulty variant: the next action of the rule is given the ticket of the event, too.
RefreshTicketNever ==
    /\ autoRun.pc = "refresh"
    /\ autoRun' = [autoRun EXCEPT !.actions = Tail(@), !.pc = "action"]
    /\ UNCHANGED <<autoRule, autoTicket, autoJob, autoRecords, autoBegun, autoNotified,
                   autoWrites, autoEntries, autoChanges, autoFaults>>

\* The next action of the rule is given the row as it is now.
RefreshTicket ==
    /\ autoRun.pc = "refresh"
    /\ autoRun' = [autoRun EXCEPT !.seen = autoTicket, !.actions = Tail(@), !.pc = "action"]
    /\ UNCHANGED <<autoRule, autoTicket, autoJob, autoRecords, autoBegun, autoNotified,
                   autoWrites, autoEntries, autoChanges, autoFaults>>

NextRule ==
    IF Tail(autoRun.rules) = <<>> THEN CompleteAutomationJob
    ELSE /\ autoRun' = [AtRest(autoRun.event) EXCEPT !.pc = "rule", !.rules = Tail(autoRun.rules)]
         /\ UNCHANGED autoJob

RuleDeleted == autoRule[Current].state = "deleted"

CreateExecution(status) ==
    autoRecords' = [autoRecords EXCEPT ![Current][status] = @ + 1]

\* Outside of the try block; the foreign key refuses a rule that was deleted.
RecordSkip ==
    /\ autoRun.pc = "skip"
    /\ IF RuleDeleted THEN AutomationJobThrows /\ UNCHANGED autoRecords
       ELSE CreateExecution("SKIPPED") /\ NextRule
    /\ UNCHANGED <<autoRule, autoTicket, autoBegun, autoNotified, autoWrites, autoEntries,
                   autoChanges, autoFaults>>

RecordExecution ==
    /\ autoRun.pc = "action"
    /\ autoRun.actions = <<>>
    /\ IF RuleDeleted
       THEN autoRun' = [autoRun EXCEPT !.pc = "rescue"] /\ UNCHANGED <<autoJob, autoRecords>>
       ELSE CreateExecution(IF autoRun.failed THEN "FAILED" ELSE "COMPLETED") /\ NextRule
    /\ UNCHANGED <<autoRule, autoTicket, autoBegun, autoNotified, autoWrites, autoEntries,
                   autoChanges, autoFaults>>

\* The catch block: a FAILED execution, and the job fails.
RescueExecution ==
    /\ autoRun.pc = "rescue"
    /\ IF RuleDeleted THEN UNCHANGED autoRecords ELSE CreateExecution("FAILED")
    /\ AutomationJobThrows
    /\ UNCHANGED <<autoRule, autoTicket, autoBegun, autoNotified, autoWrites, autoEntries,
                   autoChanges, autoFaults>>

ReportDeadAutomationJob ==
    /\ autoJob.state = "failed"
    /\ autoJob' = DeadLettered(autoJob)
    /\ UNCHANGED <<autoRule, autoTicket, autoRun, autoRecords, autoBegun, autoNotified,
                   autoWrites, autoEntries, autoChanges, autoFaults>>

-----------------------------------------------------------------------------
(* Faults *)

Faults(kind) == IF kind \in AutoFaultKinds THEN autoFaults[kind] ELSE 0

AutoFault(kind) ==
    /\ kind \in AutoFaultKinds
    /\ IF kind = "listener" THEN Faults(kind) < MaxAutoFaults
                            ELSE Faults("statement") + Faults("crash") < MaxAutoFaults
    /\ autoFaults' = [autoFaults EXCEPT ![kind] = @ + 1]

\* Faulty variant: an execution that cannot be recorded is given up at once.
StatementFailsUnrescued ==
    /\ AutoFault("statement")
    /\ autoRun.pc \in {"load", "skip", "action", "statement", "refresh", "rescue"}
    /\ IF autoRun.pc = "statement" \/ (autoRun.pc = "action" /\ autoRun.actions # <<>>)
       THEN /\ autoRun' = [autoRun EXCEPT !.pc = "refresh", !.failed = TRUE, !.todo = <<>>]
            /\ UNCHANGED autoJob
       ELSE AutomationJobThrows
    /\ UNCHANGED <<autoRule, autoTicket, autoRecords, autoBegun, autoNotified, autoWrites,
                   autoEntries, autoChanges>>

\* executeAction turns an exception into a failed result; one outside of it
\* reaches the catch block of the engine, or leaves the job.
AutoStatementFails ==
    /\ AutoFault("statement")
    /\ \/ /\ autoRun.pc = "statement" \/ (autoRun.pc = "action" /\ autoRun.actions # <<>>)
          /\ autoRun' = [autoRun EXCEPT !.pc = "refresh", !.failed = TRUE, !.todo = <<>>]
          /\ UNCHANGED autoJob
       \/ /\ autoRun.pc = "refresh" \/ (autoRun.pc = "action" /\ autoRun.actions = <<>>)
          /\ autoRun' = [autoRun EXCEPT !.pc = "rescue"]
          /\ UNCHANGED autoJob
       \/ /\ autoRun.pc \in {"load", "skip", "rescue"}
          /\ AutomationJobThrows
    /\ UNCHANGED <<autoRule, autoTicket, autoRecords, autoBegun, autoNotified, autoWrites,
                   autoEntries, autoChanges>>

DeadAutomationJobUnreported ==
    /\ AutoFault("listener")
    /\ autoJob.state = "failed"
    /\ autoJob' = [autoJob EXCEPT !.state = "unreported"]
    /\ UNCHANGED <<autoRule, autoTicket, autoRun, autoRecords, autoBegun, autoNotified,
                   autoWrites, autoEntries, autoChanges>>

AutoCrash ==
    /\ AutoFault("crash")
    /\ autoRun.pc # "idle"
    /\ autoRun' = AtRest(autoRun.event)
    /\ autoJob' \in Stalled(autoJob)
    /\ UNCHANGED <<autoRule, autoTicket, autoRecords, autoBegun, autoNotified, autoWrites,
                   autoEntries, autoChanges>>

-----------------------------------------------------------------------------
(* The specification *)

AutomationStep ==
    \/ TakeAutomationJob \/ LoadTicketAndRules \/ EvaluateRule \/ BeginAction
    \/ ExecuteStatement \/ RefreshTicket \/ RecordSkip \/ RecordExecution
    \/ RescueExecution \/ ReportDeadAutomationJob

AutomationNext ==
    \/ \E r \in Rules : CreateRule(r) \/ UpdateRule(r) \/ DeleteRule(r)
    \/ UserChangesTicket
    \/ ProcessEvent
    \/ AutomationStep
    \/ AutoStatementFails \/ DeadAutomationJobUnreported \/ AutoCrash

\* A worker takes the job and goes on with it.
AutomationFairness == WF_autoVars(AutomationStep)

AutomationSpec == AutomationInit /\ [][AutomationNext]_autoVars /\ AutomationFairness

-----------------------------------------------------------------------------
(* Correctness *)

Executing(r) ==
    /\ autoRun.pc \in {"action", "statement", "refresh", "rescue"}
    /\ Current = r

KeptRules == {r \in Rules : autoRule[r].state # "deleted"}

\* Executions of a rule's actions that no record tells, the running one aside.
Unrecorded(r) ==
    autoBegun[r] - (IF Executing(r) THEN 1 ELSE 0)
        - (autoRecords[r]["COMPLETED"] + autoRecords[r]["FAILED"])

UnrecordedExecutions == UNION {{<<r, i>> : i \in 1..Unrecorded(r)} : r \in KeptRules}

\* Whatever fails, no execution goes unrecorded unless both of its records fail
\* or the process dies; a change of the ticket lacks its history entry only by a
\* fault between the two statements; and a rule is executed again only because
\* an attempt of the job failed or its process died.
AutomationAccounted ==
    /\ 2 * Cardinality(UnrecordedExecutions) <= Faults("statement") + 2 * Faults("crash")
    /\ autoWrites - autoEntries
          - (IF autoRun.pc = "statement" /\ Head(autoRun.todo).kind = "history" THEN 1 ELSE 0)
          <= Faults("statement") + Faults("crash")
    /\ \A r \in Rules : autoBegun[r] <= 1 + autoJob.attempts + Faults("crash")

\* The row, or what may become of it, after so many statements, actions or rules.
RowAfter(ticket, plan) ==
    LET after[i \in 0..Len(plan)] ==
            IF i = 0 THEN ticket
            ELSE IF plan[i].kind = "row" THEN [after[i - 1] EXCEPT ![plan[i].field] = plan[i].value]
            ELSE after[i - 1]
    IN  after

Apply(ticket, plan) == RowAfter(ticket, plan)[Len(plan)]

\* The first action is given the event's ticket, the others the row.
ActionsAfter(actions, event, row) ==
    LET after[i \in 0..Len(actions)] ==
            IF i = 0 THEN {[row |-> row, seen |-> event]}
            ELSE UNION {{[row |-> Apply(s.row, plan), seen |-> Apply(s.row, plan)] :
                            plan \in Plans(actions[i], s.seen)} : s \in after[i - 1]}
    IN  after

RuleOutcomes(content, event, row) ==
    LET matched == {s.row : s \in ActionsAfter(content.actions, event, row)[Len(content.actions)]}
    IN  UNION {IF m THEN matched ELSE {row} : m \in Matches(content.conditions, event)}

RulesAfter(rules, event) ==
    LET after[i \in 0..Len(rules)] ==
            IF i = 0 THEN {event}
            ELSE UNION {RuleOutcomes(rules[i].content, event, row) : row \in after[i - 1]}
    IN  after

Outcomes(event) == UNION {RulesAfter(rules, event)[Len(rules)] : rules \in ActiveRules}

RecordsOf(r) == autoRecords[r]["SKIPPED"] + autoRecords[r]["COMPLETED"] + autoRecords[r]["FAILED"]

\* Left alone, the engine computes a function of the event's ticket and the
\* active rules, in the order of their creation: each rule's first action is
\* given the event's ticket, the others the row.  If the flag is off it does
\* nothing.
EngineComputes ==
    autoJob.state = "completed" /\ autoChanges = 0 /\ (\A k \in AutoFaultKinds : autoFaults[k] = 0)
        => \/ /\ autoTicket \in Outcomes(autoRun.event)
              /\ \A r \in Rules : RecordsOf(r) = IF autoRule[r].state = "active" THEN 1 ELSE 0
           \/ autoTicket = autoRun.event /\ \A r \in Rules : RecordsOf(r) = 0

\* An attempt may fail for a rule that was deleted; an automation that ends
\* without a dead letter has lost its listener's call or two workers.
AutomationJobAccounted == Accounted(autoJob, Faults("crash"), Faults("listener"))

\* Every event that was enqueued is processed, dead-lettered, or given up by BullMQ.
EveryAutomationEnds == autoJob.state = "waiting" ~> Ended(autoJob)
===============================================================================
