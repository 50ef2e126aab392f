------------------------------ MODULE EventFanout ------------------------------
(***************************************************************************)
(* What the event bus makes of a publication: the registered handlers run  *)
(* concurrently, publish waits for all of them and keeps their failures to *)
(* itself.  A handler is a list of statements and of jobs that it adds;    *)
(* the email jobs are followed to their end, here, with the queue or       *)
(* inline; the other jobs are those of WebhookDispatch and of              *)
(* AutomationEngine.                                                       *)
(***************************************************************************)
EXTENDS JobQueue, Sequences, FiniteSets

CONSTANTS
    Publications,   \* publications of ticket events
    FanFaultKinds,  \* which faults may happen
    MaxFanFaults    \* bound: how many faults may happen

ASSUME FanoutAssumption ==
    /\ IsFiniteSet(Publications)
    /\ FanFaultKinds \subseteq {"call", "smtp", "listener", "crash"}
    /\ MaxFanFaults \in Nat

VARIABLES
    fanEvent,     \* the event of every publication, and whether its ticket has an assignee
    fanState,     \* where every publication stands
    fanTodo,      \* what each of its handlers has still to do
    fanRejected,  \* the handlers that threw
    fanEffects,   \* what the handlers have written and added
    fanEmail,     \* the email job of every publication
    fanMail,      \* and where its processor stands
    fanSent,      \* mails the SMTP server has taken
    fanFaults     \* faults so far

fanVars == <<fanEvent, fanState, fanTodo, fanRejected, fanEffects, fanEmail, fanMail,
             fanSent, fanFaults>>

EventNames == {"ticket.created", "ticket.assigned", "ticket.status_changed", "ticket.resolved",
               "ticket.closed", "sla.warning", "sla.breached", "csat.submitted"}

Handlers == {"ticket-audit", "audit-log", "notification", "automation", "webhook"}

\* What is published, and how the process that does it is configured: with
\* QUEUE_ENABLED (BullMQ, or else the sync provider) and with EMAIL_ENABLED.
FanEvent == [name : EventNames, assigned : BOOLEAN, queued : BOOLEAN, mailed : BOOLEAN]

Effects == {"audit", "in-app", "side-effect", "email-job", "automation-job", "webhook-job"}

-----------------------------------------------------------------------------
(* The handlers *)

AuditLogSteps(event) ==
    IF event.name \in {"ticket.created", "ticket.assigned", "ticket.status_changed",
                       "ticket.resolved", "ticket.closed"}
    THEN <<"audit">> ELSE <<>>

\* CreateNotificationUseCase and sendTicketNotification.
Notify(event) == <<"in-app", "side-effect">> \o (IF event.mailed THEN <<"email-job">> ELSE <<>>)

\* An assignment notifies the new assignee, the other events the ticket's.
NotificationSteps(event) ==
    IF \/ event.name = "ticket.assigned"
       \/ /\ event.name \in {"ticket.created", "ticket.status_changed", "sla.warning", "sla.breached"}
          /\ event.assigned
    THEN Notify(event) ELSE <<>>

AutomationSteps(event) ==
    IF event.name \in {"ticket.created", "ticket.assigned", "ticket.status_changed",
                       "sla.warning", "sla.breached"}
    THEN <<"automation-job">> ELSE <<>>

\* An assignment is told twice, as TICKET_ASSIGNED and as TICKET_UPDATED.
WebhookSteps(event) ==
    IF event.name = "ticket.assigned" THEN <<"webhook-job", "webhook-job">> ELSE <<"webhook-job">>

\* The ticket audit handler only logs.
StepsOf(event) ==
    [h \in Handlers |->
        CASE h = "ticket-audit" -> <<>>
          [] h = "audit-log" -> AuditLogSteps(event)
          [] h = "notification" -> NotificationSteps(event)
          [] h = "automation" -> AutomationSteps(event)
          [] h = "webhook" -> WebhookSteps(event)]

-----------------------------------------------------------------------------
(* State *)

NoEffects == [e \in Effects |-> 0]

FanoutTypeOK ==
    /\ fanEvent \in [Publications -> FanEvent]
    /\ fanState \in [Publications -> {"new", "running", "returned"}]
    /\ fanTodo \in [Publications -> [Handlers -> Seq(Effects)]]
    /\ fanRejected \in [Publications -> SUBSET Handlers]
    /\ fanEffects \in [Publications -> [Effects -> 0..2]]
    /\ fanEmail \in [Publications -> JobRecord]
    /\ fanMail \in [Publications -> {"idle", "send", "record"}]
    /\ fanSent \in [Publications -> Nat]
    /\ fanFaults \in 0..MaxFanFaults

FanoutInit ==
    /\ fanEvent \in [Publications -> FanEvent]
    /\ fanState = [p \in Publications |-> "new"]
    /\ fanTodo = [p \in Publications |-> [h \in Handlers |-> <<>>]]
    /\ fanRejected = [p \in Publications |-> {}]
    /\ fanEffects = [p \in Publications |-> NoEffects]
    /\ fanEmail = [p \in Publications |-> NoJob]
    /\ fanMail = [p \in Publications |-> "idle"]
    /\ fanSent = [p \in Publications |-> 0]
    /\ fanFaults = 0

-----------------------------------------------------------------------------
(* Publication *)

PublishEvent(p) ==
    /\ fanState[p] = "new"
    /\ fanState' = [fanState EXCEPT ![p] = "running"]
    /\ fanTodo' = [fanTodo EXCEPT ![p] = StepsOf(fanEvent[p])]
    /\ UNCHANGED <<fanEvent, fanRejected, fanEffects, fanEmail, fanMail, fanSent, fanFaults>>

Pending(p, h) == fanState[p] = "running" /\ fanTodo[p][h] # <<>>

\* Without the queue, addEmailJob returns when the processor has returned.
Inline(p, h) == ~fanEvent[p].queued /\ h = "notification" /\ fanEmail[p].state = "active"

\* A handler's next statement, or the job it adds.
HandlerStep(p, h) ==
    /\ Pending(p, h)
    /\ ~Inline(p, h)
    /\ LET step == Head(fanTodo[p][h])
           inline == step = "email-job" /\ ~fanEvent[p].queued
       IN  /\ fanEffects' = [fanEffects EXCEPT ![p][step] = @ + 1]
           /\ fanEmail' = IF step # "email-job" THEN fanEmail
                          ELSE [fanEmail EXCEPT ![p] = IF inline THEN Taken(@) ELSE Added(@)]
           /\ fanMail' = IF inline THEN [fanMail EXCEPT ![p] = "send"] ELSE fanMail
           /\ fanTodo' = IF inline THEN fanTodo ELSE [fanTodo EXCEPT ![p][h] = Tail(@)]
    /\ UNCHANGED <<fanEvent, fanState, fanRejected, fanSent, fanFaults>>

\* Promise.allSettled has every result, and publish logs those that were rejected.
PublishReturns(p) ==
    /\ fanState[p] = "running"
    /\ \A h \in Handlers : fanTodo[p][h] = <<>>
    /\ fanState' = [fanState EXCEPT ![p] = "returned"]
    /\ UNCHANGED <<fanEvent, fanTodo, fanRejected, fanEffects, fanEmail, fanMail, fanSent, fanFaults>>

\* Faulty variant: the first handler that throws ends the publication (Promise.all).
RejectAll(p, h) ==
    /\ fanTodo' = [fanTodo EXCEPT ![p] = [g \in Handlers |-> <<>>]]
    /\ fanRejected' = [fanRejected EXCEPT ![p] = @ \cup {h}]

\* A handler throws: what it has not done yet, it does not do.
Reject(p, h) ==
    /\ fanTodo' = [fanTodo EXCEPT ![p][h] = <<>>]
    /\ fanRejected' = [fanRejected EXCEPT ![p] = @ \cup {h}]

-----------------------------------------------------------------------------
(* The email job *)

\* A worker takes it, and finds the ticket and the recipient.
TakeEmailJob(p) ==
    /\ fanEmail[p].state = "waiting"
    /\ fanEmail' = [fanEmail EXCEPT ![p] = Taken(@)]
    /\ fanMail' = [fanMail EXCEPT ![p] = "send"]
    /\ UNCHANGED <<fanEvent, fanState, fanTodo, fanRejected, fanEffects, fanSent, fanFaults>>

SendMail(p) ==
    /\ fanMail[p] = "send"
    /\ fanSent' = [fanSent EXCEPT ![p] = @ + 1]
    /\ fanMail' = [fanMail EXCEPT ![p] = "record"]
    /\ UNCHANGED <<fanEvent, fanState, fanTodo, fanRejected, fanEffects, fanEmail, fanFaults>>

\* The outbox row that tells of it; then the job is done, and with it the handler
\* that waits for it when there is no queue.
RecordMail(p) ==
    /\ fanMail[p] = "record"
    /\ fanMail' = [fanMail EXCEPT ![p] = "idle"]
    /\ fanEmail' = [fanEmail EXCEPT ![p] = Succeeded(@)]
    /\ fanTodo' = IF fanEvent[p].queued THEN fanTodo ELSE [fanTodo EXCEPT ![p]["notification"] = Tail(@)]
    /\ UNCHANGED <<fanEvent, fanState, fanRejected, fanEffects, fanSent, fanFaults>>

\* An attempt fails.  The sync provider has no other attempt: it keeps a dead
\* letter in its memory and throws on to the handler.
EmailJobFails(p) ==
    /\ fanMail' = [fanMail EXCEPT ![p] = "idle"]
    /\ IF fanEvent[p].queued
       THEN /\ fanEmail' = [fanEmail EXCEPT ![p] = AttemptFailed(@)]
            /\ UNCHANGED <<fanTodo, fanRejected>>
       ELSE /\ fanEmail' = [fanEmail EXCEPT ![p] = DeadLettered(@)]
            /\ Reject(p, "notification")

ReportDeadEmailJob(p) ==
    /\ fanEmail[p].state = "failed"
    /\ fanEmail' = [fanEmail EXCEPT ![p] = DeadLettered(@)]
    /\ UNCHANGED <<fanEvent, fanState, fanTodo, fanRejected, fanEffects, fanMail, fanSent, fanFaults>>

-----------------------------------------------------------------------------
(* Faults *)

FanFault(kind) ==
    /\ kind \in FanFaultKinds
    /\ fanFaults < MaxFanFaults
    /\ fanFaults' = fanFaults + 1

\* A statement or the addition of a job fails.  The audit service catches its own.
HandlerCallFails(p, h) ==
    /\ FanFault("call")
    /\ Pending(p, h)
    /\ ~Inline(p, h)
    /\ IF h = "audit-log"
       THEN fanTodo' = [fanTodo EXCEPT ![p][h] = Tail(@)] /\ UNCHANGED fanRejected
       ELSE Reject(p, h)
    /\ UNCHANGED <<fanEvent, fanState, fanEffects, fanEmail, fanMail, fanSent>>

\* The server refuses the mail, or the outbox row of a mail that was sent fails.
MailFails(p) ==
    /\ FanFault("smtp")
    /\ fanMail[p] # "idle"
    /\ EmailJobFails(p)
    /\ UNCHANGED <<fanEvent, fanState, fanEffects, fanSent>>

DeadEmailJobUnreported(p) ==
    /\ FanFault("listener")
    /\ fanEmail[p].state = "failed"
    /\ fanEmail' = [fanEmail EXCEPT ![p].state = "unreported"]
    /\ UNCHANGED <<fanEvent, fanState, fanTodo, fanRejected, fanEffects, fanMail, fanSent>>

\* The worker of an email job dies.
EmailWorkerCrashes(p) ==
    /\ FanFault("crash")
    /\ fanEvent[p].queued
    /\ fanMail[p] # "idle"
    /\ fanMail' = [fanMail EXCEPT ![p] = "idle"]
    /\ \E job \in Stalled(fanEmail[p]) : fanEmail' = [fanEmail EXCEPT ![p] = job]
    /\ UNCHANGED <<fanEvent, fanState, fanTodo, fanRejected, fanEffects, fanSent>>

-----------------------------------------------------------------------------
(* The specification *)

EmailStep(p) == TakeEmailJob(p) \/ SendMail(p) \/ RecordMail(p) \/ ReportDeadEmailJob(p)

FanoutNext ==
    \E p \in Publications :
        \/ PublishEvent(p) \/ PublishReturns(p) \/ EmailStep(p)
        \/ \E h \in Handlers : HandlerStep(p, h) \/ HandlerCallFails(p, h)
        \/ MailFails(p) \/ DeadEmailJobUnreported(p) \/ EmailWorkerCrashes(p)

\* Handlers go on, and workers take their jobs.
FanoutFairness ==
    \A p \in Publications :
        /\ WF_fanVars(PublishReturns(p))
        /\ WF_fanVars(EmailStep(p))
        /\ \A h \in Handlers : WF_fanVars(HandlerStep(p, h))

FanoutSpec == FanoutInit /\ [][FanoutNext]_fanVars /\ FanoutFairness

-----------------------------------------------------------------------------
(* Correctness *)

Promised(p, h) ==
    [e \in Effects |-> Cardinality({i \in DOMAIN StepsOf(fanEvent[p])[h] :
                                       StepsOf(fanEvent[p])[h][i] = e})]

\* An effect that a handler promises is missing: not written, not added, or an
\* email whose job has ended without a mail.
Missing(p, h) ==
    \/ \E e \in Effects : Promised(p, h)[e] > 0 /\ fanEffects[p][e] < Promised(p, h)[e]
    \/ Promised(p, h)["email-job"] > 0 /\ Ended(fanEmail[p]) /\ fanSent[p] = 0

\* Mails of which the recipient got another one later.
SentAgain == UNION {{<<p, i>> : i \in 1..(fanSent[p] - 1)} : p \in Publications}

\* The handlers are isolated from each other: when a publication has returned,
\* each failure has cost the effects of one handler at most, and has caused one
\* mail too many at most.
OneFaultOneHandler ==
    /\ Cardinality({x \in Publications \X Handlers :
                       fanState[x[1]] = "returned" /\ Missing(x[1], x[2])})
          + Cardinality(SentAgain) <= fanFaults
    /\ \A p \in Publications : fanState[p] = "returned" =>
          \A h \in Handlers : fanTodo[p][h] = <<>>

\* Faults that the fate of an email job takes: one for each attempt, one for the
\* listener that could not report it, two for the workers that BullMQ gave up after.
FaultsOf(job) ==
    job.attempts + (CASE job.state = "unreported" -> 1 [] job.state = "dropped" -> 2 [] OTHER -> 0)

\* With the queue, a mail is dead-lettered after as many failures as attempts.
MailsAccounted ==
    \A p \in Publications : fanEvent[p].queued =>
        Accounted(fanEmail[p], fanFaults, fanFaults) /\ FaultsOf(fanEmail[p]) <= fanFaults

\* Every publication returns, whatever its handlers do, and its mail is sent,
\* dead-lettered, or given up by BullMQ.
EveryPublicationReturns ==
    \A p \in Publications :
        fanState[p] = "running" ~>
            fanState[p] = "returned" /\ (fanEmail[p].state = "none" \/ Ended(fanEmail[p]))
===============================================================================
