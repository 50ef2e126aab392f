----------------------------- MODULE MCBackground -----------------------------
(***************************************************************************)
(* One instance for the components that run beside the requests: the audit *)
(* log, the dispatch of webhooks, the automation engine and the fan-out of *)
(* the event bus.  They share no state, so they are not interleaved: every *)
(* behaviour runs one of them, "focus", and leaves the others at rest.     *)
(***************************************************************************)
EXTENDS AuditChain, WebhookDispatch, AutomationEngine, EventFanout, TLC

VARIABLE focus

Agents == {"a1", "a2"}

Teams == [SUPPORT |-> {"a1", "a2", "c1"}, LEGAL |-> {"c1"}]

\* Every kind of condition, and every kind of action.
Contents ==
    {[conditions |-> {[type |-> "PRIORITY_EQUALS", value |-> "LOW"],
                      [type |-> "TICKET_AGE_GREATER_THAN"]},
      actions |-> <<[type |-> "ASSIGN_TEAM", team |-> "SUPPORT"],
                    [type |-> "CHANGE_PRIORITY", priority |-> "HIGH"],
                    [type |-> "SEND_NOTIFICATION"]>>],
     [conditions |-> {[type |-> "STATUS_EQUALS", value |-> "IN_PROGRESS"],
                      [type |-> "ASSIGNED_TO_EXISTS", value |-> FALSE]},
      actions |-> <<[type |-> "ASSIGN_AGENT", agent |-> "a1"],
                    [type |-> "CHANGE_PRIORITY", priority |-> "LOW"],
                    [type |-> "CLOSE_TICKET"]>>]}

Unless(component, state) == focus = component \/ state

\* A component at rest has one state, the first that its Init allows.
BackgroundInit ==
    /\ focus \in {"audit", "webhooks", "automation", "fanout"}
    /\ Init
    /\ WebhookInit
    /\ Unless("webhooks", \A e \in Endpoints : hookEndpoint[e].state = "absent")
    /\ AutomationInit
    /\ Unless("automation",
          /\ autoTicket.status = "OPEN"
          /\ \A r \in Rules : autoRule[r] = NoRule)
    /\ FanoutInit
    /\ Unless("fanout", \A p \in Publications : fanEvent[p] = CHOOSE event \in FanEvent : TRUE)

Only(component) ==
    /\ focus = component
    /\ UNCHANGED focus
    /\ component # "audit" => UNCHANGED vars
    /\ component # "webhooks" => UNCHANGED hookVars
    /\ component # "automation" => UNCHANGED autoVars
    /\ component # "fanout" => UNCHANGED fanVars

BackgroundNext ==
    \/ Only("audit") /\ Next
    \/ Only("webhooks") /\ WebhookNext
    \/ Only("automation") /\ AutomationNext
    \/ Only("fanout") /\ FanoutNext

\* The fairness of the component that runs: at rest nothing is waiting for a
\* process, a worker or a handler.
BackgroundFairness ==
    /\ \A p \in Processes :
          WF_vars(focus = "audit" /\ ReadLast(p)) /\ WF_vars(focus = "audit" /\ Insert(p))
              /\ WF_vars(focus = "audit" /\ Resolve(p))
    /\ \A e \in Entries : WF_vars(focus = "audit" /\ InsertCommits(e))
    /\ \A j \in HookJobs : WF_hookVars(focus = "webhooks" /\ HookJobStep(j))
    /\ \A c \in Callers : WF_hookVars(focus = "webhooks" /\ DeliveryStep(c))
    /\ WF_autoVars(focus = "automation" /\ AutomationStep)
    /\ \A p \in Publications :
          /\ WF_fanVars(focus = "fanout" /\ PublishReturns(p))
          /\ WF_fanVars(focus = "fanout" /\ EmailStep(p))
          /\ \A h \in Handlers : WF_fanVars(focus = "fanout" /\ HandlerStep(p, h))

BackgroundSpec ==
    /\ BackgroundInit /\ [][BackgroundNext]_<<focus, vars, hookVars, autoVars, fanVars>>
    /\ BackgroundFairness

\* The types of the four components' variables.
BackgroundTypeOK == TypeOK /\ WebhookTypeOK /\ AutomationTypeOK /\ FanoutTypeOK

\* No job is lost silently but for one of two reasons: the listener of the last
\* failed attempt cannot reach Redis, or two workers die with the same job, which
\* BullMQ then fails with attempts left, and the listener returns early.
LossesExplained == DispatchesAccounted /\ AutomationJobAccounted /\ MailsAccounted

\* Whatever is handed to a worker comes to an end, whoever dies with it: it is
\* processed, dead-lettered, or lost as LossesExplained says; a publication
\* returns, and its mail ends in the same way.
EveryJobEnds == EveryDispatchEnds /\ EveryAutomationEnds /\ EveryPublicationReturns
===============================================================================
