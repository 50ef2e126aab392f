--------------------------- MODULE WebhookDispatch ---------------------------
(***************************************************************************)
(* Webhooks: the endpoints of a tenant, the jobs that deliver an event to  *)
(* them one after the other, the delivery rows, and the test deliveries    *)
(* that an administrator asks for.  The endpoints are the environment:     *)
(* they accept, refuse, or do not answer.                                  *)
(***************************************************************************)
EXTENDS JobQueue, Sequences, FiniteSets

CONSTANTS
    Endpoints,       \* webhook endpoints of the tenant
    HookJobs,        \* webhook jobs, one for each dispatched event
    HookTests,       \* test deliveries
    MaxCallers,      \* bound: jobs and tests altogether
    MaxHookChanges,  \* bound: changes of endpoints
    HookFaultKinds,  \* which faults may happen
    MaxHookFaults    \* bound: how many faults may happen

ASSUME WebhookAssumption ==
    /\ IsFiniteSet(Endpoints)
    /\ HookJobs \cap HookTests = {}
    /\ MaxCallers \in Nat
    /\ MaxHookChanges \in Nat
    /\ HookFaultKinds \subseteq {"statement", "answer", "listener", "crash"}
    /\ MaxHookFaults \in Nat

VARIABLES
    hookEndpoint,  \* the webhook_endpoints table
    hookJob,       \* the jobs of the webhook queue
    hookRun,       \* where the processor of every job, and every test, stands
    hookRows,      \* the webhook_deliveries table: rows by caller, endpoint, status
    hookAccepted,  \* how often an endpoint has accepted the payload of a caller
    hookSent,      \* WEBHOOK_DISPATCHED rows written by every job
    hookChanges,   \* changes of endpoints so far
    hookFaults     \* faults so far

hookVars == <<hookEndpoint, hookJob, hookRun, hookRows, hookAccepted, hookSent,
              hookChanges, hookFaults>>

Callers == HookJobs \cup HookTests

DeliveryStatus == {"PENDING", "DELIVERED", "FAILED"}

\* "busy" answers are those isRetryableStatus names: 408, 429 and 5xx.
Answers == {"ok", "refused", "busy", "none"}

MaxTestAttempts == 3

Endpoint == [state : {"absent", "active", "inactive", "deleted"}, subscribed : BOOLEAN]

HookRun == [pc : {"idle", "list", "deliver", "post", "record", "catch", "report"},
            todo : Seq(Endpoints), listed : SUBSET Endpoints, answer : Answers,
            tries : 0..MaxTestAttempts]

NotRunning == [pc |-> "idle", todo |-> <<>>, listed |-> {}, answer |-> "none", tries |-> 0]

WebhookTypeOK ==
    /\ hookEndpoint \in [Endpoints -> Endpoint]
    /\ hookJob \in [HookJobs -> JobRecord]
    /\ hookRun \in [Callers -> HookRun]
    /\ hookRows \in [Callers -> [Endpoints -> [DeliveryStatus -> Nat]]]
    /\ hookAccepted \in [Callers -> [Endpoints -> Nat]]
    /\ hookSent \in [HookJobs -> Nat]
    /\ hookChanges \in 0..MaxHookChanges
    /\ hookFaults \in 0..MaxHookFaults

WebhookInit ==
    /\ hookEndpoint \in [Endpoints -> [state : {"absent", "active"}, subscribed : {TRUE}]]
    /\ hookJob = [j \in HookJobs |-> NoJob]
    /\ hookRun = [c \in Callers |-> NotRunning]
    /\ hookRows = [c \in Callers |-> [e \in Endpoints |-> [s \in DeliveryStatus |-> 0]]]
    /\ hookAccepted = [c \in Callers |-> [e \in Endpoints |-> 0]]
    /\ hookSent = [j \in HookJobs |-> 0]
    /\ hookChanges = 0
    /\ hookFaults = 0

-----------------------------------------------------------------------------
(* Endpoints *)

Stored(e) == hookEndpoint[e].state \in {"active", "inactive"}

ActiveForEvent ==
    {e \in Endpoints : hookEndpoint[e].state = "active" /\ hookEndpoint[e].subscribed}

EndpointChange ==
    /\ hookChanges < MaxHookChanges
    /\ hookChanges' = hookChanges + 1

CreateEndpoint(e) ==
    /\ EndpointChange
    /\ hookEndpoint[e].state = "absent"
    /\ \E subscribed \in BOOLEAN :
          hookEndpoint' = [hookEndpoint EXCEPT ![e] = [state |-> "active", subscribed |-> subscribed]]
    /\ UNCHANGED <<hookJob, hookRun, hookRows, hookAccepted, hookSent, hookFaults>>

UpdateEndpoint(e) ==
    /\ EndpointChange
    /\ Stored(e)
    /\ \E state \in {"active", "inactive"}, subscribed \in BOOLEAN :
          hookEndpoint' = [hookEndpoint EXCEPT ![e] = [state |-> state, subscribed |-> subscribed]]
    /\ UNCHANGED <<hookJob, hookRun, hookRows, hookAccepted, hookSent, hookFaults>>

\* The endpoint's deliveries go with it (onDelete: Cascade).
DeleteEndpoint(e) ==
    /\ EndpointChange
    /\ Stored(e)
    /\ hookEndpoint' = [hookEndpoint EXCEPT ![e].state = "deleted"]
    /\ hookRows' = [c \in Callers |-> [hookRows[c] EXCEPT ![e] = [s \in DeliveryStatus |-> 0]]]
    /\ UNCHANGED <<hookJob, hookRun, hookAccepted, hookSent, hookFaults>>

-----------------------------------------------------------------------------
(* Jobs and tests *)

MayCall ==
    Cardinality({j \in HookJobs : hookJob[j] # NoJob} \cup
                {t \in HookTests : hookRun[t] # NotRunning}) < MaxCallers

Dispatch(j) ==
    /\ MayCall
    /\ hookJob[j].state = "none"
    /\ hookJob' = [hookJob EXCEPT ![j] = Added(@)]
    /\ UNCHANGED <<hookEndpoint, hookRun, hookRows, hookAccepted, hookSent, hookChanges, hookFaults>>

TakeHookJob(j) ==
    /\ hookJob[j].state = "waiting"
    /\ hookJob' = [hookJob EXCEPT ![j] = Taken(@)]
    /\ hookRun' = [hookRun EXCEPT ![j] = [NotRunning EXCEPT !.pc = "list"]]
    /\ UNCHANGED <<hookEndpoint, hookRows, hookAccepted, hookSent, hookChanges, hookFaults>>

\* The run ends; what it listed is kept for the properties.
Rests(c) == [hookRun[c] EXCEPT !.pc = "idle", !.todo = <<>>, !.answer = "none", !.tries = 0]

CompleteHookJob(j) ==
    /\ hookJob' = [hookJob EXCEPT ![j] = Succeeded(@)]
    /\ hookRun' = [hookRun EXCEPT ![j] = Rests(j)]

\* An exception leaves deliverOnce: a job's attempt fails, a test's request ends.
Throw(c) ==
    /\ hookJob' = IF c \in HookJobs THEN [hookJob EXCEPT ![c] = AttemptFailed(@)] ELSE hookJob
    /\ hookRun' = [hookRun EXCEPT ![c] = Rests(c)]

\* The flag, then the endpoints in whatever order the query returns them.
ListEndpoints(j) ==
    /\ hookRun[j].pc = "list"
    /\ \E enabled \in BOOLEAN :
          IF enabled /\ ActiveForEvent # {}
          THEN /\ \E order \in [1..Cardinality(ActiveForEvent) -> ActiveForEvent] :
                     /\ ActiveForEvent \subseteq {order[i] : i \in DOMAIN order}
                     /\ hookRun' = [hookRun EXCEPT ![j].pc = "deliver", ![j].todo = order,
                                                   ![j].listed = ActiveForEvent]
               /\ UNCHANGED hookJob
          ELSE CompleteHookJob(j)
    /\ UNCHANGED <<hookEndpoint, hookRows, hookAccepted, hookSent, hookChanges, hookFaults>>

StartTest(t, e) ==
    /\ MayCall
    /\ hookRun[t] = NotRunning
    /\ Stored(e)
    /\ hookRun' = [hookRun EXCEPT ![t] = [NotRunning EXCEPT !.pc = "deliver", !.todo = <<e>>,
                                                            !.listed = {e}, !.tries = 1]]
    /\ UNCHANGED <<hookEndpoint, hookJob, hookRows, hookAccepted, hookSent, hookChanges, hookFaults>>

-----------------------------------------------------------------------------
(* deliverOnce *)

Target(c) == Head(hookRun[c].todo)

\* The row's foreign key refuses an endpoint that was deleted meanwhile.
CreateDelivery(c) ==
    /\ hookRun[c].pc = "deliver"
    /\ IF Stored(Target(c))
       THEN /\ hookRows' = [hookRows EXCEPT ![c][Target(c)]["PENDING"] = @ + 1]
            /\ hookRun' = [hookRun EXCEPT ![c].pc = "post"]
            /\ UNCHANGED hookJob
       ELSE Throw(c) /\ UNCHANGED hookRows
    /\ UNCHANGED <<hookEndpoint, hookAccepted, hookSent, hookChanges, hookFaults>>

\* An answer that does not arrive in time is handled as an exception.
Post(c) ==
    /\ hookRun[c].pc = "post"
    /\ \E answer \in Answers :
          /\ hookRun' = [hookRun EXCEPT ![c].answer = answer,
                                        ![c].pc = IF answer = "none" THEN "catch" ELSE "record"]
          /\ hookAccepted' = IF answer = "ok"
                             THEN [hookAccepted EXCEPT ![c][Target(c)] = @ + 1] ELSE hookAccepted
    /\ UNCHANGED <<hookEndpoint, hookJob, hookRows, hookSent, hookChanges, hookFaults>>

Settled(c, status) ==
    hookRows' = [hookRows EXCEPT ![c][Target(c)]["PENDING"] = @ - 1,
                                 ![c][Target(c)][status] = @ + 1]

\* Delivered: a job goes on with the next endpoint, a test is over.
NextEndpoint(c) ==
    /\ hookRun' = IF c \in HookTests THEN [hookRun EXCEPT ![c] = Rests(c)]
                  ELSE [hookRun EXCEPT ![c].todo = Tail(@), ![c].answer = "none",
                           ![c].pc = IF Tail(hookRun[c].todo) = <<>> THEN "report" ELSE "deliver"]
    /\ UNCHANGED hookJob

\* Faulty variant: a job goes on with the next endpoint after a failed delivery.
NotDeliveredGoesOn(c) == NextEndpoint(c)

\* deliverTest tries again what may succeed later; dispatchDirect throws.
NotDelivered(c) ==
    IF c \in HookTests /\ hookRun[c].answer \in {"busy", "none"} /\ hookRun[c].tries < MaxTestAttempts
    THEN /\ hookRun' = [hookRun EXCEPT ![c].pc = "deliver", ![c].answer = "none",
                                       ![c].tries = @ + 1]
         /\ UNCHANGED hookJob
    ELSE Throw(c)

\* Updating the row of a deleted endpoint fails, inside the try block.
RecordAnswer(c) ==
    /\ hookRun[c].pc = "record"
    /\ IF ~Stored(Target(c))
       THEN hookRun' = [hookRun EXCEPT ![c].pc = "catch"] /\ UNCHANGED <<hookJob, hookRows>>
       ELSE IF hookRun[c].answer = "ok"
            THEN Settled(c, "DELIVERED") /\ NextEndpoint(c)
            ELSE Settled(c, "FAILED") /\ NotDelivered(c)
    /\ UNCHANGED <<hookEndpoint, hookAccepted, hookSent, hookChanges, hookFaults>>

\* Faulty variant: whatever reached the catch block counts as delivered.
CatchAnswerDelivered(c) ==
    /\ hookRun[c].pc = "catch"
    /\ IF Stored(Target(c))
       THEN Settled(c, "DELIVERED") /\ NextEndpoint(c)
       ELSE Throw(c) /\ UNCHANGED hookRows
    /\ UNCHANGED <<hookEndpoint, hookAccepted, hookSent, hookChanges, hookFaults>>

\* No answer, or one that could not be recorded: FAILED, without a status.
CatchAnswer(c) ==
    /\ hookRun[c].pc = "catch"
    /\ IF Stored(Target(c))
       THEN Settled(c, "FAILED") /\ NotDelivered(c)
       ELSE Throw(c) /\ UNCHANGED hookRows
    /\ UNCHANGED <<hookEndpoint, hookAccepted, hookSent, hookChanges, hookFaults>>

\* recordSideEffect, after the last endpoint.
ReportDispatch(j) ==
    /\ hookRun[j].pc = "report"
    /\ hookSent' = [hookSent EXCEPT ![j] = @ + 1]
    /\ CompleteHookJob(j)
    /\ UNCHANGED <<hookEndpoint, hookRows, hookAccepted, hookChanges, hookFaults>>

ReportDeadHookJob(j) ==
    /\ hookJob[j].state = "failed"
    /\ hookJob' = [hookJob EXCEPT ![j] = DeadLettered(@)]
    /\ UNCHANGED <<hookEndpoint, hookRun, hookRows, hookAccepted, hookSent, hookChanges, hookFaults>>

-----------------------------------------------------------------------------
(* Faults *)

HookFault(kind) ==
    /\ kind \in HookFaultKinds
    /\ hookFaults < MaxHookFaults
    /\ hookFaults' = hookFaults + 1

\* Only the update of an answer is inside the try block.
HookStatementFails(c) ==
    /\ HookFault("statement")
    /\ hookRun[c].pc \in {"list", "deliver", "record", "catch", "report"}
    /\ IF hookRun[c].pc = "record"
       THEN /\ hookRun' = [hookRun EXCEPT ![c].pc = "catch", ![c].answer = "none"]
            /\ UNCHANGED hookJob
       ELSE Throw(c)
    /\ UNCHANGED <<hookEndpoint, hookRows, hookAccepted, hookSent, hookChanges>>

\* The endpoint accepted, and its answer is lost or comes too late.
AnswerLost(c) ==
    /\ HookFault("answer")
    /\ hookRun[c].pc = "post"
    /\ hookRun' = [hookRun EXCEPT ![c].pc = "catch", ![c].answer = "none"]
    /\ hookAccepted' = [hookAccepted EXCEPT ![c][Target(c)] = @ + 1]
    /\ UNCHANGED <<hookEndpoint, hookJob, hookRows, hookSent, hookChanges>>

DeadHookJobUnreported(j) ==
    /\ HookFault("listener")
    /\ hookJob[j].state = "failed"
    /\ hookJob' = [hookJob EXCEPT ![j].state = "unreported"]
    /\ UNCHANGED <<hookEndpoint, hookRun, hookRows, hookAccepted, hookSent, hookChanges>>

\* The process of a job or of a test dies.
HookCrash(c) ==
    /\ HookFault("crash")
    /\ hookRun[c].pc # "idle"
    /\ hookRun' = [hookRun EXCEPT ![c] = Rests(c)]
    /\ IF c \in HookJobs
       THEN \E job \in Stalled(hookJob[c]) : hookJob' = [hookJob EXCEPT ![c] = job]
       ELSE UNCHANGED hookJob
    /\ UNCHANGED <<hookEndpoint, hookRows, hookAccepted, hookSent, hookChanges>>

-----------------------------------------------------------------------------
(* The specification *)

HookJobStep(j) ==
    TakeHookJob(j) \/ ListEndpoints(j) \/ ReportDispatch(j) \/ ReportDeadHookJob(j)

DeliveryStep(c) == CreateDelivery(c) \/ Post(c) \/ RecordAnswer(c) \/ CatchAnswer(c)

WebhookNext ==
    \/ \E e \in Endpoints : CreateEndpoint(e) \/ UpdateEndpoint(e) \/ DeleteEndpoint(e)
    \/ \E j \in HookJobs : Dispatch(j) \/ HookJobStep(j) \/ DeadHookJobUnreported(j)
    \/ \E t \in HookTests, e \in Endpoints : StartTest(t, e)
    \/ \E c \in Callers :
          DeliveryStep(c) \/ HookStatementFails(c) \/ AnswerLost(c) \/ HookCrash(c)

\* Workers take jobs and go on with them; nobody has to dispatch, test or fail.
WebhookFairness ==
    /\ \A j \in HookJobs : WF_hookVars(HookJobStep(j))
    /\ \A c \in Callers : WF_hookVars(DeliveryStep(c))

WebhookSpec == WebhookInit /\ [][WebhookNext]_hookVars /\ WebhookFairness

-----------------------------------------------------------------------------
(* Correctness *)

\* The caller knows that its endpoint accepted and has not recorded it yet.
Recording(c, e) ==
    /\ hookRun[c].pc \in {"record", "catch"}
    /\ Target(c) = e

\* Acceptances of e that no row of the caller tells, the one being recorded aside.
Untold(c, e) ==
    hookAccepted[c][e] - hookRows[c][e]["DELIVERED"]
        - (IF Recording(c, e) /\ hookRun[c].answer = "ok" THEN 1 ELSE 0)

Kept == {e \in Endpoints : hookEndpoint[e].state # "deleted"}

UntoldAcceptances ==
    UNION {{<<p, i>> : i \in 1..Untold(p[1], p[2])} : p \in Callers \X Kept}

\* A delivery is DELIVERED only if the endpoint accepted it, and one that was
\* accepted is told otherwise (FAILED by the catch block, or PENDING for good)
\* only because of a fault, each of which explains one.
AcceptedIsTold ==
    /\ \A c \in Callers, e \in Endpoints : hookRows[c][e]["DELIVERED"] <= hookAccepted[c][e]
    /\ Cardinality(UntoldAcceptances) <= hookFaults

\* A completed job has delivered the event to every endpoint of its last run,
\* whichever of them refused it before, unless the endpoint has been deleted.
CompletedReachedAll ==
    \A j \in HookJobs : hookJob[j].state = "completed" =>
        \A e \in hookRun[j].listed :
            hookEndpoint[e].state = "deleted" \/ hookRows[j][e]["DELIVERED"] > 0

\* Refusals and deleted endpoints use attempts up, too; a dispatch that ends
\* without a dead letter has lost its listener's call or two workers.
DispatchesAccounted == \A j \in HookJobs : Accounted(hookJob[j], hookFaults, hookFaults)

\* Every dispatched event is delivered, put into the dead-letter queue when the
\* attempts are used up, or given up by BullMQ.
EveryDispatchEnds == \A j \in HookJobs : hookJob[j].state = "waiting" ~> Ended(hookJob[j])
==============================================================================
