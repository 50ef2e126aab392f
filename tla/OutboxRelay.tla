----------------------------- MODULE OutboxRelay -----------------------------
(***************************************************************************)
(* The transactional outbox of SupportFlow: use cases commit domain events *)
(* as rows of the outbox_events table, a relay finds the PENDING rows and  *)
(* processes publish them on the in-process event bus.                     *)
(*                                                                         *)
(* Both deployments are modelled.  With QueueEnabled the relay and the     *)
(* publications are BullMQ jobs on the outbox queue, run by any process;   *)
(* without it the request that committed the event relays inline.          *)
(*                                                                         *)
(* A step is the code between two awaits.  Every call to PostgreSQL or     *)
(* Redis may fail, and a process may crash at every await; FaultKinds says *)
(* which of those faults a run admits and MaxFaults how many.              *)
(***************************************************************************)
EXTENDS Integers, Sequences, FiniteSets

CONSTANTS
    Events,         \* the domain events (outbox row ids)
    Procs,          \* concurrent executors: API requests and queue workers
    QueueEnabled,   \* env.QUEUE_ENABLED
    MaxAttempts,    \* env.OUTBOX_MAX_ATTEMPTS
    BatchSize,      \* env.OUTBOX_RELAY_BATCH_SIZE
    JobAttempts,    \* env.QUEUE_DEFAULT_ATTEMPTS, attempts of one BullMQ job
    KeepCompleted,  \* removeOnComplete.count of the outbox queue
    MaxRelayJobs,   \* bound: relay jobs waiting at the same time
    FaultKinds,     \* which faults may happen
    MaxFaults,      \* bound: how many faults may happen
    NoEvent         \* model value: a process that is working on no event

AllFaultKinds ==
    { "batch",   \* findPendingBatch throws
      "claim",   \* claimForProcessing throws before its update
      "read",    \* claimForProcessing throws between its update and its read
      "mark",    \* markProcessed throws and leaves the row alone
      "catch",   \* markFailed / markPendingForRetry throws, row left alone
      "reply",   \* one of these three updates commits but its reply is lost
      "redis",   \* adding a job to a BullMQ queue throws
      "crash" }  \* the process dies

ASSUME ConstantsAssumption ==
    /\ QueueEnabled \in BOOLEAN
    /\ MaxAttempts \in Nat \ {0}
    /\ BatchSize \in Nat \ {0}
    /\ JobAttempts \in Nat \ {0}
    /\ KeepCompleted \in Nat \ {0}
    /\ MaxRelayJobs \in Nat \ {0}
    /\ MaxFaults \in Nat
    /\ FaultKinds \subseteq AllFaultKinds
    /\ NoEvent \notin Events
    /\ "relay" \notin Events
    /\ IsFiniteSet(Events)

VARIABLES
    rows,       \* the outbox_events table
    job,        \* the BullMQ job stored under each event's id
    completed,  \* BullMQ's completed set, oldest first
    relayJobs,  \* relay jobs waiting in the queue
    dlq,        \* the dead-letter queue of the outbox queue
    proc,       \* the local state of every executor
    published,  \* how many times each event went through EventBus.publish
    faults      \* faults so far (bounded by MaxFaults)

vars == <<rows, job, completed, relayJobs, dlq, proc, published, faults>>
queueVars == <<job, completed, relayJobs, dlq>>

-----------------------------------------------------------------------------
(* Types *)

\* ABSENT: the transaction that writes the row has not committed.
RowStatus == {"ABSENT", "PENDING", "PROCESSING", "PROCESSED", "FAILED"}

Row == [status : RowStatus, attempts : Nat, createdAt : Nat]

\* failing: stored as failed, while the listener's dead letter is on its way.
JobState == {"none", "waiting", "active", "completed", "failing", "failed"}

\* The attempts it has made, and whether it has lost a worker before.
Job == [state : JobState, made : Nat, stalled : BOOLEAN]

NoJob == [state |-> "none", made |-> 0, stalled |-> FALSE]

Pc == {"idle", "schedule", "batch", "relay", "claim", "read", "publish",
       "mark", "catch", "deadletter"}

Proc == [pc : Pc, ev : Events \cup {NoEvent}, seen : Nat, todo : SUBSET Events]

IdleProc == [pc |-> "idle", ev |-> NoEvent, seen |-> 0, todo |-> {}]

DeadLetter == Events \X {"outbox-dead-letter", "dead-letter"}

TypeOK ==
    /\ rows \in [Events -> Row]
    /\ job \in [Events -> Job]
    /\ completed \in Seq(Events \cup {"relay"})
    /\ relayJobs \in 0..MaxRelayJobs
    /\ dlq \subseteq DeadLetter
    /\ proc \in [Procs -> Proc]
    /\ published \in [Events -> Nat]
    /\ faults \in 0..MaxFaults

Init ==
    /\ rows = [e \in Events |-> [status |-> "ABSENT", attempts |-> 0, createdAt |-> 0]]
    /\ job = [e \in Events |-> NoJob]
    /\ completed = <<>>
    /\ relayJobs = 0
    /\ dlq = {}
    /\ proc = [p \in Procs |-> IdleProc]
    /\ published = [e \in Events |-> 0]
    /\ faults = 0

-----------------------------------------------------------------------------
(* The repository *)

Committed == {e \in Events : rows[e].status # "ABSENT"}

\* Faulty variant: the query leaves the last attempt out.
PendingBatchWithoutLastAttempt ==
    {e \in Events : rows[e].status = "PENDING" /\ rows[e].attempts < MaxAttempts - 1}

\* findPendingBatch: the oldest BatchSize rows that are PENDING with attempts
\* left.
PendingBatch ==
    LET pending == {e \in Events : /\ rows[e].status = "PENDING"
                                   /\ rows[e].attempts < MaxAttempts}
    IN  {e \in pending :
            Cardinality({f \in pending : rows[f].createdAt < rows[e].createdAt})
                < BatchSize}

\* orderBy createdAt asc: e is the next event of the batch S.
IsOldest(e, S) == e \in S /\ \A f \in S : rows[e].createdAt <= rows[f].createdAt

\* Faulty variant: a claim without its where clause.
ClaimableUnconditionally(e) == rows[e].status # "ABSENT"

\* updateMany where status = PENDING, the guard of claimForProcessing.
Claimable(e) == rows[e].status = "PENDING"

SetStatus(e, status) == rows' = [rows EXCEPT ![e].status = status]

SetOutcome(e, status, attempts) ==
    rows' = [rows EXCEPT ![e].status = status, ![e].attempts = attempts]

-----------------------------------------------------------------------------
(* The BullMQ outbox queue *)

\* Queue.add of a relay job.  Relay jobs are interchangeable, so the bound
\* coalesces the ones above MaxRelayJobs.
OneMoreRelayJob == IF relayJobs < MaxRelayJobs THEN relayJobs + 1 ELSE relayJobs

\* Faulty variant: the job is added without its jobId.
AddOutboxJobWithoutId(e) ==
    job' = [job EXCEPT ![e] = [NoJob EXCEPT !.state = "waiting"]]

\* Queue.add under jobId e: a job of that id that is still stored, finished or
\* not, makes the call a no-op.
AddOutboxJob(e) ==
    job' = IF job[e].state = "none"
           THEN [job EXCEPT ![e] = [NoJob EXCEPT !.state = "waiting"]]
           ELSE job

\* The completed set after a job named j ended, cut to KeepCompleted.
AfterCompletion(j) ==
    IF Len(completed) < KeepCompleted
    THEN Append(completed, j)
    ELSE Append(Tail(completed), j)

\* The jobs removed from Redis by that cut.
Evicted == IF Len(completed) < KeepCompleted THEN {} ELSE {Head(completed)}

CompleteJob(j) ==
    /\ completed' = AfterCompletion(j)
    /\ job' = [e \in Events |->
                  IF e = j THEN [job[e] EXCEPT !.state = "completed"]
                  ELSE IF e \in Evicted THEN NoJob ELSE job[e]]

\* Faulty variant: the listener still waits for an attempt after the last one.
FailJobListenerLate(e) ==
    LET made == job[e].made + 1 IN
    job' = [job EXCEPT ![e].state = IF made < JobAttempts THEN "waiting" ELSE "failed",
                       ![e].made  = made]

\* A job that threw is retried while attempts are left, then kept as failed.
FailJob(e) ==
    LET made == job[e].made + 1 IN
    job' = [job EXCEPT ![e].state = IF made < JobAttempts THEN "waiting" ELSE "failing",
                       ![e].made  = made]

\* The worker of e's job died.  createWorker leaves maxStalledCount at 1: BullMQ
\* gives a job back once and fails it the second time, whatever attempts it has
\* left.  The failed listener returns early while some are left; whether the
\* stall itself counts as the last one is up to the version of BullMQ.
StallJob(e) ==
    \/ /\ ~job[e].stalled
       /\ job' = [job EXCEPT ![e].state = "waiting", ![e].stalled = TRUE]
    \/ /\ job[e].stalled
       /\ job' = [job EXCEPT ![e].state = "failed"]
    \/ job[e].stalled /\ job[e].made + 1 >= JobAttempts /\ FailJob(e)

-----------------------------------------------------------------------------
(* Control flow of a process *)

Goto(p, pc) == proc' = [proc EXCEPT ![p].pc = pc]

ToIdle(p) == proc' = [proc EXCEPT ![p] = IdleProc]

\* processEvent is over without an exception: the job completes, or the inline
\* relay goes on with its batch.
Returns(p) ==
    IF QueueEnabled
    THEN /\ CompleteJob(proc[p].ev)
         /\ ToIdle(p)
         /\ UNCHANGED <<relayJobs, dlq>>
    ELSE /\ proc' = [proc EXCEPT ![p].pc = "relay", ![p].ev = NoEvent, ![p].seen = 0]
         /\ UNCHANGED queueVars

\* processEvent threw: the job fails, or the inline relay logs and goes on.
Throws(p) ==
    IF QueueEnabled
    THEN /\ FailJob(proc[p].ev)
         /\ ToIdle(p)
         /\ UNCHANGED <<completed, relayJobs, dlq>>
    ELSE /\ proc' = [proc EXCEPT ![p].pc = "relay", ![p].ev = NoEvent, ![p].seen = 0]
         /\ UNCHANGED queueVars

NoFault == UNCHANGED faults

Fault(kind) ==
    /\ kind \in FaultKinds
    /\ faults < MaxFaults
    /\ faults' = faults + 1

-----------------------------------------------------------------------------
(* A request: its transaction, then scheduleRelay *)

\* $transaction(aggregate + history + enqueueInTransaction).  The order of commits
\* stands for createdAt.
Commit(p, e) ==
    /\ proc[p].pc = "idle"
    /\ rows[e].status = "ABSENT"
    /\ rows' = [rows EXCEPT ![e] = [status |-> "PENDING", attempts |-> 0,
                                    createdAt |-> Cardinality(Committed) + 1]]
    /\ Goto(p, IF QueueEnabled THEN "schedule" ELSE "batch")
    /\ UNCHANGED <<queueVars, published>> /\ NoFault

\* scheduleRelay with a queue; on a Redis error the request fails although its
\* transaction has committed.
ScheduleRelay(p) ==
    /\ proc[p].pc = "schedule"
    /\ ToIdle(p)
    /\ relayJobs' = OneMoreRelayJob
    /\ UNCHANGED <<rows, job, completed, dlq, published>> /\ NoFault

ScheduleRelayThrows(p) ==
    /\ proc[p].pc = "schedule"
    /\ Fault("redis")
    /\ ToIdle(p)
    /\ UNCHANGED <<rows, queueVars, published>>

-----------------------------------------------------------------------------
(* The queue's own steps *)

\* The repeatable job relay-outbox-events fires.
RelayTick ==
    /\ QueueEnabled
    /\ relayJobs < MaxRelayJobs
    /\ relayJobs' = relayJobs + 1
    /\ UNCHANGED <<rows, job, completed, dlq, proc, published>> /\ NoFault

\* Faulty variant: a worker starts on an empty queue.
TakeRelayJobUnchecked(p) ==
    /\ proc[p].pc = "idle"
    /\ QueueEnabled
    /\ relayJobs' = relayJobs - 1
    /\ Goto(p, "batch")
    /\ UNCHANGED <<rows, job, completed, dlq, published>> /\ NoFault

TakeRelayJob(p) ==
    /\ proc[p].pc = "idle"
    /\ relayJobs > 0
    /\ relayJobs' = relayJobs - 1
    /\ Goto(p, "batch")
    /\ UNCHANGED <<rows, job, completed, dlq, published>> /\ NoFault

\* The failed listener of createWorker adds the dead letter of a job that used up
\* its attempts.  Nobody waits for it: the addition may fail, or the worker die.
ReportJob(e) ==
    /\ job[e].state = "failing"
    /\ job' = [job EXCEPT ![e].state = "failed"]
    /\ dlq' = dlq \cup {<<e, "dead-letter">>}
    /\ UNCHANGED <<rows, completed, relayJobs, proc, published>> /\ NoFault

ReportJobFails(e) ==
    /\ job[e].state = "failing"
    /\ Fault("redis") \/ Fault("crash")
    /\ job' = [job EXCEPT ![e].state = "failed"]
    /\ UNCHANGED <<rows, completed, relayJobs, dlq, proc, published>>

TakeOutboxJob(p, e) ==
    /\ proc[p].pc = "idle"
    /\ job[e].state = "waiting"
    /\ job' = [job EXCEPT ![e].state = "active"]
    /\ proc' = [proc EXCEPT ![p].pc = "claim", ![p].ev = e]
    /\ UNCHANGED <<rows, completed, relayJobs, dlq, published>> /\ NoFault

-----------------------------------------------------------------------------
(* relayPendingBatch *)

FindPendingBatch(p) ==
    /\ proc[p].pc = "batch"
    /\ proc' = [proc EXCEPT ![p].pc = "relay", ![p].todo = PendingBatch]
    /\ UNCHANGED <<rows, queueVars, published>> /\ NoFault

\* The relay job is retried by BullMQ; an inline request just fails.
FindPendingBatchThrows(p) ==
    /\ proc[p].pc = "batch"
    /\ Fault("batch")
    /\ ToIdle(p)
    /\ relayJobs' = IF QueueEnabled THEN OneMoreRelayJob ELSE relayJobs
    /\ UNCHANGED <<rows, job, completed, dlq, published>>

\* One turn of the loop over the batch.
RelayEvent(p, e) ==
    /\ proc[p].pc = "relay"
    /\ IsOldest(e, proc[p].todo)
    /\ IF QueueEnabled
       THEN /\ AddOutboxJob(e)
            /\ proc' = [proc EXCEPT ![p].todo = @ \ {e}]
       ELSE /\ proc' = [proc EXCEPT ![p].pc = "claim", ![p].ev = e,
                                    ![p].todo = @ \ {e}]
            /\ UNCHANGED job
    /\ UNCHANGED <<rows, completed, relayJobs, dlq, published>> /\ NoFault

\* addOutboxJob throws: the loop logs a warning and takes the next event.
RelayEventThrows(p, e) ==
    /\ QueueEnabled
    /\ proc[p].pc = "relay"
    /\ IsOldest(e, proc[p].todo)
    /\ Fault("redis")
    /\ proc' = [proc EXCEPT ![p].todo = @ \ {e}]
    /\ UNCHANGED <<rows, queueVars, published>>

RelayDone(p) ==
    /\ proc[p].pc = "relay"
    /\ proc[p].todo = {}
    /\ IF QueueEnabled THEN CompleteJob("relay") ELSE UNCHANGED <<job, completed>>
    /\ ToIdle(p)
    /\ UNCHANGED <<rows, relayJobs, dlq, published>> /\ NoFault

-----------------------------------------------------------------------------
(* processEvent *)

\* The update of claimForProcessing.
Claim(p) ==
    LET e == proc[p].ev IN
    /\ proc[p].pc = "claim"
    /\ IF Claimable(e)
       THEN /\ SetStatus(e, "PROCESSING")
            /\ Goto(p, "read")
            /\ UNCHANGED queueVars
       ELSE /\ Returns(p)
            /\ UNCHANGED rows
    /\ UNCHANGED published /\ NoFault

ClaimThrows(p) ==
    /\ proc[p].pc = "claim"
    /\ Fault("claim")
    /\ Throws(p)
    /\ UNCHANGED <<rows, published>>

\* Faulty variant: the claim is acknowledged and the publication forgotten.
ReadClaimedForgetsPublish(p) ==
    /\ proc[p].pc = "read"
    /\ proc' = [proc EXCEPT ![p].pc = "mark",
                            ![p].seen = rows[proc[p].ev].attempts]
    /\ UNCHANGED <<rows, queueVars, published>> /\ NoFault

\* The findUnique of claimForProcessing, whose row processEvent works on.
ReadClaimed(p) ==
    /\ proc[p].pc = "read"
    /\ proc' = [proc EXCEPT ![p].pc = "publish",
                            ![p].seen = rows[proc[p].ev].attempts]
    /\ UNCHANGED <<rows, queueVars, published>> /\ NoFault

\* It is outside the try block: the exception leaves processEvent.
ReadClaimedThrows(p) ==
    /\ proc[p].pc = "read"
    /\ Fault("read")
    /\ Throws(p)
    /\ UNCHANGED <<rows, published>>

\* eventBus.publish waits for all subscribers and swallows their rejections: it
\* always returns.
Publish(p) ==
    LET e == proc[p].ev IN
    /\ proc[p].pc = "publish"
    /\ published' = [published EXCEPT ![e] = @ + 1]
    /\ Goto(p, "mark")
    /\ UNCHANGED <<rows, queueVars>> /\ NoFault

MarkProcessed(p) ==
    /\ proc[p].pc = "mark"
    /\ SetStatus(proc[p].ev, "PROCESSED")
    /\ Returns(p)
    /\ UNCHANGED published /\ NoFault

MarkProcessedThrows(p) ==
    /\ proc[p].pc = "mark"
    /\ \/ Fault("mark") /\ UNCHANGED rows
       \/ Fault("reply") /\ SetStatus(proc[p].ev, "PROCESSED")
    /\ Goto(p, "catch")
    /\ UNCHANGED <<queueVars, published>>

\* Faulty variants: the failure is not counted, one attempt too many is allowed,
\* the failure is logged without an update.
RecordFailureUncounted(p) == SetOutcome(proc[p].ev, "PENDING", proc[p].seen)

RecordFailureOneTooMany(p) ==
    LET attempts == proc[p].seen + 1 IN
    SetOutcome(proc[p].ev,
               IF attempts > MaxAttempts THEN "FAILED" ELSE "PENDING",
               attempts)

RecordFailureOnlyLogged(p) == UNCHANGED rows

\* The catch block's update: markFailed or markPendingForRetry.
RecordFailure(p) ==
    LET attempts == proc[p].seen + 1 IN
    SetOutcome(proc[p].ev,
               IF attempts >= MaxAttempts THEN "FAILED" ELSE "PENDING",
               attempts)

\* Faulty variant: an exhausted event is not dead-lettered.
CatchFailureWithoutDeadLetter(p) ==
    /\ proc[p].pc = "catch"
    /\ RecordFailure(p)
    /\ Returns(p)
    /\ UNCHANGED published /\ NoFault

CatchFailure(p) ==
    /\ proc[p].pc = "catch"
    /\ RecordFailure(p)
    /\ IF QueueEnabled /\ proc[p].seen + 1 >= MaxAttempts
       THEN Goto(p, "deadletter") /\ UNCHANGED queueVars
       ELSE Returns(p)
    /\ UNCHANGED published /\ NoFault

CatchFailureThrows(p) ==
    /\ proc[p].pc = "catch"
    /\ \/ Fault("catch") /\ UNCHANGED rows
       \/ Fault("reply") /\ RecordFailure(p)
    /\ Throws(p)
    /\ UNCHANGED published

\* addOutboxDeadLetterJob, after which the outbox job completes.
AddDeadLetterJob(p) ==
    /\ proc[p].pc = "deadletter"
    /\ dlq' = dlq \cup {<<proc[p].ev, "outbox-dead-letter">>}
    /\ CompleteJob(proc[p].ev)
    /\ ToIdle(p)
    /\ UNCHANGED <<rows, relayJobs, published>> /\ NoFault

AddDeadLetterJobThrows(p) ==
    /\ proc[p].pc = "deadletter"
    /\ Fault("redis")
    /\ Throws(p)
    /\ UNCHANGED <<rows, published>>

-----------------------------------------------------------------------------
(* A crash *)

\* The job of a dead worker stalls.  How often a relay job has is not told apart:
\* it goes back to the queue or, the second time, not.
Crash(p) ==
    /\ proc[p].pc # "idle"
    /\ Fault("crash")
    /\ ToIdle(p)
    /\ IF QueueEnabled /\ proc[p].ev # NoEvent THEN StallJob(proc[p].ev) ELSE UNCHANGED job
    /\ relayJobs' \in IF QueueEnabled /\ proc[p].pc \in {"batch", "relay"}
                      THEN {relayJobs, OneMoreRelayJob}
                      ELSE {relayJobs}
    /\ UNCHANGED <<rows, completed, dlq, published>>

-----------------------------------------------------------------------------
(* The specification *)

\* What the runtime executes without any fault once the process has work.
Run(p) ==
    \/ ScheduleRelay(p) \/ FindPendingBatch(p) \/ RelayDone(p)
    \/ \E e \in Events : RelayEvent(p, e)
    \/ Claim(p) \/ ReadClaimed(p) \/ Publish(p) \/ MarkProcessed(p)
    \/ CatchFailure(p) \/ AddDeadLetterJob(p)

Faulty(p) ==
    \/ ScheduleRelayThrows(p) \/ FindPendingBatchThrows(p)
    \/ \E e \in Events : RelayEventThrows(p, e)
    \/ ClaimThrows(p) \/ ReadClaimedThrows(p) \/ MarkProcessedThrows(p)
    \/ CatchFailureThrows(p) \/ AddDeadLetterJobThrows(p) \/ Crash(p)

Next ==
    \/ RelayTick
    \/ \E e \in Events : ReportJob(e) \/ ReportJobFails(e)
    \/ \E p \in Procs :
          \/ TakeRelayJob(p)
          \/ \E e \in Events : Commit(p, e) \/ TakeOutboxJob(p, e)
          \/ Run(p)
          \/ Faulty(p)

Spec == Init /\ [][Next]_vars

(***************************************************************************)
(* Fairness.  A process that has something to execute executes it; the     *)
(* repeatable job keeps firing; a listener runs; and since BullMQ serves a queue in order   *)
(* and a worker that ends a job asks for the next, a job that waits is     *)
(* eventually taken.  Nothing makes a client send a request, and no fault  *)
(* has to happen.                                                          *)
(***************************************************************************)
Fairness ==
    /\ \A p \in Procs : WF_vars(Run(p))
    /\ WF_vars(RelayTick)
    /\ \A e \in Events : WF_vars(ReportJob(e))
    /\ SF_vars(\E p \in Procs : TakeRelayJob(p))
    /\ \A e \in Events : SF_vars(\E p \in Procs : TakeOutboxJob(p, e))

FairSpec == Spec /\ Fairness
-----------------------------------------------------------------------------
(* Correctness *)

\* p has claimed e and has not recorded an outcome yet.
OwnerPc == {"read", "publish", "mark", "catch"}

Owns(p, e) == proc[p].ev = e /\ proc[p].pc \in OwnerPc

\* The claim in claimForProcessing is a lock: whatever relays, jobs, retries
\* and crashes overlap, no two processes work on an event at the same time, and
\* nobody else can claim it meanwhile.
ExclusiveClaim ==
    /\ \A e \in Events : \A p, q \in Procs : Owns(p, e) /\ Owns(q, e) => p = q
    /\ \A e \in Events : \A p \in Procs : Owns(p, e) => ~Claimable(e)

\* The attempts column counts publications: a retry was preceded by exactly one
\* publication, so subscribers see an event at most MaxAttempts times, a
\* PROCESSED event was published, and a FAILED one was published MaxAttempts
\* times although processEvent dead-letters it.
PublicationsAccounted ==
    \A e \in Events :
        /\ published[e] \in {rows[e].attempts, rows[e].attempts + 1}
        /\ published[e] <= MaxAttempts
        /\ rows[e].status = "PROCESSED" => published[e] > 0
        /\ rows[e].status = "FAILED" => published[e] = MaxAttempts

\* No PENDING row falls out of findPendingBatch, whose query skips rows that
\* have used their attempts: the row that uses the last one becomes FAILED.
PendingIsRelayable ==
    \A e \in Events : rows[e].status = "PENDING" => rows[e].attempts < MaxAttempts

\* With the queue, the job stored under an event's id is active exactly while
\* one process runs it; a crash, a retry or an eviction from the completed set
\* never lets a second one in.
OneRunnerPerJob ==
    QueueEnabled =>
        \A e \in Events :
            LET runners == {p \in Procs : proc[p].ev = e} IN
            /\ \A p, q \in runners : p = q
            /\ runners # {} <=> job[e].state = "active"

\* e's job has lost its worker twice.
LostToStalls(e) ==
    /\ job[e].stalled
    /\ "crash" \in FaultKinds /\ faults >= 2

\* Queue.add ignores the id of an event whose job is over and still stored, so a
\* PENDING event with such a job is published no more, or only after a thousand
\* other jobs.  Nothing blocks an event for free or without a trace: a job kept as
\* failed lost every attempt to a fault and has its dead letter, unless one fault
\* more took the listener or the job lost its worker twice, and a PENDING row
\* behind a completed job counts the failed publication that the job swallowed.
BlockedEventsExplained ==
    \A e \in Events :
        /\ job[e].state = "failed" =>
              \/ <<e, "dead-letter">> \in dlq /\ faults >= JobAttempts
              \/ FaultKinds \cap {"redis", "crash"} # {} /\ faults > JobAttempts
              \/ LostToStalls(e)
        /\ job[e].state = "completed" /\ rows[e].status = "PENDING" => rows[e].attempts > 0

\* Only a process that is still working on it keeps a row PROCESSING, so no
\* event is stuck there.  True while an outage does not hit the few calls whose
\* failure leaves processEvent without an outcome (read, catch, crash).
NoOrphanClaim ==
    \A e \in Events :
        rows[e].status = "PROCESSING" => \E p \in Procs : Owns(p, e)

\* processEvent's dead letter: a FAILED row has its job in outbox-queue-dlq, or
\* the process that failed it is about to add it.
FailedIsDeadLettered ==
    QueueEnabled =>
        \A e \in Events :
            rows[e].status = "FAILED" =>
                \/ <<e, "outbox-dead-letter">> \in dlq
                \/ \E p \in Procs : proc[p].ev = e /\ proc[p].pc = "deadletter"

Settled(e) == rows[e].status \in {"PROCESSED", "FAILED"}

\* The statuses PROCESSED and FAILED are final: no late answer, stale batch or
\* retried job moves a settled row back.
SettledIsFinal ==
    [][\A e \in Events : Settled(e) => rows'[e] = rows[e]]_rows

\* Every committed event is eventually PROCESSED or FAILED.
EveryEventSettles ==
    \A e \in Events : rows[e].status # "ABSENT" ~> Settled(e)

(***************************************************************************)
(* The relay implements OutboxDelivery.                                    *)
(***************************************************************************)
DeliveryState ==
    [e \in Events |->
        CASE rows[e].status = "ABSENT"    -> "unborn"
          [] rows[e].status = "PENDING"   -> "due"
          [] rows[e].status = "PROCESSED" -> "done"
          [] rows[e].status = "FAILED"    -> "dead"
          [] OTHER -> IF published[e] > rows[e].attempts THEN "handed" ELSE "taken"]

Delivery == INSTANCE OutboxDelivery WITH state <- DeliveryState,
                                         deliveries <- published

\* Every step of the relay, the queue and the processes is a step of the promise
\* or invisible to it, as long as no reply of the database is lost.
ImplementsDelivery == Delivery!Spec

-----------------------------------------------------------------------------
(* The inductive invariant behind ExclusiveClaim and PublicationsAccounted *)

\* attempts and published agree with the status of the row.
RowAccounted(e) ==
    LET row == rows[e] IN
    /\ row.status = "ABSENT" => row.attempts = 0 /\ published[e] = 0
    /\ row.status = "PENDING" =>
          published[e] = row.attempts /\ row.attempts < MaxAttempts
    /\ row.status = "PROCESSING" =>
          /\ published[e] \in {row.attempts, row.attempts + 1}
          /\ row.attempts < MaxAttempts
    /\ row.status = "PROCESSED" =>
          published[e] = row.attempts + 1 /\ row.attempts < MaxAttempts
    /\ row.status = "FAILED" =>
          published[e] = row.attempts /\ row.attempts = MaxAttempts

\* What a process knows of the event it works on: before the publication the
\* row is PROCESSING, after it the publication is the one not yet counted, and
\* the attempts it read are still those of the row.  Only a lost reply to
\* markProcessed lets it handle a failure on a PROCESSED row.
ProcessInformed(p) ==
    LET e == proc[p].ev IN
    /\ proc[p].pc \in OwnerPc \cup {"claim", "deadletter"} => e \in Events
    /\ proc[p].pc \in {"read", "publish"} =>
          rows[e].status = "PROCESSING" /\ published[e] = rows[e].attempts
    /\ proc[p].pc \in {"mark", "catch"} => published[e] = rows[e].attempts + 1
    /\ proc[p].pc \in {"publish", "mark", "catch"} => proc[p].seen = rows[e].attempts
    /\ proc[p].pc = "mark" => rows[e].status = "PROCESSING"
    /\ proc[p].pc = "catch" =>
          \/ rows[e].status = "PROCESSING"
          \/ rows[e].status = "PROCESSED" /\ "reply" \in FaultKinds

IInv ==
    /\ TypeOK
    /\ \A e \in Events : RowAccounted(e)
    /\ \A p \in Procs : ProcessInformed(p)
    /\ \A e \in Events : \A p, q \in Procs : Owns(p, e) /\ Owns(q, e) => p = q

\* Of the queue's own bookkeeping the proof of OneRunnerPerJob needs that the
\* completed set lists the jobs stored as completed, each once, so that no other
\* job is ever cut off.
CompletedSetIsExact ==
    /\ Len(completed) <= KeepCompleted
    /\ \A e \in Events :
          LET places == {i \in 1..Len(completed) : completed[i] = e} IN
          /\ \A i, j \in places : i = j
          /\ places # {} <=> job[e].state = "completed"

\* The inductive invariant behind OneRunnerPerJob: a process holds an event
\* exactly while it is in processEvent, and without the queue nothing is ever
\* stored in it.
HoldsEvent(p) == proc[p].pc \in OwnerPc \cup {"claim", "deadletter"}

QueueInv ==
    /\ \A p \in Procs : proc[p].ev # NoEvent <=> HoldsEvent(p)
    /\ OneRunnerPerJob
    /\ CompletedSetIsExact
    /\ ~QueueEnabled =>
          /\ completed = <<>>
          /\ \A e \in Events : job[e].state = "none"
          /\ \A p \in Procs : proc[p].pc # "deadletter"

\* The inductive invariant behind BlockedEventsExplained: jobs, batches and
\* processes are about committed rows only; a row whose job completes, now or
\* after its dead letter, is not PENDING without an attempt, and stays so; and
\* what a job has lost, attempts and workers, it lost to faults.
Attempted(e) ==
    /\ e \in Committed
    /\ rows[e].status = "PENDING" => rows[e].attempts > 0

BlockedInv ==
    /\ \A e \in Events : job[e].state # "none" => e \in Committed
    /\ \A p \in Procs : proc[p].todo \subseteq Committed
    /\ \A p \in Procs : proc[p].ev # NoEvent => proc[p].ev \in Committed
    /\ \A p \in Procs : proc[p].pc = "deadletter" => Attempted(proc[p].ev)
    /\ \A e \in Events : job[e].state = "completed" => Attempted(e)
    /\ \A e \in Events : job[e].made <= faults
    /\ \A e \in Events : job[e].state = "failing" => faults >= JobAttempts
    /\ \A e \in Events : job[e].stalled => "crash" \in FaultKinds /\ faults >= 1
    /\ BlockedEventsExplained

-----------------------------------------------------------------------------
(* What the documentation and the tests say, refuted in runs of their own  *)

\* README, outbox pattern: events are never lost when the application fails
\* after the aggregate is persisted.  So a committed event is published.
CommittedIsPublished ==
    \A e \in Events : rows[e].status # "ABSENT" ~> published[e] > 0

\* README, retries: a failed publication is retried after a backoff.  So when
\* the relay schedules a PENDING row, a job that will run it is in the queue.
RelayedIsQueued ==
    [][\A p \in Procs : \A e \in Events :
          (/\ QueueEnabled
           /\ proc[p].pc = "relay" /\ proc'[p].pc = "relay"
           /\ e \in proc[p].todo \ proc'[p].todo
           /\ Claimable(e)
           /\ faults' = faults)
          => job'[e].state \in {"waiting", "active"}]_vars
=============================================================================
