------------------------------- MODULE JobQueue -------------------------------
(***************************************************************************)
(* One job of the email, webhook, automation or report queue, as BullMQ    *)
(* and the provider's worker see it.  These jobs have ids of their own, so *)
(* nothing keeps a second job out; a job is retried until its attempts are *)
(* used up and the listener of the failed event then adds a dead letter.   *)
(***************************************************************************)
EXTENDS Integers

CONSTANT JobAttempts  \* QUEUE_DEFAULT_ATTEMPTS

ASSUME JobQueueAssumption == JobAttempts \in Nat \ {0}

\* "failed" until the listener ran, then "dead", or "unreported" if it could not;
\* "dropped" if BullMQ failed it with attempts left, which the listener ignores.
JobStates == {"none", "waiting", "active", "completed", "failed", "dead", "unreported", "dropped"}

\* stalled: a worker has died with it once.
JobRecord == [state : JobStates, attempts : 0..JobAttempts, stalled : BOOLEAN]

NoJob == [state |-> "none", attempts |-> 0, stalled |-> FALSE]

Added(job) == [job EXCEPT !.state = "waiting"]

Taken(job) == [job EXCEPT !.state = "active"]

Succeeded(job) == [job EXCEPT !.state = "completed"]

\* Faulty variant: nobody learns that the last attempt has failed.
AttemptFailedUnnoticed(job) ==
    [job EXCEPT !.state = IF job.attempts + 1 < JobAttempts THEN "waiting" ELSE "active",
                !.attempts = @ + 1]

\* Faulty variant: the attempt that has just failed is not counted in the limit.
AttemptFailedOnceMore(job) ==
    [job EXCEPT !.state = IF job.attempts < JobAttempts THEN "waiting" ELSE "failed",
                !.attempts = @ + 1]

\* Faulty variant: the listener waits for one attempt more than the job has.
AttemptFailedDropped(job) ==
    [job EXCEPT !.state = IF job.attempts + 1 < JobAttempts THEN "waiting" ELSE "dropped",
                !.attempts = @ + 1]

\* The processor threw: a retry, after a delay that the order of actions
\* already leaves open, or the end.
AttemptFailed(job) ==
    [job EXCEPT !.state = IF job.attempts + 1 < JobAttempts THEN "waiting" ELSE "failed",
                !.attempts = @ + 1]

\* The worker died.  The worker's options leave BullMQ's maxStalledCount at 1:
\* another worker gets the job once, at no attempt's cost.  The second time
\* BullMQ fails it for good; if it counts that as the last attempt (which
\* depends on its version) the listener adds the dead letter.
Stalled(job) ==
    IF ~job.stalled THEN {[job EXCEPT !.state = "waiting", !.stalled = TRUE]}
    ELSE {[job EXCEPT !.state = "dropped"]} \cup
         {failed \in {AttemptFailed(job)} : failed.state = "failed"}

DeadLettered(job) == [job EXCEPT !.state = "dead"]

Ended(job) == job.state \in {"completed", "dead", "unreported", "dropped"}

\* A job is dead-lettered when its attempts are used up, never before, and
\* whatever else ends it without a letter has had its causes.
Accounted(job, crashes, silences) ==
    /\ job.attempts = JobAttempts <=> job.state \in {"failed", "dead", "unreported"}
    /\ job.state = "unreported" => silences > 0
    /\ job.state = "dropped" => crashes > 1
===============================================================================
