------------------------------- MODULE SyncQueue -------------------------------
(***************************************************************************)
(* The sync provider, used without Redis: a job runs inside the call that  *)
(* adds it, and the provider keeps its record, its counts and the dead     *)
(* letters in memory.  The callers are requests; those of the report queue *)
(* export a CSV and fetch the result of their job afterwards.              *)
(***************************************************************************)
EXTENDS Integers, FiniteSets

CONSTANTS
    SyncCallers,  \* requests that add a job
    QueueOf,      \* the queue of each request
    MaxLetters,   \* bound: dead letters that the outbox relay adds
    MaxCloses     \* bound: how often the provider is closed

SyncQueues == {"REPORT", "OUTBOX"}

ASSUME SyncQueueAssumption ==
    /\ IsFiniteSet(SyncCallers)
    /\ QueueOf \in [SyncCallers -> SyncQueues]
    /\ MaxLetters \in Nat /\ MaxCloses \in Nat

VARIABLES
    syncCaller,   \* where every request stands
    syncStored,   \* jobs: what the map holds for each request
    syncCounts,   \* counts, of every queue
    syncDead,     \* deadLetterJobs, of every queue
    syncLetters,  \* dead letters added by the relay so far
    syncClosed    \* closes so far

syncVars == <<syncCaller, syncStored, syncCounts, syncDead, syncLetters, syncClosed>>

NoCounts == [active |-> 0, completed |-> 0, failed |-> 0]

SyncQueueTypeOK ==
    /\ syncCaller \in [SyncCallers -> {"new", "running", "wait", "answered", "failed", "refused"}]
    /\ syncStored \in [SyncCallers -> {"none", "request", "failure", "result"}]
    /\ syncCounts \in [SyncQueues -> [DOMAIN NoCounts -> Nat]]
    /\ syncDead \in [SyncQueues -> Nat]
    /\ syncLetters \in 0..MaxLetters
    /\ syncClosed \in 0..MaxCloses

SyncQueueInit ==
    /\ syncCaller = [c \in SyncCallers |-> "new"]
    /\ syncStored = [c \in SyncCallers |-> "none"]
    /\ syncCounts = [q \in SyncQueues |-> NoCounts]
    /\ syncDead = [q \in SyncQueues |-> 0]
    /\ syncLetters = 0
    /\ syncClosed = 0

-----------------------------------------------------------------------------
(* The provider *)

\* Reports are behind a feature flag.
ExportRefused(c) ==
    /\ syncCaller[c] = "new"
    /\ QueueOf[c] = "REPORT"
    /\ syncCaller' = [syncCaller EXCEPT ![c] = "refused"]
    /\ UNCHANGED <<syncStored, syncCounts, syncDead, syncLetters, syncClosed>>

\* Up to the first await, which is the processor's.
Enqueue(c) ==
    /\ syncCaller[c] = "new"
    /\ syncCaller' = [syncCaller EXCEPT ![c] = "running"]
    /\ syncStored' = [syncStored EXCEPT ![c] = "request"]
    /\ syncCounts' = [syncCounts EXCEPT ![QueueOf[c]].active = @ + 1]
    /\ UNCHANGED <<syncDead, syncLetters, syncClosed>>

Count(q, outcome) ==
    syncCounts' = [syncCounts EXCEPT ![q].active = @ - 1, ![q][outcome] = @ + 1]

\* The result of a report is stored, whether or not the map was cleared meanwhile.
JobSucceeds(c) ==
    /\ syncCaller[c] = "running"
    /\ Count(QueueOf[c], "completed")
    /\ syncStored' = [syncStored EXCEPT ![c] = IF QueueOf[c] = "REPORT" THEN "result" ELSE @]
    /\ syncCaller' = [syncCaller EXCEPT ![c] = IF QueueOf[c] = "REPORT" THEN "wait" ELSE "answered"]
    /\ UNCHANGED <<syncDead, syncLetters, syncClosed>>

\* Faulty variant: a job that fails is still counted as active.
JobFailsStillActive(c) ==
    /\ syncCaller[c] = "running"
    /\ syncCounts' = [syncCounts EXCEPT ![QueueOf[c]].failed = @ + 1]
    /\ syncDead' = [syncDead EXCEPT ![QueueOf[c]] = @ + 1]
    /\ syncStored' = [syncStored EXCEPT ![c] = IF @ = "none" THEN @ ELSE "failure"]
    /\ syncCaller' = [syncCaller EXCEPT ![c] = "failed"]
    /\ UNCHANGED <<syncLetters, syncClosed>>

\* The record, if the map still has it, the counts and a dead letter; the
\* exception goes on to the request.
JobFails(c) ==
    /\ syncCaller[c] = "running"
    /\ Count(QueueOf[c], "failed")
    /\ syncDead' = [syncDead EXCEPT ![QueueOf[c]] = @ + 1]
    /\ syncStored' = [syncStored EXCEPT ![c] = IF @ = "none" THEN @ ELSE "failure"]
    /\ syncCaller' = [syncCaller EXCEPT ![c] = "failed"]
    /\ UNCHANGED <<syncLetters, syncClosed>>

WaitForReportJob(c) ==
    /\ syncCaller[c] = "wait"
    /\ syncCaller' = [syncCaller EXCEPT ![c] = IF syncStored[c] = "result" THEN "answered" ELSE "failed"]
    /\ UNCHANGED <<syncStored, syncCounts, syncDead, syncLetters, syncClosed>>

\* The relay gives up an event: counted as a failure, though no job has failed.
AddOutboxDeadLetter ==
    /\ syncLetters < MaxLetters
    /\ syncLetters' = syncLetters + 1
    /\ syncDead' = [syncDead EXCEPT !["OUTBOX"] = @ + 1]
    /\ syncCounts' = [syncCounts EXCEPT !["OUTBOX"].failed = @ + 1]
    /\ UNCHANGED <<syncCaller, syncStored, syncClosed>>

\* The map and the dead letters are emptied, the counts are not.
CloseProvider ==
    /\ syncClosed < MaxCloses
    /\ syncClosed' = syncClosed + 1
    /\ syncStored' = [c \in SyncCallers |-> "none"]
    /\ syncDead' = [q \in SyncQueues |-> 0]
    /\ UNCHANGED <<syncCaller, syncCounts, syncLetters>>

SyncQueueNext ==
    \/ \E c \in SyncCallers : ExportRefused(c) \/ Enqueue(c) \/ JobSucceeds(c) \/ JobFails(c)
                              \/ WaitForReportJob(c)
    \/ AddOutboxDeadLetter
    \/ CloseProvider

SyncQueueSpec == SyncQueueInit /\ [][SyncQueueNext]_syncVars

-----------------------------------------------------------------------------
(* Correctness *)

JobsIn(q, places) == Cardinality({c \in SyncCallers : QueueOf[c] = q /\ syncCaller[c] \in places})

LettersIn(q) == IF q = "OUTBOX" THEN syncLetters ELSE 0

\* The counts tell the jobs at any time, across failures and a close that
\* overtakes running jobs; every failure has its dead letter, and no record
\* has left the map, until a close; and a generated report fails to reach its
\* request only because of one.
QueueTellsJobs ==
    /\ \A q \in SyncQueues :
          /\ syncCounts[q].active = JobsIn(q, {"running"})
          /\ syncCounts[q].completed + syncCounts[q].failed - LettersIn(q)
                = JobsIn(q, {"wait", "answered", "failed"})
          /\ syncDead[q] <= syncCounts[q].failed
    /\ syncClosed = 0 =>
          /\ \A q \in SyncQueues : syncDead[q] = syncCounts[q].failed
          /\ \A c \in SyncCallers : syncCaller[c] = "failed" => syncStored[c] = "failure"
          /\ Cardinality({c \in SyncCallers : syncStored[c] # "none"})
                = JobsIn("REPORT", {"running", "wait", "answered", "failed"})
                  + JobsIn("OUTBOX", {"running", "answered", "failed"})
================================================================================
