-------------------------- MODULE OutboxRelayProofs --------------------------
(***************************************************************************)
(* Proofs about OutboxRelay for every set of events and processes, every   *)
(* value of the limits, both deployments and every choice of faults.       *)
(***************************************************************************)
EXTENDS OutboxRelay, FiniteSetTheorems, SequenceTheorems, TLAPS

-----------------------------------------------------------------------------
(* Lemmas about the operators *)

LEMMA OneMoreRelayJobType ==
    ASSUME ConstantsAssumption, relayJobs \in 0..MaxRelayJobs
    PROVE  OneMoreRelayJob \in 0..MaxRelayJobs
BY DEF OneMoreRelayJob, ConstantsAssumption

\* Cutting the completed set keeps it a sequence of job names.
LEMMA CompletionType ==
    ASSUME ConstantsAssumption, NEW S, NEW j \in S, completed \in Seq(S)
    PROVE  AfterCompletion(j) \in Seq(S)
<1>1. CASE Len(completed) < KeepCompleted
  BY <1>1 DEF AfterCompletion
<1>2. CASE ~(Len(completed) < KeepCompleted)
  <2>1. completed # << >>
    BY <1>2 DEF ConstantsAssumption
  <2>2. Tail(completed) \in Seq(S)
    BY <2>1, HeadTailProperties
  <2>3. QED
    BY <1>2, <2>2 DEF AfterCompletion
<1>3. QED
  BY <1>1, <1>2

LEMMA CompleteJobType ==
    ASSUME ConstantsAssumption, TypeOK, NEW j \in Events \cup {"relay"}, CompleteJob(j)
    PROVE  /\ job' \in [Events -> Job]
           /\ completed' \in Seq(Events \cup {"relay"})
<1>1. completed' \in Seq(Events \cup {"relay"})
  BY CompletionType DEF CompleteJob, TypeOK
<1>2. job' \in [Events -> Job]
  <2>1. job \in [Events -> Job] /\ NoJob \in Job
    BY DEF TypeOK, Job, JobState, NoJob
  <2>2. \A e \in Events : [job[e] EXCEPT !.state = "completed"] \in Job
    BY <2>1 DEF Job, JobState
  <2>3. QED
    BY <2>1, <2>2 DEF CompleteJob
<1>3. QED
  BY <1>1, <1>2

LEMMA FailJobType ==
    ASSUME ConstantsAssumption, TypeOK, NEW e \in Events, FailJob(e)
    PROVE  job' \in [Events -> Job]
<1> DEFINE state == IF job[e].made + 1 < JobAttempts THEN "waiting" ELSE "failing"
           failed == [job[e] EXCEPT !.state = state, !.made = job[e].made + 1]
<1>1. job \in [Events -> Job] /\ job[e] \in Job /\ job[e].made \in Nat
  BY DEF TypeOK, Job
<1>2. failed \in Job
  <2>1. state \in JobState /\ job[e].made + 1 \in Nat
    BY <1>1 DEF JobState
  <2>2. [job[e] EXCEPT !.state = state] \in Job
    BY <1>1, <2>1 DEF Job
  <2>3. [[job[e] EXCEPT !.state = state] EXCEPT !.made = job[e].made + 1] \in Job
    BY <2>1, <2>2 DEF Job
  <2>4. QED
    BY <2>3
<1>3. job' = [job EXCEPT ![e] = failed]
  BY <1>1 DEF FailJob
<1>4. QED
  BY <1>1, <1>2, <1>3

LEMMA StallJobType ==
    ASSUME ConstantsAssumption, TypeOK, NEW e \in Events, StallJob(e)
    PROVE  job' \in [Events -> Job]
<1>1. CASE FailJob(e)
  BY <1>1, FailJobType
<1>2. CASE \/ job' = [job EXCEPT ![e].state = "waiting", ![e].stalled = TRUE]
           \/ job' = [job EXCEPT ![e].state = "failed"]
  <2>1. job \in [Events -> Job]
    BY DEF TypeOK
  <2>2. /\ [job[e] EXCEPT !.state = "waiting", !.stalled = TRUE] \in Job
        /\ [job[e] EXCEPT !.state = "failed"] \in Job
    BY <2>1 DEF Job, JobState
  <2>3. CASE job' = [job EXCEPT ![e].state = "failed"]
    BY <1>2, <2>1, <2>2, <2>3
  <2>4. CASE job' = [job EXCEPT ![e].state = "waiting", ![e].stalled = TRUE]
    <3>1. job' = [job EXCEPT ![e] = [job[e] EXCEPT !.state = "waiting", !.stalled = TRUE]]
      BY <2>1, <2>4
    <3>2. QED
      BY <1>2, <2>1, <2>2, <3>1
  <2>5. QED
    BY <1>2, <2>3, <2>4
<1>3. QED
  BY <1>1, <1>2 DEF StallJob

LEMMA ProcRecordType ==
    ASSUME NEW r \in Proc, NEW pc \in Pc, NEW ev \in Events \cup {NoEvent},
           NEW todo \in SUBSET Events
    PROVE  [r EXCEPT !.pc = pc, !.ev = ev, !.todo = todo] \in Proc
<1>1. [r EXCEPT !.pc = pc, !.ev = ev] \in Proc
  BY DEF Proc
<1>2. [[r EXCEPT !.pc = pc, !.ev = ev] EXCEPT !.todo = todo] \in Proc
  BY <1>1 DEF Proc
<1>3. QED
  BY <1>2

LEMMA ProcUpdateType ==
    ASSUME TypeOK, NEW p \in Procs, NEW pc \in Pc
    PROVE  /\ \A ev \in Events \cup {NoEvent} :
                 [proc EXCEPT ![p].pc = pc, ![p].ev = ev] \in [Procs -> Proc]
           /\ \A seen \in Nat :
                 [proc EXCEPT ![p].pc = pc, ![p].seen = seen] \in [Procs -> Proc]
           /\ \A todo \in SUBSET Events :
                 [proc EXCEPT ![p].pc = pc, ![p].todo = todo] \in [Procs -> Proc]
           /\ \A ev \in Events \cup {NoEvent}, todo \in SUBSET Events :
                 [proc EXCEPT ![p].pc = pc, ![p].ev = ev, ![p].todo = todo]
                    \in [Procs -> Proc]
<1>1. proc \in [Procs -> Proc]
  BY DEF TypeOK
<1>2. ASSUME NEW ev \in Events \cup {NoEvent}
      PROVE  [proc EXCEPT ![p].pc = pc, ![p].ev = ev] \in [Procs -> Proc]
  BY <1>1 DEF Proc
<1>3. ASSUME NEW seen \in Nat
      PROVE  [proc EXCEPT ![p].pc = pc, ![p].seen = seen] \in [Procs -> Proc]
  BY <1>1 DEF Proc
<1>4. ASSUME NEW todo \in SUBSET Events
      PROVE  [proc EXCEPT ![p].pc = pc, ![p].todo = todo] \in [Procs -> Proc]
  BY <1>1 DEF Proc
<1>5. ASSUME NEW ev \in Events \cup {NoEvent}, NEW todo \in SUBSET Events
      PROVE  [proc EXCEPT ![p].pc = pc, ![p].ev = ev, ![p].todo = todo]
                \in [Procs -> Proc]
  <2>1. [proc[p] EXCEPT !.pc = pc, !.ev = ev, !.todo = todo] \in Proc
    BY <1>1, ProcRecordType
  <2>2. [proc EXCEPT ![p].pc = pc, ![p].ev = ev, ![p].todo = todo]
           = [proc EXCEPT ![p] = [proc[p] EXCEPT !.pc = pc, !.ev = ev, !.todo = todo]]
    BY <1>1
  <2>3. QED
    BY <1>1, <2>1, <2>2
<1>6. QED
  BY <1>2, <1>3, <1>4, <1>5, Zenon

LEMMA ShrinkBatchType ==
    ASSUME TypeOK, NEW p \in Procs, NEW e
    PROVE  [proc EXCEPT ![p].todo = @ \ {e}] \in [Procs -> Proc]
<1>1. proc \in [Procs -> Proc]
  BY DEF TypeOK
<1>2. QED
  BY <1>1 DEF Proc

LEMMA RowUpdateType ==
    ASSUME TypeOK, NEW e \in Events, NEW status \in RowStatus, NEW attempts \in Nat
    PROVE  /\ SetStatus(e, status) => rows' \in [Events -> Row]
           /\ SetOutcome(e, status, attempts) => rows' \in [Events -> Row]
<1>1. rows \in [Events -> Row]
  BY DEF TypeOK
<1>2. SetStatus(e, status) => rows' \in [Events -> Row]
  BY <1>1 DEF SetStatus, Row
<1>3. SetOutcome(e, status, attempts) => rows' \in [Events -> Row]
  <2>1. [rows EXCEPT ![e].status = status] \in [Events -> Row]
    BY <1>1 DEF Row
  <2>2. [[rows EXCEPT ![e].status = status] EXCEPT ![e].attempts = attempts] \in [Events -> Row]
    BY <2>1 DEF Row
  <2>3. QED
    BY <1>1, <2>2 DEF SetOutcome
<1>4. QED
  BY <1>2, <1>3

LEMMA GotoType ==
    ASSUME TypeOK, NEW p \in Procs, NEW pc \in Pc, Goto(p, pc)
    PROVE  proc' \in [Procs -> Proc]
BY DEF TypeOK, Goto, Proc

LEMMA ToIdleType ==
    ASSUME TypeOK, NEW p \in Procs, ToIdle(p)
    PROVE  proc' \in [Procs -> Proc]
BY DEF TypeOK, ToIdle, IdleProc, Proc, Pc

\* processEvent's two ways out leave the queue and the process well typed.
LEMMA ReturnsType ==
    ASSUME ConstantsAssumption, TypeOK, NEW p \in Procs, proc[p].ev \in Events, Returns(p)
    PROVE  /\ job' \in [Events -> Job]
           /\ completed' \in Seq(Events \cup {"relay"})
           /\ relayJobs' \in 0..MaxRelayJobs
           /\ dlq' \subseteq DeadLetter
           /\ proc' \in [Procs -> Proc]
<1>1. CASE QueueEnabled
  <2>1. CompleteJob(proc[p].ev) /\ ToIdle(p) /\ UNCHANGED <<relayJobs, dlq>>
    BY <1>1 DEF Returns
  <2>2. proc' \in [Procs -> Proc]
    BY <2>1 DEF ToIdle, IdleProc, TypeOK, Proc, Pc
  <2>3. QED
    BY <2>1, <2>2, CompleteJobType DEF TypeOK
<1>2. CASE ~QueueEnabled
  <2>1. /\ proc' = [proc EXCEPT ![p].pc = "relay", ![p].ev = NoEvent, ![p].seen = 0]
        /\ UNCHANGED queueVars
    BY <1>2 DEF Returns
  <2>2. proc' \in [Procs -> Proc]
    BY <2>1 DEF TypeOK, Proc, Pc
  <2>3. QED
    BY <2>1, <2>2 DEF TypeOK, queueVars
<1>3. QED
  BY <1>1, <1>2

LEMMA ThrowsType ==
    ASSUME ConstantsAssumption, TypeOK, NEW p \in Procs, proc[p].ev \in Events, Throws(p)
    PROVE  /\ job' \in [Events -> Job]
           /\ completed' \in Seq(Events \cup {"relay"})
           /\ relayJobs' \in 0..MaxRelayJobs
           /\ dlq' \subseteq DeadLetter
           /\ proc' \in [Procs -> Proc]
<1>1. CASE QueueEnabled
  <2>1. FailJob(proc[p].ev) /\ ToIdle(p) /\ UNCHANGED <<completed, relayJobs, dlq>>
    BY <1>1 DEF Throws
  <2>2. proc' \in [Procs -> Proc]
    BY <2>1 DEF ToIdle, IdleProc, TypeOK, Proc, Pc
  <2>3. QED
    BY <2>1, <2>2, FailJobType DEF TypeOK
<1>2. CASE ~QueueEnabled
  <2>1. /\ proc' = [proc EXCEPT ![p].pc = "relay", ![p].ev = NoEvent, ![p].seen = 0]
        /\ UNCHANGED queueVars
    BY <1>2 DEF Throws
  <2>2. proc' \in [Procs -> Proc]
    BY <2>1 DEF TypeOK, Proc, Pc
  <2>3. QED
    BY <2>1, <2>2 DEF TypeOK, queueVars
<1>3. QED
  BY <1>1, <1>2

\* After them the process works on no event.
LEMMA Released ==
    ASSUME TypeOK, NEW p \in Procs, Returns(p) \/ Throws(p)
    PROVE  /\ \A q \in Procs \ {p} : proc'[q] = proc[q]
           /\ proc'[p].pc \in {"idle", "relay"}
<1>1. CASE QueueEnabled
  <2>1. ToIdle(p)
    BY <1>1 DEF Returns, Throws
  <2>2. QED
    BY <2>1 DEF ToIdle, IdleProc, TypeOK, Proc
<1>2. CASE ~QueueEnabled
  <2>1. proc' = [proc EXCEPT ![p].pc = "relay", ![p].ev = NoEvent, ![p].seen = 0]
    BY <1>2 DEF Returns, Throws
  <2>2. QED
    BY <2>1 DEF TypeOK, Proc
<1>3. QED
  BY <1>1, <1>2

-----------------------------------------------------------------------------
(* Two frames for the inductive step *)

\* A step that leaves the table and the publications alone, and whose process
\* ends without owning an event, keeps the invariant.
LEMMA QuietStep ==
    ASSUME IInv, TypeOK', NEW p \in Procs,
           UNCHANGED <<rows, published>>,
           \A q \in Procs \ {p} : proc'[q] = proc[q],
           proc'[p].pc \notin OwnerPc,
           proc'[p].pc \in {"claim", "deadletter"} => proc'[p].ev \in Events
    PROVE  IInv'
<1>1. \A e \in Events : RowAccounted(e)'
  BY DEF IInv, RowAccounted
<1>2. ASSUME NEW q \in Procs PROVE ProcessInformed(q)'
  <2>1. CASE q = p
    BY <2>1 DEF ProcessInformed, OwnerPc
  <2>2. CASE q # p
    <3>1. proc'[q] = proc[q]
      BY <2>2
    <3>2. ProcessInformed(q)
      BY DEF IInv
    <3>3. QED
      BY <3>1, <3>2 DEF ProcessInformed, OwnerPc
  <2>3. QED
    BY <2>1, <2>2
<1>3. ASSUME NEW e \in Events, NEW q \in Procs, NEW r \in Procs,
             Owns(q, e)', Owns(r, e)'
      PROVE  q = r
  <2>1. q # p /\ r # p
    BY <1>3 DEF Owns
  <2>2. Owns(q, e) /\ Owns(r, e)
    BY <1>3, <2>1 DEF Owns
  <2>3. QED
    BY <2>2 DEF IInv
<1>4. QED
  BY <1>1, <1>2, <1>3 DEF IInv

\* A step that changes the table and the publications only for one event, which
\* afterwards nobody but its process can own, keeps the invariant if it keeps
\* it for that event and that process.
LEMMA OwnerStep ==
    ASSUME IInv, TypeOK', NEW p \in Procs, NEW e \in Events,
           \A f \in Events \ {e} : rows'[f] = rows[f] /\ published'[f] = published[f],
           \A q \in Procs \ {p} : proc'[q] = proc[q] /\ ~Owns(q, e),
           proc'[p].pc \in OwnerPc => proc'[p].ev = e,
           RowAccounted(e)',
           ProcessInformed(p)'
    PROVE  IInv'
<1>1. ASSUME NEW f \in Events PROVE RowAccounted(f)'
  <2>1. CASE f = e
    BY <2>1
  <2>2. CASE f # e
    BY <2>2 DEF IInv, RowAccounted
  <2>3. QED
    BY <2>1, <2>2
<1>2. ASSUME NEW q \in Procs PROVE ProcessInformed(q)'
  <2>1. CASE q = p
    BY <2>1
  <2>2. CASE q # p
    <3>1. proc'[q] = proc[q] /\ ~Owns(q, e) /\ ProcessInformed(q)
      BY <2>2 DEF IInv
    <3>2. CASE proc[q].pc \in OwnerPc
      <4>1. proc[q].ev \in Events \ {e}
        BY <3>1, <3>2 DEF ProcessInformed, Owns
      <4>2. /\ rows'[proc[q].ev] = rows[proc[q].ev]
            /\ published'[proc[q].ev] = published[proc[q].ev]
        BY <4>1
      <4>3. QED
        BY <3>1, <4>1, <4>2 DEF ProcessInformed, OwnerPc
    <3>3. CASE proc[q].pc \notin OwnerPc
      BY <3>1, <3>3 DEF ProcessInformed, OwnerPc
    <3>4. QED
      BY <3>2, <3>3
  <2>3. QED
    BY <2>1, <2>2
<1>3. ASSUME NEW f \in Events, NEW q \in Procs, NEW r \in Procs,
             Owns(q, f)', Owns(r, f)'
      PROVE  q = r
  <2>1. CASE q = p \/ r = p
    <3>1. f = e
      BY <1>3, <2>1 DEF Owns
    <3>2. \A o \in Procs \ {p} : ~Owns(o, e)'
      BY DEF Owns
    <3>3. QED
      BY <1>3, <2>1, <3>1, <3>2
  <2>2. CASE q # p /\ r # p
    <3>1. Owns(q, f) /\ Owns(r, f)
      BY <1>3, <2>2 DEF Owns
    <3>2. QED
      BY <3>1 DEF IInv
  <2>3. QED
    BY <2>1, <2>2
<1>4. QED
  BY <1>1, <1>2, <1>3 DEF IInv

-----------------------------------------------------------------------------
(* Type correctness of each action.  It needs the invariant only to know   *)
(* that a process in the middle of processEvent has an event.              *)

LEMMA CommittedFinite ==
    ASSUME ConstantsAssumption
    PROVE  Cardinality(Committed) \in Nat
<1>1. IsFiniteSet(Events)
  BY DEF ConstantsAssumption
<1>2. Committed \subseteq Events
  BY DEF Committed
<1>3. IsFiniteSet(Committed)
  BY <1>1, <1>2, FS_Subset
<1>4. QED
  BY <1>3, FS_CardinalityType

LEMMA FaultType ==
    ASSUME ConstantsAssumption, TypeOK, NEW kind, Fault(kind)
    PROVE  faults' \in 0..MaxFaults
BY DEF Fault, TypeOK, ConstantsAssumption

LEMMA EventStepType ==
    ASSUME ConstantsAssumption, TypeOK, NEW p \in Procs, NEW e \in Events,
           \/ Commit(p, e) \/ TakeOutboxJob(p, e)
           \/ RelayEvent(p, e) \/ RelayEventThrows(p, e)
    PROVE  TypeOK'
<1>1. CASE Commit(p, e)
  <2>1. rows' = [rows EXCEPT ![e] = [status |-> "PENDING", attempts |-> 0,
                                     createdAt |-> Cardinality(Committed) + 1]]
    BY <1>1 DEF Commit
  <2>2. Cardinality(Committed) + 1 \in Nat
    BY CommittedFinite
  <2>3. rows' \in [Events -> Row]
    BY <2>1, <2>2 DEF TypeOK, Row, RowStatus
  <2>4. proc' \in [Procs -> Proc]
    BY <1>1, GotoType DEF Commit, Pc
  <2>5. QED
    BY <1>1, <2>3, <2>4 DEF Commit, TypeOK, queueVars, NoFault
<1>2. CASE TakeOutboxJob(p, e)
  <2>1. /\ proc' = [proc EXCEPT ![p].pc = "claim", ![p].ev = e]
        /\ job' = [job EXCEPT ![e].state = "active"]
    BY <1>2 DEF TakeOutboxJob
  <2>2. proc' \in [Procs -> Proc]
    <3>1. "claim" \in Pc /\ e \in Events \cup {NoEvent}
      BY DEF Pc
    <3>2. [proc EXCEPT ![p].pc = "claim", ![p].ev = e] \in [Procs -> Proc]
      BY <3>1, ProcUpdateType
    <3>3. QED
      BY <2>1, <3>2
  <2>3. job' \in [Events -> Job]
    BY <2>1 DEF TypeOK, Job, JobState
  <2>4. QED
    BY <1>2, <2>2, <2>3 DEF TakeOutboxJob, TypeOK, NoFault
<1>3. CASE RelayEvent(p, e) /\ QueueEnabled
  <2>1. proc' = [proc EXCEPT ![p].todo = @ \ {e}] /\ AddOutboxJob(e)
    BY <1>3 DEF RelayEvent
  <2>2. proc' \in [Procs -> Proc]
    BY <2>1, ShrinkBatchType
  <2>3. job' \in [Events -> Job]
    <3>1. [NoJob EXCEPT !.state = "waiting"] \in Job
      BY DEF NoJob, Job, JobState
    <3>2. QED
      BY <2>1, <3>1 DEF AddOutboxJob, TypeOK
  <2>4. QED
    BY <1>3, <2>2, <2>3 DEF RelayEvent, TypeOK, NoFault
<1>4. CASE RelayEvent(p, e) /\ ~QueueEnabled
  <2>1. /\ proc' = [proc EXCEPT ![p].pc = "claim", ![p].ev = e,
                                ![p].todo = proc[p].todo \ {e}]
        /\ UNCHANGED job
    BY <1>4 DEF RelayEvent
  <2>2. proc[p].todo \ {e} \in SUBSET Events
    BY DEF TypeOK, Proc
  <2>3. proc' \in [Procs -> Proc]
    <3>1. "claim" \in Pc /\ e \in Events \cup {NoEvent}
      BY DEF Pc
    <3>2. [proc EXCEPT ![p].pc = "claim", ![p].ev = e, ![p].todo = proc[p].todo \ {e}]
             \in [Procs -> Proc]
      BY <2>2, <3>1, ProcUpdateType
    <3>3. QED
      BY <2>1, <3>2
  <2>4. QED
    BY <1>4, <2>1, <2>3 DEF RelayEvent, TypeOK, NoFault
<1>5. CASE RelayEventThrows(p, e)
  <2>1. proc' = [proc EXCEPT ![p].todo = @ \ {e}]
    BY <1>5 DEF RelayEventThrows
  <2>2. proc' \in [Procs -> Proc]
    BY <2>1, ShrinkBatchType
  <2>3. faults' \in 0..MaxFaults
    BY <1>5, FaultType DEF RelayEventThrows
  <2>4. QED
    BY <1>5, <2>2, <2>3 DEF RelayEventThrows, TypeOK, queueVars
<1>6. QED
  BY <1>1, <1>2, <1>3, <1>4, <1>5

LEMMA SchedulingType ==
    ASSUME ConstantsAssumption, TypeOK, NEW p \in Procs,
           \/ ScheduleRelay(p) \/ ScheduleRelayThrows(p) \/ TakeRelayJob(p)
           \/ FindPendingBatch(p) \/ FindPendingBatchThrows(p) \/ RelayDone(p)
    PROVE  TypeOK'
<1>1. CASE ScheduleRelay(p)
  <2>1. proc' \in [Procs -> Proc]
    BY <1>1, ToIdleType DEF ScheduleRelay
  <2>2. relayJobs' \in 0..MaxRelayJobs
    BY <1>1, OneMoreRelayJobType DEF ScheduleRelay, TypeOK
  <2>3. QED
    BY <1>1, <2>1, <2>2 DEF ScheduleRelay, TypeOK, NoFault
<1>2. CASE ScheduleRelayThrows(p)
  <2>1. proc' \in [Procs -> Proc]
    BY <1>2, ToIdleType DEF ScheduleRelayThrows
  <2>2. faults' \in 0..MaxFaults
    BY <1>2, FaultType DEF ScheduleRelayThrows
  <2>3. QED
    BY <1>2, <2>1, <2>2 DEF ScheduleRelayThrows, TypeOK, queueVars
<1>3. CASE TakeRelayJob(p)
  <2>1. proc' \in [Procs -> Proc]
    BY <1>3, GotoType DEF TakeRelayJob, Pc
  <2>2. relayJobs' \in 0..MaxRelayJobs
    BY <1>3 DEF TakeRelayJob, ConstantsAssumption, TypeOK
  <2>3. QED
    BY <1>3, <2>1, <2>2 DEF TakeRelayJob, TypeOK, NoFault
<1>4. CASE FindPendingBatch(p)
  <2>1. proc' = [proc EXCEPT ![p].pc = "relay", ![p].todo = PendingBatch]
    BY <1>4 DEF FindPendingBatch
  <2>2. PendingBatch \in SUBSET Events
    BY DEF PendingBatch
  <2>3. proc' \in [Procs -> Proc]
    <3>1. [proc EXCEPT ![p].pc = "relay", ![p].todo = PendingBatch] \in [Procs -> Proc]
      <4>1. "relay" \in Pc
        BY DEF Pc
      <4>2. QED
        BY <2>2, <4>1, ProcUpdateType
    <3>2. QED
      BY <2>1, <3>1
  <2>4. QED
    BY <1>4, <2>3 DEF FindPendingBatch, TypeOK, queueVars, NoFault
<1>5. CASE FindPendingBatchThrows(p)
  <2>1. proc' \in [Procs -> Proc]
    BY <1>5, ToIdleType DEF FindPendingBatchThrows
  <2>2. relayJobs' \in 0..MaxRelayJobs
    BY <1>5, OneMoreRelayJobType DEF FindPendingBatchThrows, TypeOK
  <2>3. faults' \in 0..MaxFaults
    BY <1>5, FaultType DEF FindPendingBatchThrows
  <2>4. QED
    BY <1>5, <2>1, <2>2, <2>3 DEF FindPendingBatchThrows, TypeOK
<1>6. CASE RelayDone(p)
  <2>1. proc' \in [Procs -> Proc]
    BY <1>6, ToIdleType DEF RelayDone
  <2>2. /\ job' \in [Events -> Job]
        /\ completed' \in Seq(Events \cup {"relay"})
    <3>1. CASE QueueEnabled
      BY <1>6, <3>1, CompleteJobType DEF RelayDone
    <3>2. CASE ~QueueEnabled
      BY <1>6, <3>2 DEF RelayDone, TypeOK
    <3>3. QED
      BY <3>1, <3>2
  <2>3. QED
    BY <1>6, <2>1, <2>2 DEF RelayDone, TypeOK, NoFault
<1>7. QED
  BY <1>1, <1>2, <1>3, <1>4, <1>5, <1>6

LEMMA ClaimType ==
    ASSUME ConstantsAssumption, TypeOK, NEW p \in Procs, proc[p].ev \in Events,
           \/ Claim(p) \/ ClaimThrows(p) \/ ReadClaimed(p) \/ ReadClaimedThrows(p)
           \/ Publish(p)
    PROVE  TypeOK'
<1>1. CASE Claim(p) /\ Claimable(proc[p].ev)
  <2>1. SetStatus(proc[p].ev, "PROCESSING") /\ Goto(p, "read")
    BY <1>1 DEF Claim
  <2>2. proc' \in [Procs -> Proc]
    BY <2>1, GotoType DEF Pc
  <2>3. rows' \in [Events -> Row]
    BY <2>1, RowUpdateType DEF RowStatus
  <2>4. QED
    BY <1>1, <2>2, <2>3 DEF Claim, TypeOK, queueVars, NoFault
<1>2. CASE Claim(p) /\ ~Claimable(proc[p].ev)
  <2>1. Returns(p) /\ UNCHANGED <<rows, published, faults>>
    BY <1>2 DEF Claim, NoFault
  <2>2. QED
    BY <2>1, ReturnsType DEF TypeOK
<1>3. CASE ClaimThrows(p)
  <2>1. Throws(p) /\ UNCHANGED <<rows, published>> /\ Fault("claim")
    BY <1>3 DEF ClaimThrows
  <2>2. QED
    BY <2>1, ThrowsType, FaultType DEF TypeOK
<1>4. CASE ReadClaimed(p)
  <2>1. proc' = [proc EXCEPT ![p].pc = "publish",
                             ![p].seen = rows[proc[p].ev].attempts]
    BY <1>4 DEF ReadClaimed
  <2>2. rows[proc[p].ev].attempts \in Nat
    BY DEF TypeOK, Row
  <2>3. proc' \in [Procs -> Proc]
    <3>1. "publish" \in Pc
      BY DEF Pc
    <3>2. QED
      BY <2>1, <2>2, <3>1, ProcUpdateType
  <2>4. QED
    BY <1>4, <2>3 DEF ReadClaimed, TypeOK, queueVars, NoFault
<1>5. CASE ReadClaimedThrows(p)
  <2>1. Throws(p) /\ UNCHANGED <<rows, published>> /\ Fault("read")
    BY <1>5 DEF ReadClaimedThrows
  <2>2. QED
    BY <2>1, ThrowsType, FaultType DEF TypeOK
<1>6. CASE Publish(p)
  <2>1. proc' \in [Procs -> Proc]
    BY <1>6, GotoType DEF Publish, Pc
  <2>2. published' \in [Events -> Nat]
    BY <1>6 DEF Publish, TypeOK
  <2>3. QED
    BY <1>6, <2>1, <2>2 DEF Publish, TypeOK, queueVars, NoFault
<1>7. QED
  BY <1>1, <1>2, <1>3, <1>4, <1>5, <1>6

LEMMA OutcomeType ==
    ASSUME ConstantsAssumption, TypeOK, NEW p \in Procs, proc[p].ev \in Events,
           \/ MarkProcessed(p) \/ MarkProcessedThrows(p)
           \/ CatchFailure(p) \/ CatchFailureThrows(p)
           \/ AddDeadLetterJob(p) \/ AddDeadLetterJobThrows(p)
    PROVE  TypeOK'
<1>1. SetStatus(proc[p].ev, "PROCESSED") => rows' \in [Events -> Row]
  BY RowUpdateType DEF RowStatus
<1>2. RecordFailure(p) => rows' \in [Events -> Row]
  <2>1. proc[p].seen + 1 \in Nat
    BY DEF TypeOK, Proc
  <2>2. QED
    BY <2>1, RowUpdateType DEF RecordFailure, RowStatus
<1>3. CASE MarkProcessed(p)
  <2>1. /\ SetStatus(proc[p].ev, "PROCESSED") /\ Returns(p)
        /\ UNCHANGED <<published, faults>>
    BY <1>3 DEF MarkProcessed, NoFault
  <2>2. QED
    BY <1>1, <2>1, ReturnsType DEF TypeOK
<1>4. CASE MarkProcessedThrows(p)
  <2>1. /\ UNCHANGED rows \/ SetStatus(proc[p].ev, "PROCESSED")
        /\ Fault("mark") \/ Fault("reply")
    BY <1>4 DEF MarkProcessedThrows
  <2>2. rows' \in [Events -> Row]
    BY <1>1, <2>1 DEF TypeOK
  <2>3. faults' \in 0..MaxFaults
    BY <2>1, FaultType
  <2>4. proc' \in [Procs -> Proc]
    BY <1>4, GotoType DEF MarkProcessedThrows, Pc
  <2>5. QED
    BY <1>4, <2>2, <2>3, <2>4 DEF MarkProcessedThrows, TypeOK, queueVars
<1>5. CASE CatchFailure(p)
  <2>1. rows' \in [Events -> Row]
    BY <1>2, <1>5 DEF CatchFailure
  <2>2. CASE Returns(p)
    BY <1>5, <2>1, <2>2, ReturnsType DEF CatchFailure, TypeOK, NoFault
  <2>3. CASE Goto(p, "deadletter") /\ UNCHANGED queueVars
    <3>1. proc' \in [Procs -> Proc]
      BY <2>3, GotoType DEF Pc
    <3>2. QED
      BY <1>5, <2>1, <2>3, <3>1 DEF CatchFailure, TypeOK, queueVars, NoFault
  <2>4. QED
    BY <1>5, <2>2, <2>3 DEF CatchFailure
<1>6. CASE CatchFailureThrows(p)
  <2>1. /\ UNCHANGED rows \/ RecordFailure(p)
        /\ Fault("catch") \/ Fault("reply")
        /\ Throws(p)
        /\ UNCHANGED published
    BY <1>6 DEF CatchFailureThrows
  <2>2. rows' \in [Events -> Row]
    BY <1>2, <2>1 DEF TypeOK
  <2>3. faults' \in 0..MaxFaults
    BY <2>1, FaultType
  <2>4. QED
    BY <2>1, <2>2, <2>3, ThrowsType DEF TypeOK
<1>7. CASE AddDeadLetterJob(p)
  <2>1. proc' \in [Procs -> Proc]
    BY <1>7, ToIdleType DEF AddDeadLetterJob
  <2>2. /\ job' \in [Events -> Job]
        /\ completed' \in Seq(Events \cup {"relay"})
    BY <1>7, CompleteJobType DEF AddDeadLetterJob
  <2>3. dlq' \subseteq DeadLetter
    BY <1>7 DEF AddDeadLetterJob, DeadLetter, TypeOK
  <2>4. QED
    BY <1>7, <2>1, <2>2, <2>3 DEF AddDeadLetterJob, TypeOK, NoFault
<1>8. CASE AddDeadLetterJobThrows(p)
  <2>1. Throws(p) /\ UNCHANGED <<rows, published>> /\ Fault("redis")
    BY <1>8 DEF AddDeadLetterJobThrows
  <2>2. QED
    BY <2>1, ThrowsType, FaultType DEF TypeOK
<1>9. QED
  BY <1>3, <1>4, <1>5, <1>6, <1>7, <1>8

LEMMA CrashType ==
    ASSUME ConstantsAssumption, TypeOK, NEW p \in Procs, Crash(p)
    PROVE  TypeOK'
<1>1. proc' \in [Procs -> Proc]
  BY ToIdleType DEF Crash
<1>2. job' \in [Events -> Job]
  <2>1. CASE proc[p].ev \in Events /\ StallJob(proc[p].ev)
    BY <2>1, StallJobType
  <2>2. CASE UNCHANGED job
    BY <2>2 DEF TypeOK
  <2>3. proc[p].ev \in Events \cup {NoEvent}
    BY DEF TypeOK, Proc
  <2>4. QED
    BY <2>1, <2>2, <2>3 DEF Crash
<1>3. relayJobs' \in 0..MaxRelayJobs
  BY OneMoreRelayJobType DEF Crash, TypeOK
<1>4. faults' \in 0..MaxFaults
  BY FaultType DEF Crash
<1>5. QED
  BY <1>1, <1>2, <1>3, <1>4 DEF Crash, TypeOK

LEMMA ReportType ==
    ASSUME ConstantsAssumption, TypeOK, NEW e \in Events, ReportJob(e) \/ ReportJobFails(e)
    PROVE  TypeOK'
<1>1. job' = [job EXCEPT ![e].state = "failed"]
  BY DEF ReportJob, ReportJobFails
<1>2. job' \in [Events -> Job]
  BY <1>1 DEF TypeOK, Job, JobState
<1>3. dlq' \subseteq DeadLetter
  BY DEF ReportJob, ReportJobFails, TypeOK, DeadLetter
<1>4. faults' \in 0..MaxFaults
  BY FaultType DEF ReportJob, ReportJobFails, NoFault, TypeOK
<1>5. QED
  BY <1>2, <1>3, <1>4 DEF ReportJob, ReportJobFails, TypeOK

\* In the middle of processEvent a process has an event.
LEMMA HasEvent ==
    ASSUME IInv, NEW p \in Procs, proc[p].pc \in OwnerPc \cup {"claim", "deadletter"}
    PROVE  proc[p].ev \in Events
BY DEF IInv, ProcessInformed

LEMMA TypeStep ==
    ASSUME ConstantsAssumption, IInv, Next
    PROVE  TypeOK'
<1>1. TypeOK
  BY DEF IInv
<1>2. CASE RelayTick
  BY <1>1, <1>2 DEF RelayTick, TypeOK, ConstantsAssumption, NoFault
<1>3. ASSUME NEW p \in Procs, NEW e \in Events, Commit(p, e) \/ TakeOutboxJob(p, e)
      PROVE  TypeOK'
  BY <1>1, <1>3, EventStepType
<1>4. ASSUME NEW p \in Procs, TakeRelayJob(p)
      PROVE  TypeOK'
  BY <1>1, <1>4, SchedulingType
<1>5. ASSUME NEW p \in Procs, Run(p)
      PROVE  TypeOK'
  <2>1. CASE ScheduleRelay(p) \/ FindPendingBatch(p) \/ RelayDone(p)
    BY <1>1, <2>1, SchedulingType
  <2>2. ASSUME NEW e \in Events, RelayEvent(p, e) PROVE TypeOK'
    BY <1>1, <2>2, EventStepType
  <2>3. CASE Claim(p) \/ ReadClaimed(p) \/ Publish(p)
    <3>1. proc[p].ev \in Events
      BY <2>3, HasEvent DEF Claim, ReadClaimed, Publish, OwnerPc
    <3>2. QED
      BY <1>1, <2>3, <3>1, ClaimType
  <2>4. CASE MarkProcessed(p) \/ CatchFailure(p) \/ AddDeadLetterJob(p)
    <3>1. proc[p].ev \in Events
      BY <2>4, HasEvent DEF MarkProcessed, CatchFailure, AddDeadLetterJob, OwnerPc
    <3>2. QED
      BY <1>1, <2>4, <3>1, OutcomeType
  <2>5. QED
    BY <1>5, <2>1, <2>2, <2>3, <2>4 DEF Run
<1>6. ASSUME NEW p \in Procs, Faulty(p)
      PROVE  TypeOK'
  <2>1. CASE ScheduleRelayThrows(p) \/ FindPendingBatchThrows(p)
    BY <1>1, <2>1, SchedulingType
  <2>2. ASSUME NEW e \in Events, RelayEventThrows(p, e) PROVE TypeOK'
    BY <1>1, <2>2, EventStepType
  <2>3. CASE ClaimThrows(p) \/ ReadClaimedThrows(p)
    <3>1. proc[p].ev \in Events
      BY <2>3, HasEvent DEF ClaimThrows, ReadClaimedThrows, OwnerPc
    <3>2. QED
      BY <1>1, <2>3, <3>1, ClaimType
  <2>4. CASE MarkProcessedThrows(p) \/ CatchFailureThrows(p) \/ AddDeadLetterJobThrows(p)
    <3>1. proc[p].ev \in Events
      BY <2>4, HasEvent DEF MarkProcessedThrows, CatchFailureThrows,
                            AddDeadLetterJobThrows, OwnerPc
    <3>2. QED
      BY <1>1, <2>4, <3>1, OutcomeType
  <2>5. CASE Crash(p)
    BY <1>1, <2>5, CrashType
  <2>6. QED
    BY <1>6, <2>1, <2>2, <2>3, <2>4, <2>5 DEF Faulty
<1>7. ASSUME NEW e \in Events, ReportJob(e) \/ ReportJobFails(e)
      PROVE  TypeOK'
  BY <1>1, <1>7, ReportType
<1>8. QED
  BY <1>2, <1>3, <1>4, <1>5, <1>6, <1>7 DEF Next

-----------------------------------------------------------------------------
(* The inductive step, action by action *)

\* Actions after which the process owns nothing and the table is as before.
LEMMA QuietActions ==
    ASSUME IInv, TypeOK', NEW p \in Procs,
           \/ TakeRelayJob(p)
           \/ \E e \in Events :
                 TakeOutboxJob(p, e) \/ RelayEvent(p, e) \/ RelayEventThrows(p, e)
           \/ ScheduleRelay(p) \/ ScheduleRelayThrows(p)
           \/ FindPendingBatch(p) \/ FindPendingBatchThrows(p) \/ RelayDone(p)
           \/ Claim(p) /\ ~Claimable(proc[p].ev)
           \/ ClaimThrows(p) \/ ReadClaimedThrows(p)
           \/ AddDeadLetterJob(p) \/ AddDeadLetterJobThrows(p)
           \/ Crash(p)
    PROVE  IInv'
<1>1. TypeOK /\ proc \in [Procs -> Proc]
  BY DEF IInv, TypeOK
<1>2. CASE \/ ScheduleRelay(p) \/ ScheduleRelayThrows(p) \/ FindPendingBatchThrows(p)
           \/ RelayDone(p) \/ AddDeadLetterJob(p) \/ Crash(p)
  <2>1. ToIdle(p) /\ UNCHANGED <<rows, published>>
    BY <1>2 DEF ScheduleRelay, ScheduleRelayThrows, FindPendingBatchThrows, RelayDone,
                AddDeadLetterJob, Crash
  <2>2. proc'[p].pc = "idle" /\ \A q \in Procs \ {p} : proc'[q] = proc[q]
    BY <1>1, <2>1 DEF ToIdle, IdleProc
  <2>3. QED
    BY <2>1, <2>2, QuietStep DEF OwnerPc
<1>3. CASE \/ Claim(p) /\ ~Claimable(proc[p].ev)
           \/ ClaimThrows(p) \/ ReadClaimedThrows(p) \/ AddDeadLetterJobThrows(p)
  <2>1. (Returns(p) \/ Throws(p)) /\ UNCHANGED <<rows, published>>
    BY <1>3 DEF Claim, ClaimThrows, ReadClaimedThrows, AddDeadLetterJobThrows
  <2>2. proc'[p].pc \in {"idle", "relay"} /\ \A q \in Procs \ {p} : proc'[q] = proc[q]
    BY <1>1, <2>1, Released
  <2>3. QED
    BY <2>1, <2>2, QuietStep DEF OwnerPc
<1>4. CASE TakeRelayJob(p) \/ FindPendingBatch(p)
  <2>1. UNCHANGED <<rows, published>>
    BY <1>4 DEF TakeRelayJob, FindPendingBatch
  <2>2. proc'[p].pc \in {"batch", "relay"} /\ \A q \in Procs \ {p} : proc'[q] = proc[q]
    BY <1>1, <1>4 DEF TakeRelayJob, FindPendingBatch, Goto, Proc
  <2>3. QED
    BY <2>1, <2>2, QuietStep DEF OwnerPc
<1>5. ASSUME NEW e \in Events, TakeOutboxJob(p, e) \/ RelayEvent(p, e)
      PROVE  IInv'
  <2>1. UNCHANGED <<rows, published>>
    BY <1>5 DEF TakeOutboxJob, RelayEvent
  <2>2. \/ proc' = [proc EXCEPT ![p].pc = "claim", ![p].ev = e]
        \/ proc' = [proc EXCEPT ![p].todo = @ \ {e}] /\ proc[p].pc = "relay"
        \/ proc' = [proc EXCEPT ![p].pc = "claim", ![p].ev = e, ![p].todo = @ \ {e}]
    BY <1>5 DEF TakeOutboxJob, RelayEvent
  <2>3. /\ (proc'[p].pc = "claim" /\ proc'[p].ev = e) \/ proc'[p].pc = "relay"
        /\ \A q \in Procs \ {p} : proc'[q] = proc[q]
    <3>1. CASE proc' = [proc EXCEPT ![p].pc = "claim", ![p].ev = e]
      BY <1>1, <3>1 DEF Proc
    <3>2. CASE proc' = [proc EXCEPT ![p].todo = @ \ {e}] /\ proc[p].pc = "relay"
      BY <1>1, <3>2 DEF Proc
    <3>3. CASE proc' = [proc EXCEPT ![p].pc = "claim", ![p].ev = e, ![p].todo = @ \ {e}]
      BY <1>1, <3>3 DEF Proc
    <3>4. QED
      BY <2>2, <3>1, <3>2, <3>3
  <2>4. QED
    BY <2>1, <2>3, QuietStep DEF OwnerPc
<1>6. ASSUME NEW e \in Events, RelayEventThrows(p, e)
      PROVE  IInv'
  <2>1. UNCHANGED <<rows, published>>
    BY <1>6 DEF RelayEventThrows
  <2>2. proc'[p].pc = "relay" /\ \A q \in Procs \ {p} : proc'[q] = proc[q]
    BY <1>1, <1>6 DEF RelayEventThrows, Proc
  <2>3. QED
    BY <2>1, <2>2, QuietStep DEF OwnerPc
<1>7. QED
  BY <1>2, <1>3, <1>4, <1>5, <1>6

LEMMA OthersDoNotOwn ==
    ASSUME IInv, NEW e \in Events, NEW p \in Procs, Owns(p, e)
    PROVE  \A q \in Procs \ {p} : ~Owns(q, e)
BY DEF IInv

\* A row that is owned is neither absent nor claimable.
LEMMA OwnedRow ==
    ASSUME IInv, NEW e \in Events, NEW p \in Procs, Owns(p, e)
    PROVE  rows[e].status \in {"PROCESSING", "PROCESSED"}
BY DEF IInv, Owns, OwnerPc, ProcessInformed

LEMMA CommitStep ==
    ASSUME IInv, TypeOK', NEW p \in Procs, NEW e \in Events, Commit(p, e)
    PROVE  IInv'
<1>1. /\ rows[e].status = "ABSENT" /\ UNCHANGED published
      /\ rows' = [rows EXCEPT ![e] = [status |-> "PENDING", attempts |-> 0,
                                      createdAt |-> Cardinality(Committed) + 1]]
      /\ Goto(p, IF QueueEnabled THEN "schedule" ELSE "batch")
  BY DEF Commit
<1>2. /\ rows \in [Events -> Row] /\ proc \in [Procs -> Proc]
      /\ published \in [Events -> Nat] /\ MaxAttempts \in Nat \ {0}
  BY ConstantsAssumption DEF IInv, TypeOK, ConstantsAssumption
<1>3. \A q \in Procs : ~Owns(q, e)
  BY <1>1, OwnedRow
<1>4. /\ \A q \in Procs \ {p} : proc'[q] = proc[q]
      /\ proc'[p].pc \in {"schedule", "batch"}
  BY <1>1, <1>2 DEF Goto, Proc
<1>5. /\ \A f \in Events \ {e} : rows'[f] = rows[f] /\ published'[f] = published[f]
      /\ rows'[e].status = "PENDING" /\ rows'[e].attempts = 0
      /\ published'[e] = published[e]
  BY <1>1, <1>2
<1>6. published[e] = 0
  BY <1>1 DEF IInv, RowAccounted
<1>7. RowAccounted(e)'
  <2>1. 0 < MaxAttempts
    BY <1>2
  <2>2. rows'[e].status = "PENDING" /\ rows'[e].attempts = 0 /\ published'[e] = 0
    BY <1>5, <1>6
  <2>3. QED
    BY <2>1, <2>2 DEF RowAccounted
<1>8. ProcessInformed(p)'
  BY <1>4 DEF ProcessInformed, OwnerPc
<1>9. proc'[p].pc \notin OwnerPc
  BY <1>4 DEF OwnerPc
<1>10. QED
  BY <1>3, <1>4, <1>5, <1>7, <1>8, <1>9, OwnerStep

LEMMA ClaimStep ==
    ASSUME IInv, TypeOK', NEW p \in Procs, NEW e \in Events, proc[p].ev = e,
           Claim(p), Claimable(e)
    PROVE  IInv'
<1>1. /\ proc[p].pc = "claim" /\ rows[e].status = "PENDING"
      /\ rows' = [rows EXCEPT ![e].status = "PROCESSING"]
      /\ Goto(p, "read") /\ UNCHANGED published
  BY DEF Claim, Claimable, SetStatus
<1>2. /\ rows \in [Events -> Row] /\ proc \in [Procs -> Proc]
      /\ published \in [Events -> Nat]
  BY DEF IInv, TypeOK
<1>3. RowAccounted(e)
  BY DEF IInv
<1>4. \A q \in Procs : ~Owns(q, e)
  BY <1>1, OwnedRow
<1>5. /\ \A q \in Procs \ {p} : proc'[q] = proc[q]
      /\ proc'[p].pc = "read" /\ proc'[p].ev = e
  BY <1>1, <1>2 DEF Goto, Proc
<1>6. /\ \A f \in Events \ {e} : rows'[f] = rows[f] /\ published'[f] = published[f]
      /\ rows'[e].status = "PROCESSING" /\ rows'[e].attempts = rows[e].attempts
      /\ published'[e] = published[e]
  BY <1>1, <1>2 DEF Row
<1>7. published[e] = rows[e].attempts /\ rows[e].attempts < MaxAttempts
  BY <1>1, <1>3 DEF RowAccounted
<1>8. RowAccounted(e)'
  BY <1>6, <1>7 DEF RowAccounted
<1>9. ProcessInformed(p)'
  BY <1>5, <1>6, <1>7 DEF ProcessInformed, OwnerPc
<1>10. QED
  BY <1>4, <1>5, <1>6, <1>8, <1>9, OwnerStep

\* What a process that owns e knows before its next step.
LEMMA OwnerFacts ==
    ASSUME IInv, NEW p \in Procs, NEW e \in Events, proc[p].ev = e,
           proc[p].pc \in OwnerPc
    PROVE  /\ RowAccounted(e) /\ ProcessInformed(p)
           /\ \A q \in Procs \ {p} : ~Owns(q, e)
           /\ rows \in [Events -> Row] /\ proc \in [Procs -> Proc]
           /\ published \in [Events -> Nat]
           /\ rows[e].attempts \in Nat
<1>1. Owns(p, e)
  BY DEF Owns
<1>2. \A q \in Procs \ {p} : ~Owns(q, e)
  BY <1>1, OthersDoNotOwn
<1>3. /\ rows \in [Events -> Row] /\ proc \in [Procs -> Proc]
      /\ published \in [Events -> Nat]
  BY DEF IInv, TypeOK
<1>4. QED
  BY <1>2, <1>3 DEF IInv, Row

LEMMA ReadClaimedStep ==
    ASSUME IInv, TypeOK', NEW p \in Procs, NEW e \in Events, proc[p].ev = e,
           ReadClaimed(p)
    PROVE  IInv'
<1>1. /\ proc[p].pc = "read"
      /\ proc' = [proc EXCEPT ![p].pc = "publish", ![p].seen = rows[e].attempts]
      /\ UNCHANGED <<rows, published>>
  BY DEF ReadClaimed
<1>2. proc[p].pc \in OwnerPc
  BY <1>1 DEF OwnerPc
<1>3. /\ \A q \in Procs \ {p} : proc'[q] = proc[q] /\ ~Owns(q, e)
      /\ proc'[p].pc = "publish" /\ proc'[p].ev = e /\ proc'[p].seen = rows[e].attempts
  BY <1>1, <1>2, OwnerFacts DEF Proc
<1>4. rows[e].status = "PROCESSING" /\ published[e] = rows[e].attempts
  BY <1>1, <1>2, OwnerFacts DEF ProcessInformed
<1>5. RowAccounted(e)'
  BY <1>1 DEF IInv, RowAccounted
<1>6. ProcessInformed(p)'
  BY <1>1, <1>3, <1>4 DEF ProcessInformed, OwnerPc
<1>7. QED
  BY <1>1, <1>3, <1>5, <1>6, OwnerStep

LEMMA PublishStep ==
    ASSUME IInv, TypeOK', NEW p \in Procs, NEW e \in Events, proc[p].ev = e,
           Publish(p)
    PROVE  IInv'
<1>1. /\ proc[p].pc = "publish"
      /\ published' = [published EXCEPT ![e] = @ + 1]
      /\ Goto(p, "mark") /\ UNCHANGED rows
  BY DEF Publish
<1>2. proc[p].pc \in OwnerPc
  BY <1>1 DEF OwnerPc
<1>3. /\ \A q \in Procs \ {p} : proc'[q] = proc[q] /\ ~Owns(q, e)
      /\ proc'[p].pc = "mark" /\ proc'[p].ev = e /\ proc'[p].seen = proc[p].seen
  BY <1>1, <1>2, OwnerFacts DEF Goto, Proc
<1>4. /\ rows[e].status = "PROCESSING" /\ published[e] = rows[e].attempts
      /\ proc[p].seen = rows[e].attempts
  BY <1>1, <1>2, OwnerFacts DEF ProcessInformed
<1>5. /\ published'[e] = rows[e].attempts + 1
      /\ \A f \in Events \ {e} : rows'[f] = rows[f] /\ published'[f] = published[f]
  BY <1>1, <1>2, <1>4, OwnerFacts
<1>6. rows[e].attempts < MaxAttempts
  BY <1>2, <1>4, OwnerFacts DEF RowAccounted
<1>7. RowAccounted(e)'
  BY <1>1, <1>4, <1>5, <1>6 DEF RowAccounted
<1>8. ProcessInformed(p)'
  BY <1>1, <1>3, <1>4, <1>5 DEF ProcessInformed, OwnerPc
<1>9. QED
  BY <1>3, <1>5, <1>7, <1>8, OwnerStep

LEMMA MarkProcessedStep ==
    ASSUME IInv, TypeOK', NEW p \in Procs, NEW e \in Events, proc[p].ev = e,
           MarkProcessed(p)
    PROVE  IInv'
<1>1. /\ proc[p].pc = "mark"
      /\ rows' = [rows EXCEPT ![e].status = "PROCESSED"]
      /\ Returns(p) /\ UNCHANGED published
  BY DEF MarkProcessed, SetStatus
<1>2. proc[p].pc \in OwnerPc
  BY <1>1 DEF OwnerPc
<1>3. /\ \A q \in Procs \ {p} : proc'[q] = proc[q] /\ ~Owns(q, e)
      /\ proc'[p].pc \in {"idle", "relay"}
  BY <1>1, <1>2, OwnerFacts, Released DEF IInv
<1>4. rows[e].status = "PROCESSING" /\ published[e] = rows[e].attempts + 1
  BY <1>1, <1>2, OwnerFacts DEF ProcessInformed
<1>5. rows[e].attempts < MaxAttempts
  BY <1>2, <1>4, OwnerFacts DEF RowAccounted
<1>6. /\ rows'[e].status = "PROCESSED" /\ rows'[e].attempts = rows[e].attempts
      /\ published'[e] = published[e]
      /\ \A f \in Events \ {e} : rows'[f] = rows[f] /\ published'[f] = published[f]
  BY <1>1, <1>2, OwnerFacts DEF Row
<1>7. RowAccounted(e)'
  BY <1>4, <1>5, <1>6 DEF RowAccounted
<1>8. ProcessInformed(p)' /\ proc'[p].pc \notin OwnerPc
  BY <1>3 DEF ProcessInformed, OwnerPc
<1>9. QED
  BY <1>3, <1>6, <1>7, <1>8, OwnerStep

LEMMA MarkProcessedThrowsStep ==
    ASSUME ConstantsAssumption, IInv, TypeOK', NEW p \in Procs, NEW e \in Events,
           proc[p].ev = e, MarkProcessedThrows(p)
    PROVE  IInv'
<1>1. /\ proc[p].pc = "mark" /\ Goto(p, "catch") /\ UNCHANGED published
      /\ \/ UNCHANGED rows
         \/ "reply" \in FaultKinds /\ rows' = [rows EXCEPT ![e].status = "PROCESSED"]
  BY DEF MarkProcessedThrows, SetStatus, Fault
<1>2. proc[p].pc \in OwnerPc
  BY <1>1 DEF OwnerPc
<1>3. /\ \A q \in Procs \ {p} : proc'[q] = proc[q] /\ ~Owns(q, e)
      /\ proc'[p].pc = "catch" /\ proc'[p].ev = e /\ proc'[p].seen = proc[p].seen
  BY <1>1, <1>2, OwnerFacts DEF Goto, Proc
<1>4. /\ rows[e].status = "PROCESSING" /\ published[e] = rows[e].attempts + 1
      /\ proc[p].seen = rows[e].attempts
  BY <1>1, <1>2, OwnerFacts DEF ProcessInformed
<1>5. rows[e].attempts < MaxAttempts
  BY <1>2, <1>4, OwnerFacts DEF RowAccounted
<1>6. /\ \/ rows'[e].status = "PROCESSING"
         \/ rows'[e].status = "PROCESSED" /\ "reply" \in FaultKinds
      /\ rows'[e].attempts = rows[e].attempts /\ published'[e] = published[e]
      /\ \A f \in Events \ {e} : rows'[f] = rows[f] /\ published'[f] = published[f]
  <2>1. CASE UNCHANGED rows
    BY <1>1, <1>4, <2>1
  <2>2. CASE "reply" \in FaultKinds /\ rows' = [rows EXCEPT ![e].status = "PROCESSED"]
    BY <1>1, <1>2, <2>2, OwnerFacts DEF Row
  <2>3. QED
    BY <1>1, <2>1, <2>2
<1>7. RowAccounted(e)'
  BY <1>4, <1>5, <1>6 DEF RowAccounted
<1>8. ProcessInformed(p)'
  BY <1>3, <1>4, <1>6 DEF ProcessInformed, OwnerPc
<1>9. QED
  BY <1>3, <1>6, <1>7, <1>8, OwnerStep

\* The catch block's update accounts for the publication it follows.
LEMMA RecordFailureAccounts ==
    ASSUME ConstantsAssumption, IInv, NEW p \in Procs, NEW e \in Events,
           proc[p].ev = e, proc[p].pc = "catch", RecordFailure(p), UNCHANGED published
    PROVE  /\ RowAccounted(e)'
           /\ \A f \in Events \ {e} : rows'[f] = rows[f]
<1>1. proc[p].pc \in OwnerPc
  BY DEF OwnerPc
<1>2. /\ published[e] = rows[e].attempts + 1
      /\ proc[p].seen = rows[e].attempts
      /\ rows[e].status \in {"PROCESSING", "PROCESSED"}
  BY <1>1, OwnerFacts DEF ProcessInformed
<1>3. /\ rows[e].attempts < MaxAttempts /\ rows[e].attempts \in Nat
      /\ rows \in [Events -> Row]
  BY <1>1, <1>2, OwnerFacts DEF RowAccounted
<1>4. MaxAttempts \in Nat
  BY DEF ConstantsAssumption
<1>5. rows' = [rows EXCEPT ![e].status = IF rows[e].attempts + 1 >= MaxAttempts
                                         THEN "FAILED" ELSE "PENDING",
                           ![e].attempts = rows[e].attempts + 1]
  BY <1>2 DEF RecordFailure, SetOutcome
<1>6. /\ rows'[e].status = IF rows[e].attempts + 1 >= MaxAttempts
                           THEN "FAILED" ELSE "PENDING"
      /\ rows'[e].attempts = rows[e].attempts + 1
      /\ \A f \in Events \ {e} : rows'[f] = rows[f]
  BY <1>3, <1>5 DEF Row
<1>7. published'[e] = rows'[e].attempts
  BY <1>2, <1>6
<1>8. CASE rows[e].attempts + 1 >= MaxAttempts
  <2>1. rows'[e].status = "FAILED" /\ rows'[e].attempts = MaxAttempts
    BY <1>3, <1>4, <1>6, <1>8
  <2>2. QED
    BY <1>6, <1>7, <2>1 DEF RowAccounted
<1>9. CASE ~(rows[e].attempts + 1 >= MaxAttempts)
  <2>1. rows'[e].status = "PENDING" /\ rows'[e].attempts < MaxAttempts
    BY <1>3, <1>4, <1>6, <1>9
  <2>2. QED
    BY <1>6, <1>7, <2>1 DEF RowAccounted
<1>10. QED
  BY <1>8, <1>9

LEMMA CatchStep ==
    ASSUME ConstantsAssumption, IInv, TypeOK', NEW p \in Procs, NEW e \in Events,
           proc[p].ev = e, CatchFailure(p) \/ CatchFailureThrows(p)
    PROVE  IInv'
<1>1. /\ proc[p].pc = "catch" /\ UNCHANGED published
      /\ RecordFailure(p) \/ UNCHANGED rows
      /\ Returns(p) \/ Throws(p) \/ Goto(p, "deadletter")
  BY DEF CatchFailure, CatchFailureThrows
<1>2. proc[p].pc \in OwnerPc
  BY <1>1 DEF OwnerPc
<1>3. \A q \in Procs \ {p} : ~Owns(q, e)
  BY <1>2, OwnerFacts
<1>4. /\ \A q \in Procs \ {p} : proc'[q] = proc[q]
      /\ \/ proc'[p].pc \in {"idle", "relay"}
         \/ proc'[p].pc = "deadletter" /\ proc'[p].ev = e
  <2>1. CASE Returns(p) \/ Throws(p)
    BY <2>1, Released DEF IInv
  <2>2. CASE Goto(p, "deadletter")
    BY <1>2, <2>2, OwnerFacts DEF Goto, Proc
  <2>3. QED
    BY <1>1, <2>1, <2>2
<1>5. /\ RowAccounted(e)'
      /\ \A f \in Events \ {e} : rows'[f] = rows[f] /\ published'[f] = published[f]
  <2>1. CASE RecordFailure(p)
    BY <1>1, <2>1, RecordFailureAccounts
  <2>2. CASE UNCHANGED rows
    BY <1>1, <2>2 DEF IInv, RowAccounted
  <2>3. QED
    BY <1>1, <2>1, <2>2
<1>6. ProcessInformed(p)' /\ proc'[p].pc \notin OwnerPc
  BY <1>4 DEF ProcessInformed, OwnerPc
<1>7. QED
  BY <1>3, <1>4, <1>5, <1>6, OwnerStep

LEMMA TickStep ==
    ASSUME IInv, TypeOK', UNCHANGED <<rows, proc, published>>
    PROVE  IInv'
BY DEF IInv, RowAccounted, ProcessInformed, Owns

-----------------------------------------------------------------------------
(* The three facts of the invariance argument *)

LEMMA InitInv ==
    ASSUME ConstantsAssumption, Init
    PROVE  IInv
<1>1. 0 < MaxAttempts /\ 0 \in 0..MaxRelayJobs /\ 0 \in 0..MaxFaults
  BY DEF ConstantsAssumption
<1>2. TypeOK
  <2>1. IdleProc \in Proc
    BY DEF IdleProc, Proc, Pc
  <2>2. NoJob \in Job
    BY DEF NoJob, Job, JobState
  <2>3. <<>> \in Seq(Events \cup {"relay"})
    OBVIOUS
  <2>4. rows \in [Events -> Row]
    BY DEF Init, Row, RowStatus
  <2>5. QED
    BY <1>1, <2>1, <2>2, <2>3, <2>4 DEF Init, TypeOK
<1>3. ASSUME NEW e \in Events PROVE RowAccounted(e)
  BY <1>1 DEF Init, RowAccounted
<1>4. \A p \in Procs : proc[p].pc = "idle"
  BY DEF Init, IdleProc
<1>5. QED
  BY <1>2, <1>3, <1>4 DEF IInv, ProcessInformed, Owns, OwnerPc

LEMMA InvStep ==
    ASSUME ConstantsAssumption, IInv, [Next]_vars
    PROVE  IInv'
<1>1. CASE UNCHANGED vars
  BY <1>1 DEF vars, IInv, TypeOK, RowAccounted, ProcessInformed, Owns
<1>2. CASE Next
  <2> USE <1>2
  <2>1. TypeOK'
    BY TypeStep
  <2>2. CASE RelayTick
    BY <2>1, <2>2, TickStep DEF RelayTick
  <2>3. ASSUME NEW p \in Procs, NEW e \in Events, Commit(p, e) \/ TakeOutboxJob(p, e)
        PROVE  IInv'
    BY <2>1, <2>3, CommitStep, QuietActions
  <2>4. ASSUME NEW p \in Procs, TakeRelayJob(p)
        PROVE  IInv'
    BY <2>1, <2>4, QuietActions
  <2>5. ASSUME NEW p \in Procs, Run(p)
        PROVE  IInv'
    <3>1. CASE \/ ScheduleRelay(p) \/ FindPendingBatch(p) \/ RelayDone(p)
               \/ AddDeadLetterJob(p)
      BY <2>1, <3>1, QuietActions
    <3>2. ASSUME NEW e \in Events, RelayEvent(p, e) PROVE IInv'
      BY <2>1, <3>2, QuietActions
    <3>3. CASE Claim(p)
      <4>1. proc[p].ev \in Events
        BY <3>3, HasEvent DEF Claim
      <4>2. QED
        BY <2>1, <3>3, <4>1, ClaimStep, QuietActions
    <3>4. CASE ReadClaimed(p) \/ Publish(p) \/ MarkProcessed(p) \/ CatchFailure(p)
      <4>1. proc[p].ev \in Events
        BY <3>4, HasEvent DEF ReadClaimed, Publish, MarkProcessed, CatchFailure, OwnerPc
      <4>2. QED
        BY <2>1, <3>4, <4>1, ReadClaimedStep, PublishStep, MarkProcessedStep, CatchStep
    <3>5. QED
      BY <2>5, <3>1, <3>2, <3>3, <3>4 DEF Run
  <2>6. ASSUME NEW p \in Procs, Faulty(p)
        PROVE  IInv'
    <3>1. CASE \/ ScheduleRelayThrows(p) \/ FindPendingBatchThrows(p)
               \/ ClaimThrows(p) \/ ReadClaimedThrows(p)
               \/ AddDeadLetterJobThrows(p) \/ Crash(p)
      BY <2>1, <3>1, QuietActions
    <3>2. ASSUME NEW e \in Events, RelayEventThrows(p, e) PROVE IInv'
      BY <2>1, <3>2, QuietActions
    <3>3. CASE MarkProcessedThrows(p) \/ CatchFailureThrows(p)
      <4>1. proc[p].ev \in Events
        BY <3>3, HasEvent DEF MarkProcessedThrows, CatchFailureThrows, OwnerPc
      <4>2. QED
        BY <2>1, <3>3, <4>1, MarkProcessedThrowsStep, CatchStep
    <3>4. QED
      BY <2>6, <3>1, <3>2, <3>3 DEF Faulty
  <2>7. ASSUME NEW e \in Events, ReportJob(e) \/ ReportJobFails(e)
        PROVE  IInv'
    <3>1. UNCHANGED <<rows, proc, published>>
      BY <2>7 DEF ReportJob, ReportJobFails
    <3>2. QED
      BY <2>1, <3>1, TickStep
  <2>8. QED
    BY <2>2, <2>3, <2>4, <2>5, <2>6, <2>7 DEF Next
<1>3. QED
  BY <1>1, <1>2

LEMMA Invariance == Spec => []IInv
<1>1. Init => IInv
  BY ConstantsAssumption, InitInv
<1>2. IInv /\ [Next]_vars => IInv'
  BY ConstantsAssumption, InvStep
<1>3. QED
  BY <1>1, <1>2, PTL DEF Spec

-----------------------------------------------------------------------------
(* The theorems *)

\* Every variable keeps its type, for any number of events, processes, attempts
\* and faults: in particular processEvent never runs without an event.
THEOREM TypeCorrect == Spec => []TypeOK
<1>1. IInv => TypeOK
  BY DEF IInv
<1>2. QED
  BY <1>1, Invariance, PTL

\* The claim of claimForProcessing is a lock, whatever relays, jobs, retries,
\* crashes and lost replies overlap.
THEOREM ExclusiveClaimCorrect == Spec => []ExclusiveClaim
<1>1. IInv => ExclusiveClaim
  <2> SUFFICES ASSUME IInv PROVE ExclusiveClaim
    OBVIOUS
  <2>1. ASSUME NEW e \in Events, NEW p \in Procs, Owns(p, e) PROVE ~Claimable(e)
    BY <2>1, OwnedRow DEF Claimable
  <2>2. QED
    BY <2>1 DEF ExclusiveClaim, IInv
<1>2. QED
  BY <1>1, Invariance, PTL

\* The attempts column counts publications, and never more than MaxAttempts.
THEOREM PublicationsCorrect == Spec => []PublicationsAccounted
<1>1. IInv => PublicationsAccounted
  <2> SUFFICES ASSUME IInv, NEW e \in Events
               PROVE  /\ published[e] \in {rows[e].attempts, rows[e].attempts + 1}
                      /\ published[e] <= MaxAttempts
                      /\ rows[e].status = "PROCESSED" => published[e] > 0
                      /\ rows[e].status = "FAILED" => published[e] = MaxAttempts
    BY DEF PublicationsAccounted
  <2>1. /\ rows[e].attempts \in Nat /\ rows[e].status \in RowStatus
        /\ RowAccounted(e) /\ MaxAttempts \in Nat
    BY ConstantsAssumption DEF IInv, TypeOK, Row, ConstantsAssumption
  <2>2. QED
    BY <2>1 DEF RowAccounted, RowStatus
<1>2. QED
  BY <1>1, Invariance, PTL

\* A PENDING row always has an attempt left, so findPendingBatch never skips it.
THEOREM PendingCorrect == Spec => []PendingIsRelayable
<1>1. IInv => PendingIsRelayable
  BY DEF IInv, RowAccounted, PendingIsRelayable
<1>2. QED
  BY <1>1, Invariance, PTL
-----------------------------------------------------------------------------
(* The queue: one runner per job                                           *)

SingleRunner ==
    \A e \in Events : \A p, q \in Procs : proc[p].ev = e /\ proc[q].ev = e => p = q

RunnersActive ==
    \A e \in Events : (\E p \in Procs : proc[p].ev = e) <=> job[e].state = "active"

ListedOnce ==
    \A e \in Events : \A i, j \in 1..Len(completed) :
        completed[i] = e /\ completed[j] = e => i = j

ListedCompleted ==
    \A e \in Events :
        (\E i \in 1..Len(completed) : completed[i] = e) <=> job[e].state = "completed"

LEMMA RunnersRestated ==
    /\ OneRunnerPerJob <=> (QueueEnabled => SingleRunner /\ RunnersActive)
    /\ OneRunnerPerJob' <=> (QueueEnabled => SingleRunner' /\ RunnersActive')
<1>1. OneRunnerPerJob <=> (QueueEnabled => SingleRunner /\ RunnersActive)
  BY DEF OneRunnerPerJob, SingleRunner, RunnersActive
<1>2. OneRunnerPerJob' <=> (QueueEnabled => SingleRunner' /\ RunnersActive')
  BY DEF OneRunnerPerJob, SingleRunner, RunnersActive
<1>3. QED
  BY <1>1, <1>2

LEMMA CompletedRestated ==
    /\ CompletedSetIsExact
          <=> Len(completed) <= KeepCompleted /\ ListedOnce /\ ListedCompleted
    /\ CompletedSetIsExact'
          <=> Len(completed') <= KeepCompleted /\ ListedOnce' /\ ListedCompleted'
<1>1. CompletedSetIsExact
         <=> Len(completed) <= KeepCompleted /\ ListedOnce /\ ListedCompleted
  BY DEF CompletedSetIsExact, ListedOnce, ListedCompleted
<1>2. CompletedSetIsExact'
         <=> Len(completed') <= KeepCompleted /\ ListedOnce' /\ ListedCompleted'
  BY DEF CompletedSetIsExact, ListedOnce, ListedCompleted
<1>3. QED
  BY <1>1, <1>2

\* One process exchanges the event it holds, and the active jobs follow.
LEMMA RunnerMoves ==
    ASSUME SingleRunner, RunnersActive, NEW p \in Procs,
           \A q \in Procs \ {p} : proc'[q].ev = proc[q].ev,
           \A f \in Events \ {proc[p].ev, proc'[p].ev} :
               job'[f].state = "active" <=> job[f].state = "active",
           proc[p].ev \in Events /\ proc[p].ev # proc'[p].ev
               => job'[proc[p].ev].state # "active",
           proc'[p].ev \in Events
               => /\ job'[proc'[p].ev].state = "active"
                  /\ proc[p].ev = proc'[p].ev \/ job[proc'[p].ev].state # "active"
    PROVE  SingleRunner' /\ RunnersActive'
<1>1. SingleRunner'
  <2> SUFFICES ASSUME NEW e \in Events, NEW q \in Procs, NEW r \in Procs,
                      proc'[q].ev = e, proc'[r].ev = e
               PROVE  q = r
    BY DEF SingleRunner
  <2>1. ASSUME NEW s \in Procs, s # p, proc'[s].ev = e, proc'[p].ev = e
        PROVE  FALSE
    <3>1. job[e].state = "active" /\ proc[s].ev = e
      BY <2>1 DEF RunnersActive
    <3>2. proc[p].ev = e
      BY <2>1, <3>1
    <3>3. QED
      BY <2>1, <3>1, <3>2 DEF SingleRunner
  <2>2. CASE q # p /\ r # p
    BY <2>2 DEF SingleRunner
  <2>3. QED
    BY <2>1, <2>2
<1>2. RunnersActive'
  <2> SUFFICES ASSUME NEW e \in Events
               PROVE  (\E q \in Procs : proc'[q].ev = e) <=> job'[e].state = "active"
    BY DEF RunnersActive
  <2>1. CASE e = proc'[p].ev
    BY <2>1
  <2>2. CASE e # proc'[p].ev /\ e = proc[p].ev
    <3>1. \A q \in Procs : proc'[q].ev # e
      BY <2>2 DEF SingleRunner
    <3>2. QED
      BY <2>2, <3>1
  <2>3. CASE e # proc'[p].ev /\ e # proc[p].ev
    <3>1. job'[e].state = "active" <=> job[e].state = "active"
      BY <2>3
    <3>2. (\E q \in Procs : proc'[q].ev = e) <=> (\E q \in Procs : proc[q].ev = e)
      BY <2>3
    <3>3. QED
      BY <3>1, <3>2 DEF RunnersActive
  <2>4. QED
    BY <2>1, <2>2, <2>3
<1>3. QED
  BY <1>1, <1>2

LEMMA CompletedStays ==
    ASSUME CompletedSetIsExact, UNCHANGED completed,
           \A e \in Events : job'[e].state = "completed" <=> job[e].state = "completed"
    PROVE  CompletedSetIsExact'
BY DEF CompletedSetIsExact

\* The completed set after a job that it did not list has ended.
LEMMA CompletionLists ==
    ASSUME ConstantsAssumption, TypeOK, Len(completed) <= KeepCompleted,
           NEW j \in Events \cup {"relay"}, completed' = AfterCompletion(j)
    PROVE  /\ Len(completed') \in 1..KeepCompleted
           /\ completed'[Len(completed')] = j
           /\ \E d \in {0, 1} :
                 /\ Len(completed') = Len(completed) + 1 - d
                 /\ \A i \in 1..(Len(completed') - 1) : completed'[i] = completed[i + d]
                 /\ d = 0 => Evicted = {}
                 /\ d = 1 => Len(completed) > 0 /\ Evicted = {completed[1]}
<1>1. completed \in Seq(Events \cup {"relay"}) /\ KeepCompleted \in Nat \ {0}
  BY DEF TypeOK, ConstantsAssumption
<1>2. CASE Len(completed) < KeepCompleted
  <2>1. completed' = Append(completed, j) /\ Evicted = {}
    BY <1>2 DEF AfterCompletion, Evicted
  <2>2. QED
    BY <1>1, <1>2, <2>1
<1>3. CASE ~(Len(completed) < KeepCompleted)
  <2>1. /\ completed' = Append(Tail(completed), j)
        /\ Evicted = {completed[1]} /\ Len(completed) = KeepCompleted
    BY <1>1, <1>3 DEF AfterCompletion, Evicted
  <2>2. /\ Tail(completed) \in Seq(Events \cup {"relay"})
        /\ Len(Tail(completed)) = Len(completed) - 1
        /\ \A i \in 1..Len(Tail(completed)) : Tail(completed)[i] = completed[i + 1]
    BY <1>1, <2>1, HeadTailProperties
  <2>3. /\ Len(completed') = Len(completed) /\ completed'[Len(completed')] = j
        /\ \A i \in 1..(Len(completed') - 1) : completed'[i] = completed[i + 1]
    <3> DEFINE T == Tail(completed)
    <3>1. T \in Seq(Events \cup {"relay"}) /\ Len(T) = Len(completed) - 1
      BY <2>2
    <3>2. completed' = Append(T, j)
      BY <2>1
    <3>3. /\ Len(completed') = Len(T) + 1 /\ completed'[Len(T) + 1] = j
          /\ \A i \in 1..Len(T) : completed'[i] = T[i]
      <4> HIDE DEF T
      <4>1. QED
        BY <3>1, <3>2
    <3>4. QED
      BY <1>1, <2>2, <3>1, <3>3
  <2>4. QED
    BY <1>1, <2>1, <2>3
<1>4. QED
  BY <1>2, <1>3

\* A job that ends is listed, and the one cut off for it is stored no longer.
LEMMA CompleteJobKeeps ==
    ASSUME ConstantsAssumption, TypeOK, CompletedSetIsExact,
           NEW j \in Events \cup {"relay"}, CompleteJob(j),
           j \in Events => job[j].state # "completed"
    PROVE  /\ CompletedSetIsExact'
           /\ j \in Events => job'[j].state = "completed"
           /\ \A f \in Events \ {j} : job'[f].state = "active" <=> job[f].state = "active"
<1> DEFINE n == Len(completed)
           m == Len(completed')
<1>1. /\ n <= KeepCompleted /\ ListedOnce /\ ListedCompleted
      /\ completed \in Seq(Events \cup {"relay"}) /\ n \in Nat
      /\ job \in [Events -> Job] /\ "relay" \notin Events
  BY CompletedRestated DEF TypeOK, ConstantsAssumption
<1>2. /\ completed' = AfterCompletion(j)
      /\ job' = [e \in Events |-> IF e = j THEN [job[e] EXCEPT !.state = "completed"]
                                  ELSE IF e \in Evicted THEN NoJob ELSE job[e]]
  BY DEF CompleteJob
<1>3. /\ m \in 1..KeepCompleted /\ completed'[m] = j
  BY <1>1, <1>2, CompletionLists
<1>4. PICK d \in {0, 1} :
         /\ m = n + 1 - d
         /\ \A i \in 1..(m - 1) : completed'[i] = completed[i + d]
         /\ d = 0 => Evicted = {}
         /\ d = 1 => n > 0 /\ Evicted = {completed[1]}
  BY <1>1, <1>2, CompletionLists
<1>5. j \in Events => job'[j].state = "completed"
  BY <1>1, <1>2 DEF Job
<1>6. \A i \in 1..n : completed[i] # j \/ j = "relay"
  BY <1>1 DEF ListedCompleted
<1>7. ListedOnce'
  <2> SUFFICES ASSUME NEW e \in Events, NEW i \in 1..m, NEW k \in 1..m,
                      completed'[i] = e, completed'[k] = e
               PROVE  i = k
    BY DEF ListedOnce
  <2>1. ASSUME NEW x \in 1..m, completed'[x] = e, x # m
        PROVE  x \in 1..(m - 1) /\ x + d \in 1..n /\ completed[x + d] = e
    <3>1. x \in 1..(m - 1)
      BY <1>3, <2>1
    <3>2. completed'[x] = completed[x + d]
      BY <1>4, <3>1
    <3>3. m = n + 1 - d /\ d \in {0, 1} /\ n \in Nat
      BY <1>1, <1>4
    <3>4. x + d \in 1..n
      BY <3>1, <3>3
    <3>5. QED
      BY <2>1, <3>1, <3>2, <3>4
  <2>2. CASE i = m /\ k = m
    BY <2>2
  <2>3. CASE (i = m /\ k # m) \/ (i # m /\ k = m)
    <3>1. e = j
      BY <1>3, <2>3
    <3>2. QED
      BY <1>1, <1>6, <2>1, <2>3, <3>1
  <2>4. CASE i # m /\ k # m
    <3>1. i + d = k + d
      BY <1>1, <2>1, <2>4 DEF ListedOnce
    <3>2. QED
      BY <1>4, <3>1
  <2>5. QED
    BY <2>2, <2>3, <2>4
<1>8. ASSUME NEW e \in Events, e # j
      PROVE  /\ job'[e].state = "active" <=> job[e].state = "active"
             /\ job'[e].state = "completed" <=> job[e].state = "completed" /\ e \notin Evicted
             /\ (\E i \in 1..m : completed'[i] = e)
                   <=> (\E i \in 1..n : completed[i] = e) /\ e \notin Evicted
  <2>1. e \in Evicted => job[e].state = "completed"
    <3> SUFFICES ASSUME e \in Evicted PROVE job[e].state = "completed"
      OBVIOUS
    <3>1. d = 1 /\ n > 0 /\ completed[1] = e
      BY <1>4
    <3>2. 1 \in 1..Len(completed)
      BY <1>1, <3>1
    <3>3. QED
      BY <1>1, <3>1, <3>2 DEF ListedCompleted
  <2>2. job'[e] = IF e \in Evicted THEN NoJob ELSE job[e]
    BY <1>2, <1>8
  <2>3. ASSUME NEW i \in 1..m, completed'[i] = e
        PROVE  (\E k \in 1..n : completed[k] = e) /\ e \notin Evicted
    <3>1. i \in 1..(m - 1)
      BY <1>3, <1>8, <2>3
    <3>2. i + d \in 1..n /\ completed[i + d] = e
      BY <1>1, <1>3, <1>4, <2>3, <3>1
    <3>3. d = 1 => completed[1] # e
      <4> SUFFICES ASSUME d = 1, completed[1] = e PROVE FALSE
        OBVIOUS
      <4>1. 1 \in 1..n /\ i + 1 \in 1..n /\ i + 1 # 1
        BY <1>1, <3>1, <3>2
      <4>2. QED
        BY <1>1, <3>2, <4>1 DEF ListedOnce
    <3>4. QED
      BY <1>4, <3>2, <3>3
  <2>4. ASSUME NEW k \in 1..n, completed[k] = e, e \notin Evicted
        PROVE  \E i \in 1..m : completed'[i] = e
    <3>1. k - d \in 1..(m - 1)
      BY <1>1, <1>4, <2>4
    <3>2. completed'[k - d] = completed[(k - d) + d] /\ (k - d) + d = k
      BY <1>4, <3>1
    <3>3. k - d \in 1..m
      BY <1>3, <3>1
    <3>4. QED
      BY <2>4, <3>2, <3>3
  <2>5. QED
    BY <2>1, <2>2, <2>3, <2>4 DEF NoJob
<1>9. ListedCompleted'
  <2> SUFFICES ASSUME NEW e \in Events
               PROVE  (\E i \in 1..m : completed'[i] = e) <=> job'[e].state = "completed"
    BY DEF ListedCompleted
  <2>1. CASE e = j
    BY <1>3, <1>5, <2>1
  <2>2. CASE e # j
    BY <1>1, <1>8, <2>2 DEF ListedCompleted
  <2>3. QED
    BY <2>1, <2>2
<1>10. CompletedSetIsExact'
  BY <1>3, <1>7, <1>9, CompletedRestated
<1>11. QED
  BY <1>5, <1>8, <1>10

\* A job that failed is stored as waiting or as failed, the others as before.
LEMMA FailJobKeeps ==
    ASSUME TypeOK, CompletedSetIsExact, NEW e \in Events, FailJob(e), UNCHANGED completed,
           job[e].state # "completed"
    PROVE  /\ CompletedSetIsExact'
           /\ job'[e].state \in {"waiting", "failing"}
           /\ \A f \in Events \ {e} : job'[f] = job[f]
<1>1. job \in [Events -> Job]
  BY DEF TypeOK
<1>2. /\ job'[e].state \in {"waiting", "failing"}
      /\ \A f \in Events \ {e} : job'[f] = job[f]
  BY <1>1 DEF FailJob
<1>3. \A f \in Events : job'[f].state = "completed" <=> job[f].state = "completed"
  BY <1>2
<1>4. QED
  BY <1>2, <1>3, CompletedStays

\* The same is true of a job that lost its worker.
LEMMA StallJobKeeps ==
    ASSUME TypeOK, CompletedSetIsExact, NEW e \in Events, StallJob(e), UNCHANGED completed,
           job[e].state # "completed"
    PROVE  /\ CompletedSetIsExact'
           /\ job'[e].state \in {"waiting", "failing", "failed"}
           /\ \A f \in Events \ {e} : job'[f] = job[f]
<1>1. CASE FailJob(e)
  BY <1>1, FailJobKeeps
<1>2. CASE job' \in { [job EXCEPT ![e].state = "waiting", ![e].stalled = TRUE],
                      [job EXCEPT ![e].state = "failed"] }
  <2>1. /\ job'[e].state \in {"waiting", "failed"}
        /\ \A f \in Events \ {e} : job'[f] = job[f]
    BY <1>2 DEF TypeOK, Job
  <2>2. \A f \in Events : job'[f].state = "completed" <=> job[f].state = "completed"
    BY <2>1
  <2>3. QED
    BY <2>1, <2>2, CompletedStays
<1>3. QED
  BY <1>1, <1>2 DEF StallJob

\* What is left to show of a step of one process with the queue ...
LEMMA QueueOn ==
    ASSUME QueueInv, QueueEnabled, NEW p \in Procs,
           \A q \in Procs \ {p} : proc'[q] = proc[q],
           proc'[p].ev # NoEvent <=> HoldsEvent(p)',
           SingleRunner' /\ RunnersActive', CompletedSetIsExact'
    PROVE  QueueInv'
<1>1. OneRunnerPerJob'
  BY RunnersRestated
<1>2. ASSUME NEW q \in Procs PROVE proc'[q].ev # NoEvent <=> HoldsEvent(q)'
  BY DEF QueueInv, HoldsEvent
<1>3. QED
  BY <1>1, <1>2 DEF QueueInv

\* ... and without it.
LEMMA QueueOff ==
    ASSUME QueueInv, ~QueueEnabled, NEW p \in Procs,
           \A q \in Procs \ {p} : proc'[q] = proc[q],
           proc'[p].ev # NoEvent <=> HoldsEvent(p)',
           proc'[p].pc # "deadletter",
           UNCHANGED <<job, completed>>
    PROVE  QueueInv'
<1>1. CompletedSetIsExact' /\ OneRunnerPerJob'
  BY DEF QueueInv, CompletedSetIsExact, OneRunnerPerJob
<1>2. ASSUME NEW q \in Procs
      PROVE  (proc'[q].ev # NoEvent <=> HoldsEvent(q)') /\ proc'[q].pc # "deadletter"
  BY DEF QueueInv, HoldsEvent
<1>3. QED
  BY <1>1, <1>2 DEF QueueInv

\* The facts of the invariant that the steps use.
LEMMA QueueFacts ==
    ASSUME ConstantsAssumption, IInv, QueueInv, NEW p \in Procs
    PROVE  /\ TypeOK /\ proc \in [Procs -> Proc] /\ job \in [Events -> Job]
           /\ proc[p].ev # NoEvent <=> HoldsEvent(p)
           /\ proc[p].ev # NoEvent <=> proc[p].ev \in Events
           /\ CompletedSetIsExact /\ NoEvent \notin Events /\ "relay" \notin Events
           /\ QueueEnabled => SingleRunner /\ RunnersActive
           /\ QueueEnabled /\ HoldsEvent(p) => job[proc[p].ev].state = "active"
           /\ ~QueueEnabled => /\ proc[p].pc # "deadletter"
                               /\ \A e \in Events : job[e].state = "none"
<1>1. TypeOK /\ proc \in [Procs -> Proc] /\ job \in [Events -> Job]
  BY DEF IInv, TypeOK
<1>2. proc[p].ev # NoEvent <=> HoldsEvent(p)
  BY DEF QueueInv
<1>3. proc[p].ev \in Events \cup {NoEvent} /\ NoEvent \notin Events /\ "relay" \notin Events
  BY <1>1 DEF Proc, ConstantsAssumption
<1>4. QueueEnabled => SingleRunner /\ RunnersActive
  BY RunnersRestated DEF QueueInv
<1>5. QueueEnabled /\ HoldsEvent(p) => job[proc[p].ev].state = "active"
  BY <1>2, <1>3, <1>4 DEF RunnersActive
<1>6. QED
  BY <1>1, <1>2, <1>3, <1>4, <1>5 DEF QueueInv

\* A step that leaves the queue alone and lets its process keep what it holds.
LEMMA QueueUntouched ==
    ASSUME ConstantsAssumption, IInv, QueueInv, NEW p \in Procs,
           \A q \in Procs \ {p} : proc'[q] = proc[q],
           proc'[p].ev = proc[p].ev,
           HoldsEvent(p)' <=> HoldsEvent(p),
           ~QueueEnabled => proc'[p].pc # "deadletter",
           UNCHANGED <<job, completed>>
    PROVE  QueueInv'
<1>1. proc'[p].ev # NoEvent <=> HoldsEvent(p)'
  BY DEF QueueInv
<1>2. CASE QueueEnabled
  <2>1. CompletedSetIsExact'
    BY DEF QueueInv, CompletedSetIsExact
  <2>2. SingleRunner' /\ RunnersActive'
    <3>1. \A q \in Procs : proc'[q].ev = proc[q].ev
      OBVIOUS
    <3>2. SingleRunner /\ RunnersActive
      BY <1>2, QueueFacts
    <3>3. QED
      BY <3>1, <3>2 DEF SingleRunner, RunnersActive
  <2>3. QED
    BY <1>1, <1>2, <2>1, <2>2, QueueOn
<1>3. CASE ~QueueEnabled
  BY <1>1, <1>3, QueueOff
<1>4. QED
  BY <1>2, <1>3

\* The steps of which this is true.
LEMMA UntouchedSteps ==
    ASSUME ConstantsAssumption, IInv, QueueInv, NEW p \in Procs,
           \/ \E e \in Events : Commit(p, e) \/ RelayEventThrows(p, e)
           \/ ScheduleRelay(p) \/ ScheduleRelayThrows(p) \/ TakeRelayJob(p)
           \/ FindPendingBatch(p) \/ FindPendingBatchThrows(p)
           \/ Claim(p) /\ Claimable(proc[p].ev)
           \/ ReadClaimed(p) \/ Publish(p) \/ MarkProcessedThrows(p)
    PROVE  QueueInv'
<1>1. /\ proc \in [Procs -> Proc]
      /\ proc[p].ev # NoEvent <=> HoldsEvent(p)
  BY QueueFacts
<1>2. CASE \/ \E e \in Events : Commit(p, e)
           \/ TakeRelayJob(p) \/ Publish(p) \/ MarkProcessedThrows(p)
           \/ Claim(p) /\ Claimable(proc[p].ev)
  <2>1. PICK a \in {"schedule", "batch", "mark", "catch", "read"} :
           /\ Goto(p, a)
           /\ \/ a \in {"schedule", "batch"} /\ proc[p].pc = "idle"
              \/ a = "mark" /\ proc[p].pc = "publish"
              \/ a = "catch" /\ proc[p].pc = "mark"
              \/ a = "read" /\ proc[p].pc = "claim"
    BY <1>2 DEF Commit, TakeRelayJob, Publish, MarkProcessedThrows, Claim
  <2>2. UNCHANGED <<job, completed>>
    BY <1>2 DEF Commit, TakeRelayJob, Publish, MarkProcessedThrows, Claim, queueVars
  <2>3. /\ proc'[p].pc = a /\ proc'[p].ev = proc[p].ev
        /\ \A q \in Procs \ {p} : proc'[q] = proc[q]
    BY <1>1, <2>1 DEF Goto, Proc
  <2>4. HoldsEvent(p)' <=> HoldsEvent(p)
    BY <2>1, <2>3 DEF HoldsEvent, OwnerPc
  <2>5. QED
    BY <2>1, <2>2, <2>3, <2>4, QueueUntouched
<1>3. CASE ScheduleRelay(p) \/ ScheduleRelayThrows(p) \/ FindPendingBatchThrows(p)
  <2>1. /\ ToIdle(p) /\ UNCHANGED <<job, completed>>
        /\ proc[p].pc \in {"schedule", "batch"}
    BY <1>3 DEF ScheduleRelay, ScheduleRelayThrows, FindPendingBatchThrows, queueVars
  <2>2. ~HoldsEvent(p) /\ proc[p].ev = NoEvent
    BY <1>1, <2>1 DEF HoldsEvent, OwnerPc
  <2>3. /\ proc'[p].pc = "idle" /\ proc'[p].ev = NoEvent
        /\ \A q \in Procs \ {p} : proc'[q] = proc[q]
    BY <1>1, <2>1 DEF ToIdle, IdleProc
  <2>4. ~HoldsEvent(p)'
    BY <2>3 DEF HoldsEvent, OwnerPc
  <2>5. QED
    BY <2>1, <2>2, <2>3, <2>4, QueueUntouched
<1>4. CASE FindPendingBatch(p)
  <2>1. /\ proc' = [proc EXCEPT ![p].pc = "relay", ![p].todo = PendingBatch]
        /\ UNCHANGED <<job, completed>> /\ proc[p].pc = "batch"
    BY <1>4 DEF FindPendingBatch, queueVars
  <2>2. /\ proc'[p].pc = "relay" /\ proc'[p].ev = proc[p].ev
        /\ \A q \in Procs \ {p} : proc'[q] = proc[q]
    BY <1>1, <2>1 DEF Proc
  <2>3. HoldsEvent(p)' <=> HoldsEvent(p)
    BY <2>1, <2>2 DEF HoldsEvent, OwnerPc
  <2>4. QED
    BY <2>1, <2>2, <2>3, QueueUntouched
<1>5. CASE \E e \in Events : RelayEventThrows(p, e)
  <2>1. PICK e \in Events : RelayEventThrows(p, e)
    BY <1>5
  <2>2. /\ proc' = [proc EXCEPT ![p].todo = @ \ {e}]
        /\ UNCHANGED <<job, completed>> /\ proc[p].pc = "relay"
    BY <2>1 DEF RelayEventThrows, queueVars
  <2>3. /\ proc'[p].pc = "relay" /\ proc'[p].ev = proc[p].ev
        /\ \A q \in Procs \ {p} : proc'[q] = proc[q]
    BY <1>1, <2>2 DEF Proc
  <2>4. HoldsEvent(p)' <=> HoldsEvent(p)
    BY <2>2, <2>3 DEF HoldsEvent
  <2>5. QED
    BY <2>2, <2>3, <2>4, QueueUntouched
<1>6. CASE ReadClaimed(p)
  <2>1. /\ proc' = [proc EXCEPT ![p].pc = "publish", ![p].seen = rows[proc[p].ev].attempts]
        /\ UNCHANGED <<job, completed>> /\ proc[p].pc = "read"
    BY <1>6 DEF ReadClaimed, queueVars
  <2>2. /\ proc'[p].pc = "publish" /\ proc'[p].ev = proc[p].ev
        /\ \A q \in Procs \ {p} : proc'[q] = proc[q]
    BY <1>1, <2>1 DEF Proc
  <2>3. HoldsEvent(p)' <=> HoldsEvent(p)
    BY <2>1, <2>2 DEF HoldsEvent, OwnerPc
  <2>4. QED
    BY <2>1, <2>2, <2>3, QueueUntouched
<1>7. QED
  BY <1>2, <1>3, <1>4, <1>5, <1>6

\* A worker takes a job that waits: nobody else held its event.
LEMMA TakeOutboxJobStep ==
    ASSUME ConstantsAssumption, IInv, QueueInv, NEW p \in Procs, NEW e \in Events,
           TakeOutboxJob(p, e)
    PROVE  QueueInv'
<1>1. /\ proc[p].pc = "idle" /\ job[e].state = "waiting"
      /\ job' = [job EXCEPT ![e].state = "active"]
      /\ proc' = [proc EXCEPT ![p].pc = "claim", ![p].ev = e]
      /\ UNCHANGED completed
  BY DEF TakeOutboxJob
<1>2. QueueEnabled
  BY <1>1, QueueFacts, ConstantsAssumption DEF ConstantsAssumption
<1>3. /\ proc \in [Procs -> Proc] /\ job \in [Events -> Job] /\ NoEvent \notin Events
      /\ SingleRunner /\ RunnersActive /\ CompletedSetIsExact
  BY <1>2, QueueFacts
<1>4. proc[p].ev = NoEvent
  <2>1. ~HoldsEvent(p)
    BY <1>1 DEF HoldsEvent, OwnerPc
  <2>2. QED
    BY <2>1, QueueFacts
<1>5. /\ proc'[p].pc = "claim" /\ proc'[p].ev = e
      /\ \A q \in Procs \ {p} : proc'[q] = proc[q]
      /\ job'[e].state = "active" /\ \A f \in Events \ {e} : job'[f] = job[f]
  BY <1>1, <1>3 DEF Proc, Job
<1>6. HoldsEvent(p)' /\ e # NoEvent
  BY <1>3, <1>5 DEF HoldsEvent
<1>7. SingleRunner' /\ RunnersActive'
  BY <1>1, <1>3, <1>4, <1>5, RunnerMoves
<1>8. CompletedSetIsExact'
  <2>1. \A f \in Events : job'[f].state = "completed" <=> job[f].state = "completed"
    BY <1>1, <1>5
  <2>2. QED
    BY <1>1, <1>3, <2>1, CompletedStays
<1>9. QED
  BY <1>2, <1>5, <1>6, <1>7, <1>8, QueueOn

\* The relay adds a job: of an id that is stored none, of another one a waiting one.
LEMMA RelayEventStep ==
    ASSUME ConstantsAssumption, IInv, QueueInv, NEW p \in Procs, NEW e \in Events,
           RelayEvent(p, e)
    PROVE  QueueInv'
<1>1. /\ proc \in [Procs -> Proc] /\ job \in [Events -> Job] /\ NoEvent \notin Events
      /\ proc[p].pc = "relay" /\ UNCHANGED completed
  BY QueueFacts DEF RelayEvent
<1>2. ~HoldsEvent(p) /\ proc[p].ev = NoEvent
  <2>1. ~HoldsEvent(p)
    BY <1>1 DEF HoldsEvent, OwnerPc
  <2>2. QED
    BY <2>1, QueueFacts
<1>3. CASE QueueEnabled
  <2>1. AddOutboxJob(e) /\ proc' = [proc EXCEPT ![p].todo = @ \ {e}]
    BY <1>3 DEF RelayEvent
  <2>2. /\ proc'[p].pc = "relay" /\ proc'[p].ev = NoEvent
        /\ \A q \in Procs \ {p} : proc'[q] = proc[q]
    BY <1>1, <1>2, <2>1 DEF Proc
  <2>3. /\ job[e].state # "none" => job' = job
        /\ job[e].state = "none" => job'[e].state = "waiting"
        /\ \A f \in Events \ {e} : job'[f] = job[f]
    BY <1>1, <2>1 DEF AddOutboxJob
  <2>4. /\ \A f \in Events : job'[f].state = "active" <=> job[f].state = "active"
        /\ \A f \in Events : job'[f].state = "completed" <=> job[f].state = "completed"
    BY <2>3
  <2>5. SingleRunner' /\ RunnersActive'
    <3>1. SingleRunner /\ RunnersActive
      BY <1>3, QueueFacts
    <3>2. QED
      BY <1>1, <1>2, <2>2, <2>4, <3>1, RunnerMoves
  <2>6. CompletedSetIsExact'
    BY <1>1, <2>4, QueueFacts, CompletedStays
  <2>7. ~HoldsEvent(p)'
    BY <2>2 DEF HoldsEvent, OwnerPc
  <2>8. QED
    BY <1>3, <2>2, <2>5, <2>6, <2>7, QueueOn
<1>4. CASE ~QueueEnabled
  <2>1. /\ UNCHANGED job
        /\ proc' = [proc EXCEPT ![p].pc = "claim", ![p].ev = e, ![p].todo = @ \ {e}]
    BY <1>4 DEF RelayEvent
  <2>2. /\ proc'[p].pc = "claim" /\ proc'[p].ev = e
        /\ \A q \in Procs \ {p} : proc'[q] = proc[q]
    BY <1>1, <2>1 DEF Proc
  <2>3. HoldsEvent(p)' /\ e # NoEvent
    BY <1>1, <2>2 DEF HoldsEvent
  <2>4. QED
    BY <1>1, <1>4, <2>1, <2>2, <2>3, QueueOff
<1>5. QED
  BY <1>3, <1>4

\* processEvent is over: its job is completed, failed or, inline, was none.
LEMMA EventReleased ==
    ASSUME ConstantsAssumption, IInv, QueueInv, NEW p \in Procs, HoldsEvent(p),
           \/ Returns(p) \/ Throws(p)
           \/ QueueEnabled /\ CompleteJob(proc[p].ev) /\ ToIdle(p)
    PROVE  QueueInv'
<1>1. /\ TypeOK /\ proc \in [Procs -> Proc] /\ job \in [Events -> Job]
      /\ proc[p].ev \in Events /\ NoEvent \notin Events /\ CompletedSetIsExact
  BY QueueFacts
<1>2. CASE QueueEnabled
  <2>1. /\ ToIdle(p)
        /\ \/ CompleteJob(proc[p].ev)
           \/ FailJob(proc[p].ev) /\ UNCHANGED completed
    BY <1>2 DEF Returns, Throws
  <2>2. /\ proc'[p].pc = "idle" /\ proc'[p].ev = NoEvent
        /\ \A q \in Procs \ {p} : proc'[q] = proc[q]
    BY <1>1, <2>1 DEF ToIdle, IdleProc
  <2>3. /\ SingleRunner /\ RunnersActive
        /\ job[proc[p].ev].state = "active"
    BY <1>2, QueueFacts
  <2>4. /\ CompletedSetIsExact'
        /\ job'[proc[p].ev].state # "active"
        /\ \A f \in Events \ {proc[p].ev} :
              job'[f].state = "active" <=> job[f].state = "active"
    <3>1. CASE CompleteJob(proc[p].ev)
      BY <1>1, <2>3, <3>1, CompleteJobKeeps
    <3>2. CASE FailJob(proc[p].ev) /\ UNCHANGED completed
      BY <1>1, <2>3, <3>2, FailJobKeeps
    <3>3. QED
      BY <2>1, <3>1, <3>2
  <2>5. SingleRunner' /\ RunnersActive'
    BY <1>1, <2>2, <2>3, <2>4, RunnerMoves
  <2>6. ~HoldsEvent(p)'
    BY <2>2 DEF HoldsEvent, OwnerPc
  <2>7. QED
    BY <1>2, <2>2, <2>4, <2>5, <2>6, QueueOn
<1>3. CASE ~QueueEnabled
  <2>1. /\ proc' = [proc EXCEPT ![p].pc = "relay", ![p].ev = NoEvent, ![p].seen = 0]
        /\ UNCHANGED <<job, completed>>
    BY <1>3 DEF Returns, Throws, queueVars
  <2>2. /\ proc'[p].pc = "relay" /\ proc'[p].ev = NoEvent
        /\ \A q \in Procs \ {p} : proc'[q] = proc[q]
    BY <1>1, <2>1 DEF Proc
  <2>3. ~HoldsEvent(p)'
    BY <2>2 DEF HoldsEvent, OwnerPc
  <2>4. QED
    BY <1>3, <2>1, <2>2, <2>3, QueueOff
<1>4. QED
  BY <1>2, <1>3

LEMMA ReleasingSteps ==
    ASSUME ConstantsAssumption, IInv, QueueInv, NEW p \in Procs,
           \/ Claim(p) /\ ~Claimable(proc[p].ev)
           \/ ClaimThrows(p) \/ ReadClaimedThrows(p)
           \/ MarkProcessed(p) \/ CatchFailure(p) \/ CatchFailureThrows(p)
           \/ AddDeadLetterJob(p) \/ AddDeadLetterJobThrows(p)
    PROVE  QueueInv'
<1>1. HoldsEvent(p)
  BY DEF Claim, ClaimThrows, ReadClaimedThrows, MarkProcessed, CatchFailure,
         CatchFailureThrows, AddDeadLetterJob, AddDeadLetterJobThrows, HoldsEvent, OwnerPc
<1>2. CASE \/ Claim(p) /\ ~Claimable(proc[p].ev)
           \/ ClaimThrows(p) \/ ReadClaimedThrows(p) \/ MarkProcessed(p)
           \/ CatchFailureThrows(p) \/ AddDeadLetterJobThrows(p)
  <2>1. Returns(p) \/ Throws(p)
    BY <1>2 DEF Claim, ClaimThrows, ReadClaimedThrows, MarkProcessed,
                CatchFailureThrows, AddDeadLetterJobThrows
  <2>2. QED
    BY <1>1, <2>1, EventReleased
<1>3. CASE CatchFailure(p)
  <2>1. CASE Returns(p)
    BY <1>1, <2>1, EventReleased
  <2>2. CASE QueueEnabled /\ Goto(p, "deadletter") /\ UNCHANGED queueVars
    <3>1. proc \in [Procs -> Proc]
      BY QueueFacts
    <3>2. /\ proc'[p].pc = "deadletter" /\ proc'[p].ev = proc[p].ev
          /\ \A q \in Procs \ {p} : proc'[q] = proc[q]
      BY <2>2, <3>1 DEF Goto, Proc
    <3>3. HoldsEvent(p)'
      BY <3>2 DEF HoldsEvent
    <3>4. QED
      BY <1>1, <2>2, <3>2, <3>3, QueueUntouched DEF queueVars
  <2>3. QED
    BY <1>3, <2>1, <2>2 DEF CatchFailure
<1>4. CASE AddDeadLetterJob(p)
  <2>1. proc[p].pc = "deadletter" /\ CompleteJob(proc[p].ev) /\ ToIdle(p)
    BY <1>4 DEF AddDeadLetterJob
  <2>2. QueueEnabled
    BY <2>1, QueueFacts
  <2>3. QED
    BY <1>1, <2>1, <2>2, EventReleased
<1>5. QED
  BY <1>2, <1>3, <1>4

LEMMA RelayDoneStep ==
    ASSUME ConstantsAssumption, IInv, QueueInv, NEW p \in Procs, RelayDone(p)
    PROVE  QueueInv'
<1>1. /\ TypeOK /\ proc \in [Procs -> Proc] /\ job \in [Events -> Job]
      /\ CompletedSetIsExact /\ "relay" \notin Events /\ NoEvent \notin Events
      /\ proc[p].pc = "relay" /\ ToIdle(p)
  BY QueueFacts DEF RelayDone
<1>2. ~HoldsEvent(p) /\ proc[p].ev = NoEvent
  <2>1. ~HoldsEvent(p)
    BY <1>1 DEF HoldsEvent, OwnerPc
  <2>2. QED
    BY <2>1, QueueFacts
<1>3. /\ proc'[p].pc = "idle" /\ proc'[p].ev = NoEvent
      /\ \A q \in Procs \ {p} : proc'[q] = proc[q]
  BY <1>1 DEF ToIdle, IdleProc
<1>4. ~HoldsEvent(p)'
  BY <1>3 DEF HoldsEvent, OwnerPc
<1>5. CASE QueueEnabled
  <2>1. CompleteJob("relay")
    BY <1>5 DEF RelayDone
  <2>2. /\ CompletedSetIsExact'
        /\ \A f \in Events : job'[f].state = "active" <=> job[f].state = "active"
    BY <1>1, <2>1, CompleteJobKeeps
  <2>3. SingleRunner /\ RunnersActive
    BY <1>5, QueueFacts
  <2>4. SingleRunner' /\ RunnersActive'
    BY <1>1, <1>2, <1>3, <2>2, <2>3, RunnerMoves
  <2>5. QED
    BY <1>3, <1>4, <1>5, <2>2, <2>4, QueueOn
<1>6. CASE ~QueueEnabled
  <2>1. UNCHANGED <<job, completed>>
    BY <1>6 DEF RelayDone
  <2>2. QED
    BY <1>3, <1>4, <1>6, <2>1, QueueOff
<1>7. QED
  BY <1>5, <1>6

\* The job of a process that dies waits again or is failed: nobody holds its event.
LEMMA CrashStep ==
    ASSUME ConstantsAssumption, IInv, QueueInv, NEW p \in Procs, Crash(p)
    PROVE  QueueInv'
<1>1. /\ TypeOK /\ proc \in [Procs -> Proc] /\ job \in [Events -> Job]
      /\ CompletedSetIsExact /\ NoEvent \notin Events
      /\ ToIdle(p) /\ UNCHANGED completed
      /\ proc[p].ev # NoEvent <=> proc[p].ev \in Events
  BY QueueFacts DEF Crash
<1>2. /\ proc'[p].pc = "idle" /\ proc'[p].ev = NoEvent
      /\ \A q \in Procs \ {p} : proc'[q] = proc[q]
  BY <1>1 DEF ToIdle, IdleProc
<1>3. ~HoldsEvent(p)'
  BY <1>2 DEF HoldsEvent, OwnerPc
<1>4. CASE QueueEnabled
  <2>1. SingleRunner /\ RunnersActive
    BY <1>4, QueueFacts
  <2>2. CASE proc[p].ev \in Events
    <3>1. job[proc[p].ev].state = "active"
      BY <2>1, <2>2 DEF RunnersActive
    <3>2. StallJob(proc[p].ev)
      BY <1>1, <1>4, <2>2 DEF Crash
    <3>3. /\ CompletedSetIsExact'
          /\ job'[proc[p].ev].state # "active"
          /\ \A f \in Events \ {proc[p].ev} : job'[f] = job[f]
      BY <1>1, <2>2, <3>1, <3>2, StallJobKeeps
    <3>4. SingleRunner' /\ RunnersActive'
      BY <1>1, <1>2, <2>1, <3>3, RunnerMoves
    <3>5. QED
      BY <1>2, <1>3, <1>4, <3>3, <3>4, QueueOn
  <2>3. CASE proc[p].ev \notin Events
    <3>1. UNCHANGED job
      BY <1>1, <2>3 DEF Crash
    <3>2. SingleRunner' /\ RunnersActive'
      BY <1>1, <1>2, <2>1, <2>3, <3>1, RunnerMoves
    <3>3. CompletedSetIsExact'
      BY <1>1, <3>1, CompletedStays
    <3>4. QED
      BY <1>2, <1>3, <1>4, <3>2, <3>3, QueueOn
  <2>4. QED
    BY <2>2, <2>3
<1>5. CASE ~QueueEnabled
  <2>1. UNCHANGED job
    BY <1>5 DEF Crash
  <2>2. QED
    BY <1>1, <1>2, <1>3, <1>5, <2>1, QueueOff
<1>6. QED
  BY <1>4, <1>5

LEMMA QueueInit ==
    ASSUME ConstantsAssumption, Init
    PROVE  QueueInv
<1>1. /\ \A p \in Procs : proc[p].ev = NoEvent /\ proc[p].pc = "idle"
      /\ \A e \in Events : job[e].state = "none"
      /\ completed = <<>> /\ NoEvent \notin Events /\ KeepCompleted \in Nat
  BY DEF Init, IdleProc, NoJob, ConstantsAssumption
<1>2. CompletedSetIsExact
  BY <1>1, CompletedRestated DEF ListedOnce, ListedCompleted
<1>3. OneRunnerPerJob
  BY <1>1, RunnersRestated DEF SingleRunner, RunnersActive
<1>4. QED
  BY <1>1, <1>2, <1>3 DEF QueueInv, HoldsEvent, OwnerPc

\* A job that is over is stored as before under another name.
LEMMA ReportStep ==
    ASSUME ConstantsAssumption, IInv, QueueInv, NEW e \in Events,
           ReportJob(e) \/ ReportJobFails(e)
    PROVE  QueueInv'
<1>1. /\ job \in [Events -> Job] /\ job[e].state = "failing"
      /\ job' = [job EXCEPT ![e].state = "failed"] /\ UNCHANGED <<completed, proc>>
  BY DEF ReportJob, ReportJobFails, IInv, TypeOK
<1>2. job'[e].state = "failed" /\ \A f \in Events \ {e} : job'[f] = job[f]
  BY <1>1 DEF Job
<1>3. CompletedSetIsExact'
  <2>1. \A f \in Events : job'[f].state = "completed" <=> job[f].state = "completed"
    BY <1>1, <1>2
  <2>2. CompletedSetIsExact
    BY DEF QueueInv
  <2>3. QED
    BY <1>1, <2>1, <2>2, CompletedStays
<1>4. OneRunnerPerJob'
  <2>1. QueueEnabled => SingleRunner /\ RunnersActive
    BY RunnersRestated DEF QueueInv
  <2>2. QueueEnabled => SingleRunner' /\ RunnersActive'
    BY <1>1, <1>2, <2>1 DEF SingleRunner, RunnersActive
  <2>3. QED
    BY <2>2, RunnersRestated
<1>5. QueueEnabled
  BY <1>1 DEF QueueInv
<1>6. QED
  BY <1>1, <1>3, <1>4, <1>5 DEF QueueInv, HoldsEvent

LEMMA QueueStep ==
    ASSUME ConstantsAssumption, IInv, QueueInv, [Next]_vars
    PROVE  QueueInv'
<1>1. CASE UNCHANGED <<job, completed, proc>>
  BY <1>1 DEF QueueInv, OneRunnerPerJob, CompletedSetIsExact, HoldsEvent
<1>2. CASE RelayTick \/ UNCHANGED vars
  BY <1>1, <1>2 DEF RelayTick, vars
<1>3. ASSUME NEW p \in Procs, NEW e \in Events, Commit(p, e) \/ TakeOutboxJob(p, e)
      PROVE  QueueInv'
  BY <1>3, UntouchedSteps, TakeOutboxJobStep
<1>4. ASSUME NEW p \in Procs, TakeRelayJob(p)
      PROVE  QueueInv'
  BY <1>4, UntouchedSteps
<1>5. ASSUME NEW p \in Procs, Run(p)
      PROVE  QueueInv'
  <2>1. CASE \/ ScheduleRelay(p) \/ FindPendingBatch(p) \/ ReadClaimed(p) \/ Publish(p)
             \/ Claim(p) /\ Claimable(proc[p].ev)
    BY <2>1, UntouchedSteps
  <2>2. CASE \/ Claim(p) /\ ~Claimable(proc[p].ev)
             \/ MarkProcessed(p) \/ CatchFailure(p) \/ AddDeadLetterJob(p)
    BY <2>2, ReleasingSteps
  <2>3. CASE RelayDone(p)
    BY <2>3, RelayDoneStep
  <2>4. ASSUME NEW e \in Events, RelayEvent(p, e) PROVE QueueInv'
    BY <2>4, RelayEventStep
  <2>5. QED
    BY <1>5, <2>1, <2>2, <2>3, <2>4 DEF Run
<1>6. ASSUME NEW p \in Procs, Faulty(p)
      PROVE  QueueInv'
  <2>1. CASE \/ ScheduleRelayThrows(p) \/ FindPendingBatchThrows(p)
             \/ \E e \in Events : RelayEventThrows(p, e)
             \/ MarkProcessedThrows(p)
    BY <2>1, UntouchedSteps
  <2>2. CASE \/ ClaimThrows(p) \/ ReadClaimedThrows(p)
             \/ CatchFailureThrows(p) \/ AddDeadLetterJobThrows(p)
    BY <2>2, ReleasingSteps
  <2>3. CASE Crash(p)
    BY <2>3, CrashStep
  <2>4. QED
    BY <1>6, <2>1, <2>2, <2>3 DEF Faulty
<1>7. ASSUME NEW e \in Events, ReportJob(e) \/ ReportJobFails(e)
      PROVE  QueueInv'
  BY <1>7, ReportStep
<1>8. QED
  BY <1>2, <1>3, <1>4, <1>5, <1>6, <1>7 DEF Next

LEMMA QueueInvariance == Spec => []QueueInv
<1>1. Init => QueueInv
  BY ConstantsAssumption, QueueInit
<1>2. IInv /\ QueueInv /\ [Next]_vars => QueueInv'
  BY ConstantsAssumption, QueueStep
<1>3. QED
  BY <1>1, <1>2, Invariance, PTL DEF Spec

\* The job stored under an event's id is active exactly while one process runs
\* it, whatever crashes, retries, evictions and relays happen.
THEOREM OneRunnerCorrect == Spec => []OneRunnerPerJob
<1>1. QueueInv => OneRunnerPerJob
  BY DEF QueueInv
<1>2. QED
  BY <1>1, QueueInvariance, PTL

-----------------------------------------------------------------------------
(* The events that a kept job blocks                                       *)

JobBacked(e) ==
    /\ job[e].state # "none" => e \in Committed
    /\ job[e].state = "completed" => Attempted(e)
    /\ job[e].made <= faults
    /\ job[e].stalled => "crash" \in FaultKinds /\ faults >= 1
    /\ job[e].state = "failing" => faults >= JobAttempts
    /\ job[e].state = "failed" =>
          \/ <<e, "dead-letter">> \in dlq /\ faults >= JobAttempts
          \/ FaultKinds \cap {"redis", "crash"} # {} /\ faults > JobAttempts
          \/ LostToStalls(e)

ProcBacked(p) ==
    /\ proc[p].todo \subseteq Committed
    /\ proc[p].ev # NoEvent => proc[p].ev \in Committed
    /\ proc[p].pc = "deadletter" => Attempted(proc[p].ev)

\* Rows stay committed, and attempted.
RowsGoOn ==
    \A e \in Events : /\ e \in Committed => e \in Committed'
                      /\ Attempted(e) => Attempted(e)'

LEMMA BlockedRestated ==
    /\ BlockedInv <=> /\ \A e \in Events : JobBacked(e)
                      /\ \A p \in Procs : ProcBacked(p)
    /\ BlockedInv' <=> /\ \A e \in Events : JobBacked(e)'
                       /\ \A p \in Procs : ProcBacked(p)'
<1>1. BlockedInv <=> /\ \A e \in Events : JobBacked(e)
                     /\ \A p \in Procs : ProcBacked(p)
  BY DEF BlockedInv, BlockedEventsExplained, JobBacked, ProcBacked, Attempted
<1>2. BlockedInv' <=> /\ \A e \in Events : JobBacked(e)'
                      /\ \A p \in Procs : ProcBacked(p)'
  BY DEF BlockedInv, BlockedEventsExplained, JobBacked, ProcBacked, Attempted
<1>3. QED
  BY <1>1, <1>2

\* A step that leaves the table alone, and one that moves e's row on.
LEMMA RowsUntouched ==
    ASSUME UNCHANGED rows
    PROVE  RowsGoOn
BY DEF RowsGoOn, Attempted, Committed

LEMMA RowMoves ==
    ASSUME NEW e \in Events,
           \A f \in Events \ {e} : rows'[f] = rows[f],
           rows'[e].status # "ABSENT",
           rows'[e].status = "PENDING" => rows'[e].attempts > 0
    PROVE  RowsGoOn /\ Attempted(e)'
BY DEF RowsGoOn, Attempted, Committed

\* What a step may do to the job of one event.
LEMMA JobMoves ==
    ASSUME ConstantsAssumption, TypeOK, RowsGoOn, NEW f \in Events, JobBacked(f),
           dlq \subseteq dlq', faults' \in {faults, faults + 1},
           \/ job'[f] = job[f]
           \/ job'[f] = NoJob
           \/ /\ f \in Committed
              /\ \/ job'[f] = [NoJob EXCEPT !.state = "waiting"]
                 \/ job'[f] = [job[f] EXCEPT !.state = "active"]
           \/ /\ Attempted(f)'
              /\ job'[f] = [job[f] EXCEPT !.state = "completed"]
           \/ /\ f \in Committed /\ faults' = faults + 1
              /\ FailJob(f) \/ (StallJob(f) /\ "crash" \in FaultKinds)
    PROVE  JobBacked(f)'
<1>1. /\ job \in [Events -> Job] /\ job[f] \in Job /\ job[f].made \in Nat
      /\ faults \in Nat /\ JobAttempts \in Nat
      /\ f \in Committed => f \in Committed'
      /\ Attempted(f) => Attempted(f)'
  BY DEF TypeOK, ConstantsAssumption, Job, RowsGoOn
<1>2. Attempted(f)' => f \in Committed'
  BY DEF Attempted
<1>3. CASE job'[f] = job[f]
  BY <1>1, <1>3 DEF JobBacked, LostToStalls
<1>4. CASE \/ job'[f] = NoJob
           \/ f \in Committed /\ job'[f] = [NoJob EXCEPT !.state = "waiting"]
  BY <1>1, <1>4 DEF JobBacked, LostToStalls, NoJob
<1>5. CASE f \in Committed /\ job'[f] = [job[f] EXCEPT !.state = "active"]
  <2>1. job'[f].state = "active" /\ job'[f].made = job[f].made /\ job'[f].stalled = job[f].stalled
    BY <1>1, <1>5 DEF Job
  <2>2. QED
    BY <1>1, <1>5, <2>1 DEF JobBacked, LostToStalls
<1>6. CASE Attempted(f)' /\ job'[f] = [job[f] EXCEPT !.state = "completed"]
  <2>1. /\ job'[f].state = "completed" /\ job'[f].made = job[f].made
        /\ job'[f].stalled = job[f].stalled
    BY <1>1, <1>6 DEF Job
  <2>2. QED
    BY <1>1, <1>2, <1>6, <2>1 DEF JobBacked, LostToStalls
<1>7. CASE f \in Committed /\ faults' = faults + 1 /\ FailJob(f)
  <2>1. /\ job'[f].state = (IF job[f].made + 1 < JobAttempts THEN "waiting" ELSE "failing")
        /\ job'[f].made = job[f].made + 1 /\ job'[f].stalled = job[f].stalled
    BY <1>1, <1>7 DEF FailJob, Job
  <2>2. QED
    BY <1>1, <1>7, <2>1 DEF JobBacked, LostToStalls
<1>8. CASE f \in Committed /\ faults' = faults + 1 /\ StallJob(f) /\ "crash" \in FaultKinds
  <2>1. CASE ~job[f].stalled /\ job' = [job EXCEPT ![f].state = "waiting", ![f].stalled = TRUE]
    <3>1. job'[f].state = "waiting" /\ job'[f].made = job[f].made /\ job'[f].stalled
      BY <1>1, <2>1 DEF Job
    <3>2. QED
      BY <1>1, <1>8, <3>1 DEF JobBacked, LostToStalls
  <2>2. CASE job[f].stalled /\ job' = [job EXCEPT ![f].state = "failed"]
    <3>1. job'[f].state = "failed" /\ job'[f].made = job[f].made /\ job'[f].stalled
      BY <1>1, <2>2 DEF Job
    <3>2. QED
      BY <1>1, <1>8, <2>2, <3>1 DEF JobBacked, LostToStalls
  <2>3. QED
    BY <1>7, <1>8, <2>1, <2>2 DEF StallJob
<1>9. QED
  BY <1>3, <1>4, <1>5, <1>6, <1>7, <1>8

\* The jobs of the others are left alone or cut off.
LEMMA JobsMove ==
    ASSUME ConstantsAssumption, TypeOK, BlockedInv, RowsGoOn,
           dlq \subseteq dlq', faults' \in {faults, faults + 1},
           \/ UNCHANGED job
           \/ \E e \in Events :
                 /\ e \in Committed
                 /\ \/ AddOutboxJob(e)
                    \/ job' = [job EXCEPT ![e].state = "active"]
           \/ \E j \in Events \cup {"relay"} :
                 CompleteJob(j) /\ (j \in Events => Attempted(j)')
           \/ \E e \in Events :
                 /\ e \in Committed /\ faults' = faults + 1
                 /\ FailJob(e) \/ (StallJob(e) /\ "crash" \in FaultKinds)
    PROVE  \A f \in Events : JobBacked(f)'
<1> SUFFICES ASSUME NEW f \in Events PROVE JobBacked(f)'
  OBVIOUS
<1>1. job \in [Events -> Job] /\ JobBacked(f)
  BY BlockedRestated DEF TypeOK
<1>2. CASE job'[f] = job[f] \/ job'[f] = NoJob
  BY <1>1, <1>2, JobMoves
<1>3. ASSUME NEW e \in Events, e \in Committed,
             AddOutboxJob(e) \/ job' = [job EXCEPT ![e].state = "active"]
      PROVE  JobBacked(f)'
  <2>1. \/ job'[f] = job[f]
        \/ /\ f \in Committed
           /\ \/ job'[f] = [NoJob EXCEPT !.state = "waiting"]
              \/ job'[f] = [job[f] EXCEPT !.state = "active"]
    BY <1>1, <1>3 DEF AddOutboxJob
  <2>2. QED
    BY <1>1, <2>1, JobMoves
<1>4. ASSUME NEW j \in Events \cup {"relay"}, CompleteJob(j), j \in Events => Attempted(j)'
      PROVE  JobBacked(f)'
  <2>1. CASE f = j
    <3>1. job'[f] = [job[f] EXCEPT !.state = "completed"]
      BY <1>4, <2>1 DEF CompleteJob
    <3>2. QED
      BY <1>1, <1>4, <2>1, <3>1, JobMoves
  <2>2. CASE f # j
    BY <1>2, <1>4, <2>2 DEF CompleteJob
  <2>3. QED
    BY <2>1, <2>2
<1>5. ASSUME NEW e \in Events, e \in Committed, faults' = faults + 1,
             FailJob(e) \/ (StallJob(e) /\ "crash" \in FaultKinds)
      PROVE  JobBacked(f)'
  <2>1. CASE f = e
    BY <1>1, <1>5, <2>1, JobMoves
  <2>2. CASE f # e
    <3>1. job'[f] = job[f]
      BY <1>1, <1>5, <2>2 DEF FailJob, StallJob
    <3>2. QED
      BY <1>2, <3>1
  <2>3. QED
    BY <2>1, <2>2
<1>6. QED
  BY <1>2, <1>3, <1>4, <1>5

\* One process moves: the others keep what they have.
LEMMA ProcsMove ==
    ASSUME IInv, BlockedInv, RowsGoOn, NEW p \in Procs,
           \A q \in Procs \ {p} : proc'[q] = proc[q],
           \/ proc'[p] = IdleProc
           \/ /\ proc'[p].todo \subseteq Committed
              /\ proc'[p].ev # NoEvent => proc'[p].ev \in Committed
              /\ proc'[p].pc = "deadletter" => Attempted(proc[p].ev)'
    PROVE  \A q \in Procs : ProcBacked(q)'
<1>1. \A f \in Events : f \in Committed => f \in Committed'
  BY DEF RowsGoOn
<1>2. Committed \subseteq Events /\ Committed \subseteq Committed'
  BY <1>1 DEF Committed
<1>3. ASSUME NEW q \in Procs \ {p} PROVE ProcBacked(q)'
  <2>1. ProcBacked(q) /\ proc'[q] = proc[q]
    BY BlockedRestated
  <2>2. proc[q].pc = "deadletter" => proc[q].ev \in Events
    BY HasEvent
  <2>3. proc[q].pc = "deadletter" => Attempted(proc[q].ev)'
    BY <2>1, <2>2 DEF RowsGoOn, ProcBacked, Attempted, Committed
  <2>4. QED
    BY <1>2, <2>1, <2>3 DEF ProcBacked
<1>4. ProcBacked(p)'
  <2>1. CASE proc'[p] = IdleProc
    BY <2>1 DEF ProcBacked, IdleProc
  <2>2. CASE proc'[p] # IdleProc
    BY <1>2, <2>2 DEF ProcBacked
  <2>3. QED
    BY <2>1, <2>2
<1>5. QED
  BY <1>3, <1>4

\* Nothing but a process's own steps, and the clock of the relay, happens.
LEMMA BlockedStepOf ==
    ASSUME IInv, BlockedInv, RowsGoOn, NEW p \in Procs,
           \A f \in Events : JobBacked(f)',
           \A q \in Procs \ {p} : proc'[q] = proc[q],
           \/ proc'[p] = IdleProc
           \/ /\ proc'[p].todo \subseteq Committed
              /\ proc'[p].ev # NoEvent => proc'[p].ev \in Committed
              /\ proc'[p].pc = "deadletter" => Attempted(proc[p].ev)'
    PROVE  BlockedInv'
BY ProcsMove, BlockedRestated

\* A request commits its event.
LEMMA CommitBlocks ==
    ASSUME ConstantsAssumption, IInv, BlockedInv, NEW p \in Procs, NEW e \in Events,
           Commit(p, e)
    PROVE  BlockedInv'
<1>1. /\ TypeOK /\ rows \in [Events -> Row] /\ proc \in [Procs -> Proc]
      /\ rows' = [rows EXCEPT ![e] = [status |-> "PENDING", attempts |-> 0,
                                      createdAt |-> Cardinality(Committed) + 1]]
      /\ rows[e].status = "ABSENT" /\ UNCHANGED <<job, dlq, faults>>
      /\ Goto(p, IF QueueEnabled THEN "schedule" ELSE "batch")
      /\ ProcBacked(p)
  BY BlockedRestated DEF Commit, queueVars, NoFault, IInv, TypeOK
<1>2. RowsGoOn
  BY <1>1 DEF RowsGoOn, Attempted, Committed
<1>3. \A f \in Events : JobBacked(f)'
  BY <1>1, <1>2, JobsMove
<1>4. /\ \A q \in Procs \ {p} : proc'[q] = proc[q]
      /\ proc'[p].todo = proc[p].todo /\ proc'[p].ev = proc[p].ev
      /\ proc'[p].pc # "deadletter"
  BY <1>1 DEF Goto, Proc
<1>5. QED
  BY <1>1, <1>2, <1>3, <1>4, BlockedStepOf DEF ProcBacked

\* A process takes a job, or the relay takes the next event of its batch.
LEMMA TakeBlocks ==
    ASSUME ConstantsAssumption, IInv, BlockedInv, NEW p \in Procs, NEW e \in Events,
           TakeOutboxJob(p, e) \/ RelayEvent(p, e) \/ RelayEventThrows(p, e)
    PROVE  BlockedInv'
<1>1. /\ TypeOK /\ proc \in [Procs -> Proc] /\ faults \in Nat
      /\ UNCHANGED rows /\ dlq \subseteq dlq' /\ faults' \in {faults, faults + 1}
      /\ ProcBacked(p) /\ JobBacked(e)
  BY BlockedRestated DEF TakeOutboxJob, RelayEvent, RelayEventThrows, queueVars, NoFault,
                         Fault, IInv, TypeOK
<1>2. e \in Committed
  BY <1>1 DEF TakeOutboxJob, RelayEvent, RelayEventThrows, IsOldest, JobBacked, ProcBacked
<1>3. RowsGoOn
  BY <1>1, RowsUntouched
<1>4. \/ UNCHANGED job
      \/ AddOutboxJob(e)
      \/ job' = [job EXCEPT ![e].state = "active"]
  BY DEF TakeOutboxJob, RelayEvent, RelayEventThrows, queueVars
<1>5. \A f \in Events : JobBacked(f)'
  BY <1>1, <1>2, <1>3, <1>4, JobsMove
<1>6. /\ \A q \in Procs \ {p} : proc'[q] = proc[q]
      /\ proc'[p].todo \subseteq proc[p].todo
      /\ proc'[p].ev \in {proc[p].ev, e}
      /\ proc'[p].pc # "deadletter"
  <2>1. CASE proc' = [proc EXCEPT ![p].pc = "claim", ![p].ev = e]
    BY <1>1, <2>1 DEF Proc
  <2>2. CASE proc' = [proc EXCEPT ![p].todo = @ \ {e}] /\ proc[p].pc = "relay"
    BY <1>1, <2>2 DEF Proc
  <2>3. CASE proc' = [proc EXCEPT ![p].pc = "claim", ![p].ev = e, ![p].todo = @ \ {e}]
    BY <1>1, <2>3 DEF Proc
  <2>4. QED
    BY <2>1, <2>2, <2>3 DEF TakeOutboxJob, RelayEvent, RelayEventThrows
<1>7. QED
  BY <1>1, <1>2, <1>3, <1>5, <1>6, BlockedStepOf DEF ProcBacked

\* The steps before processEvent and inside it that leave the job alone.
LEMMA WorkBlocks ==
    ASSUME ConstantsAssumption, IInv, BlockedInv, NEW p \in Procs,
           \/ TakeRelayJob(p) \/ ScheduleRelay(p) \/ ScheduleRelayThrows(p)
           \/ FindPendingBatch(p) \/ FindPendingBatchThrows(p)
           \/ ReadClaimed(p) \/ Publish(p)
    PROVE  BlockedInv'
<1>1. /\ TypeOK /\ proc \in [Procs -> Proc] /\ faults \in Nat
      /\ UNCHANGED <<rows, job, dlq>> /\ faults' \in {faults, faults + 1}
      /\ ProcBacked(p)
  BY BlockedRestated DEF TakeRelayJob, ScheduleRelay, ScheduleRelayThrows, FindPendingBatch,
                         FindPendingBatchThrows, ReadClaimed, Publish, queueVars, NoFault,
                         Fault, IInv, TypeOK
<1>2. RowsGoOn
  BY <1>1, RowsUntouched
<1>3. \A f \in Events : JobBacked(f)'
  BY <1>1, <1>2, JobsMove
<1>4. \A q \in Procs \ {p} : proc'[q] = proc[q]
  BY <1>1 DEF TakeRelayJob, ScheduleRelay, ScheduleRelayThrows, FindPendingBatch,
              FindPendingBatchThrows, ReadClaimed, Publish, Goto, ToIdle
<1>5. \/ proc'[p] = IdleProc
      \/ /\ proc'[p].todo \subseteq Committed /\ proc'[p].ev = proc[p].ev
         /\ proc'[p].pc # "deadletter"
  <2>1. CASE ScheduleRelay(p) \/ ScheduleRelayThrows(p) \/ FindPendingBatchThrows(p)
    BY <1>1, <2>1 DEF ScheduleRelay, ScheduleRelayThrows, FindPendingBatchThrows, ToIdle
  <2>2. CASE TakeRelayJob(p) \/ ReadClaimed(p) \/ Publish(p)
    BY <1>1, <2>2 DEF TakeRelayJob, ReadClaimed, Publish, Goto, Proc, ProcBacked
  <2>3. CASE FindPendingBatch(p)
    BY <1>1, <2>3 DEF FindPendingBatch, PendingBatch, Committed, Proc
  <2>4. QED
    BY <2>1, <2>2, <2>3
<1>6. QED
  BY <1>1, <1>2, <1>3, <1>4, <1>5, BlockedStepOf DEF ProcBacked

\* The steps that leave processEvent, with the row they leave.
LEMMA LeaveBlocks ==
    ASSUME ConstantsAssumption, IInv, BlockedInv, NEW p \in Procs,
           NEW e \in Events, proc[p].ev = e, RowsGoOn,
           \/ Returns(p) /\ faults' = faults /\ (QueueEnabled => Attempted(e)')
           \/ Throws(p) /\ faults' = faults + 1
    PROVE  BlockedInv'
<1>1. /\ TypeOK /\ proc \in [Procs -> Proc] /\ faults \in Nat
      /\ ProcBacked(p) /\ e \in Committed
  BY BlockedRestated, ConstantsAssumption DEF IInv, TypeOK, ProcBacked, ConstantsAssumption
<1>2. \A q \in Procs \ {p} : proc'[q] = proc[q]
  BY <1>1, Released
<1>3. \A f \in Events : JobBacked(f)'
  <2>1. CASE /\ QueueEnabled /\ Returns(p)
             /\ faults' = faults /\ Attempted(e)'
    <3>1. CompleteJob(e) /\ UNCHANGED dlq
      BY <2>1 DEF Returns
    <3>2. faults' \in {faults, faults + 1} /\ dlq \subseteq dlq'
      BY <2>1, <3>1
    <3>3. QED
      BY <1>1, <2>1, <3>1, <3>2, JobsMove
  <2>2. CASE QueueEnabled /\ Throws(p) /\ faults' = faults + 1
    <3>1. FailJob(e) /\ dlq \subseteq dlq'
      BY <2>2 DEF Throws
    <3>2. faults' \in {faults, faults + 1}
      BY <2>2
    <3>3. QED
      BY <1>1, <2>2, <3>1, <3>2, JobsMove
  <2>3. CASE ~QueueEnabled
    <3>1. UNCHANGED <<job, dlq>>
      BY <2>3 DEF Returns, Throws, queueVars
    <3>2. QED
      BY <1>1, <3>1, JobsMove
  <2>4. QED
    BY <2>1, <2>2, <2>3
<1>4. \/ proc'[p] = IdleProc
      \/ /\ proc'[p].todo \subseteq Committed /\ proc'[p].ev = NoEvent
         /\ proc'[p].pc # "deadletter"
  BY <1>1 DEF Returns, Throws, ToIdle, Proc, ProcBacked
<1>5. QED
  BY <1>2, <1>3, <1>4, BlockedStepOf

\* The claim, taken or not.
LEMMA ClaimBlocks ==
    ASSUME ConstantsAssumption, IInv, BlockedInv, NEW p \in Procs, Claim(p)
    PROVE  BlockedInv'
<1> DEFINE e == proc[p].ev
<1>1. /\ TypeOK /\ proc \in [Procs -> Proc] /\ rows \in [Events -> Row] /\ faults' = faults
      /\ ProcBacked(p) /\ e \in Events /\ e \in Committed /\ faults \in Nat
      /\ proc[p].pc = "claim"
  <2>1. proc[p].pc = "claim" /\ faults' = faults
    BY DEF Claim, NoFault
  <2>2. e \in Events /\ e # NoEvent
    BY <2>1, HasEvent, ConstantsAssumption DEF ConstantsAssumption
  <2>3. QED
    BY <2>1, <2>2, BlockedRestated DEF IInv, TypeOK, ProcBacked
<1>2. CASE Claimable(e)
  <2>1. SetStatus(e, "PROCESSING") /\ Goto(p, "read") /\ UNCHANGED queueVars
    BY <1>2 DEF Claim
  <2>2. RowsGoOn
    BY <1>1, <2>1, RowMoves DEF SetStatus, Row
  <2>3. \A f \in Events : JobBacked(f)'
    BY <1>1, <2>1, <2>2, JobsMove DEF queueVars
  <2>4. /\ \A q \in Procs \ {p} : proc'[q] = proc[q]
        /\ proc'[p].todo = proc[p].todo /\ proc'[p].ev = proc[p].ev
        /\ proc'[p].pc # "deadletter"
    BY <1>1, <2>1 DEF Goto, Proc
  <2>5. QED
    BY <1>1, <2>2, <2>3, <2>4, BlockedStepOf DEF ProcBacked
<1>3. CASE ~Claimable(e)
  <2>1. Returns(p) /\ UNCHANGED rows
    BY <1>3 DEF Claim
  <2>2. RowsGoOn
    BY <2>1, RowsUntouched
  <2>3. Attempted(e)
    BY <1>1, <1>3 DEF Attempted, Claimable
  <2>4. PICK f \in Events : f = e /\ Attempted(f)
    BY <1>1, <2>3
  <2>5. Attempted(f)'
    BY <2>2, <2>4 DEF RowsGoOn
  <2>6. QED
    BY <1>1, <2>1, <2>2, <2>4, <2>5, LeaveBlocks
<1>4. QED
  BY <1>2, <1>3

\* The outcomes of processEvent after the publication.
LEMMA OutcomeBlocks ==
    ASSUME ConstantsAssumption, IInv, BlockedInv, NEW p \in Procs, NEW e \in Events,
           proc[p].ev = e,
           \/ ClaimThrows(p) \/ ReadClaimedThrows(p)
           \/ MarkProcessed(p) \/ CatchFailure(p) \/ CatchFailureThrows(p)
           \/ MarkProcessedThrows(p) \/ AddDeadLetterJobThrows(p)
    PROVE  BlockedInv'
<1>1. /\ TypeOK /\ proc \in [Procs -> Proc] /\ rows \in [Events -> Row]
      /\ faults \in Nat /\ ProcBacked(p) /\ e \in Committed /\ e # NoEvent
      /\ proc[p].seen \in Nat
  <2>1. e # NoEvent /\ faults \in Nat
    BY ConstantsAssumption DEF ConstantsAssumption, IInv, TypeOK
  <2>2. QED
    BY <2>1, BlockedRestated DEF IInv, TypeOK, ProcBacked, Proc
<1>2. UNCHANGED rows => RowsGoOn
  BY RowsUntouched
<1>3. ASSUME SetStatus(e, "PROCESSED") PROVE RowsGoOn /\ Attempted(e)'
  BY <1>1, <1>3, RowMoves DEF SetStatus, Row
<1>4. ASSUME RecordFailure(p) PROVE RowsGoOn /\ Attempted(e)'
  <2>1. /\ \A f \in Events \ {e} : rows'[f] = rows[f]
        /\ rows'[e].status \in {"FAILED", "PENDING"}
        /\ rows'[e].attempts = proc[p].seen + 1
    BY <1>1, <1>4 DEF RecordFailure, SetOutcome, Row
  <2>2. rows'[e].attempts > 0
    BY <1>1, <2>1
  <2>3. QED
    BY <2>1, <2>2, RowMoves
<1>5. CASE \/ ClaimThrows(p) \/ ReadClaimedThrows(p) \/ CatchFailureThrows(p)
           \/ AddDeadLetterJobThrows(p)
  <2>1. Throws(p) /\ faults' = faults + 1
    BY <1>5 DEF ClaimThrows, ReadClaimedThrows, CatchFailureThrows, AddDeadLetterJobThrows,
                Fault
  <2>2. UNCHANGED rows \/ RecordFailure(p)
    BY <1>5 DEF ClaimThrows, ReadClaimedThrows, CatchFailureThrows, AddDeadLetterJobThrows
  <2>3. RowsGoOn
    BY <1>2, <1>4, <2>2
  <2>4. QED
    BY <2>1, <2>3, LeaveBlocks
<1>6. CASE MarkProcessed(p)
  <2>1. SetStatus(e, "PROCESSED") /\ Returns(p) /\ faults' = faults
    BY <1>6 DEF MarkProcessed, NoFault
  <2>2. QED
    BY <1>3, <2>1, LeaveBlocks
<1>7. CASE CatchFailure(p)
  <2>1. RecordFailure(p) /\ faults' = faults
    BY <1>7 DEF CatchFailure, NoFault
  <2>2. CASE Returns(p)
    BY <1>4, <2>1, <2>2, LeaveBlocks
  <2>3. CASE Goto(p, "deadletter") /\ UNCHANGED queueVars
    <3>1. \A f \in Events : JobBacked(f)'
      BY <1>1, <1>4, <2>1, <2>3, JobsMove DEF queueVars
    <3>2. /\ \A q \in Procs \ {p} : proc'[q] = proc[q]
          /\ proc'[p].todo = proc[p].todo /\ proc'[p].ev = proc[p].ev
      BY <1>1, <2>3 DEF Goto, Proc
    <3>3. Attempted(proc[p].ev)'
      BY <1>4, <2>1, <3>2 DEF Attempted
    <3>4. QED
      BY <1>1, <1>4, <2>1, <3>1, <3>2, <3>3, BlockedStepOf DEF ProcBacked
  <2>4. QED
    BY <1>7, <2>2, <2>3 DEF CatchFailure
<1>8. CASE MarkProcessedThrows(p)
  <2>1. /\ UNCHANGED rows \/ SetStatus(e, "PROCESSED")
        /\ Goto(p, "catch") /\ UNCHANGED queueVars /\ faults' = faults + 1
    BY <1>8 DEF MarkProcessedThrows, Fault
  <2>2. RowsGoOn
    BY <1>2, <1>3, <2>1
  <2>3. \A f \in Events : JobBacked(f)'
    BY <1>1, <2>1, <2>2, JobsMove DEF queueVars
  <2>4. /\ \A q \in Procs \ {p} : proc'[q] = proc[q]
        /\ proc'[p].todo = proc[p].todo /\ proc'[p].ev = proc[p].ev
        /\ proc'[p].pc # "deadletter"
    BY <1>1, <2>1 DEF Goto, Proc
  <2>5. QED
    BY <1>1, <2>2, <2>3, <2>4, BlockedStepOf DEF ProcBacked
<1>9. QED
  BY <1>5, <1>6, <1>7, <1>8

\* The steps after which a process is idle: the end of a relay, the dead letter
\* of an attempted event, and a crash.
LEMMA IdleBlocks ==
    ASSUME ConstantsAssumption, IInv, BlockedInv, NEW p \in Procs,
           RelayDone(p) \/ AddDeadLetterJob(p) \/ Crash(p)
    PROVE  BlockedInv'
<1>1. /\ TypeOK /\ proc \in [Procs -> Proc] /\ faults \in Nat /\ ProcBacked(p)
      /\ ToIdle(p) /\ UNCHANGED rows /\ faults' \in {faults, faults + 1}
      /\ proc[p].ev \in Events \cup {NoEvent} /\ NoEvent \notin Events
  BY BlockedRestated, ConstantsAssumption
     DEF RelayDone, AddDeadLetterJob, Crash, NoFault, Fault, IInv, TypeOK, Proc,
         ConstantsAssumption
<1>2. RowsGoOn
  BY <1>1, RowsUntouched
<1>3. \A f \in Events : JobBacked(f)'
  <2>1. CASE RelayDone(p)
    <3>1. UNCHANGED dlq /\ (CompleteJob("relay") \/ UNCHANGED job) /\ "relay" \notin Events
      BY <2>1, ConstantsAssumption DEF RelayDone, ConstantsAssumption
    <3>2. QED
      BY <1>1, <1>2, <3>1, JobsMove
  <2>2. CASE AddDeadLetterJob(p)
    <3>1. /\ CompleteJob(proc[p].ev) /\ dlq \subseteq dlq' /\ proc[p].pc = "deadletter"
      BY <2>2 DEF AddDeadLetterJob
    <3>2. proc[p].ev \in Events /\ Attempted(proc[p].ev)
      BY <1>1, <3>1, HasEvent DEF ProcBacked
    <3>3. PICK e \in Events : e = proc[p].ev /\ Attempted(e)
      BY <3>2
    <3>4. Attempted(e)' /\ CompleteJob(e)
      BY <1>2, <3>1, <3>3 DEF RowsGoOn
    <3>5. QED
      BY <1>1, <1>2, <3>1, <3>4, JobsMove
  <2>3. CASE Crash(p)
    <3>1. faults' = faults + 1 /\ "crash" \in FaultKinds
      BY <2>3 DEF Crash, Fault
    <3>2. CASE UNCHANGED job /\ UNCHANGED dlq
      BY <1>1, <1>2, <3>2, JobsMove
    <3>3. CASE proc[p].ev \in Events /\ StallJob(proc[p].ev)
      <4>1. proc[p].ev \in Committed
        BY <1>1, <3>3 DEF ProcBacked
      <4>2. dlq \subseteq dlq'
        BY <2>3 DEF Crash
      <4>3. QED
        BY <1>1, <1>2, <3>1, <3>3, <4>1, <4>2, JobsMove
    <3>4. QED
      BY <1>1, <2>3, <3>2, <3>3 DEF Crash
  <2>4. QED
    BY <2>1, <2>2, <2>3
<1>4. proc'[p] = IdleProc /\ \A q \in Procs \ {p} : proc'[q] = proc[q]
  BY <1>1 DEF ToIdle
<1>5. QED
  BY <1>2, <1>3, <1>4, BlockedStepOf

\* The listener ends the job's story with its dead letter or with a fault.
LEMMA ReportBlocks ==
    ASSUME ConstantsAssumption, IInv, BlockedInv, NEW e \in Events,
           ReportJob(e) \/ ReportJobFails(e)
    PROVE  BlockedInv'
<1>1. /\ TypeOK /\ job \in [Events -> Job] /\ job[e] \in Job
      /\ faults \in Nat /\ JobAttempts \in Nat
      /\ job[e].state = "failing" /\ JobBacked(e)
      /\ job' = [job EXCEPT ![e].state = "failed"]
      /\ UNCHANGED <<rows, proc>> /\ dlq \subseteq dlq'
  BY BlockedRestated, ConstantsAssumption
     DEF ReportJob, ReportJobFails, IInv, TypeOK, ConstantsAssumption
<1>2. \/ <<e, "dead-letter">> \in dlq' /\ faults' = faults
      \/ FaultKinds \cap {"redis", "crash"} # {} /\ faults' = faults + 1
  BY DEF ReportJob, ReportJobFails, NoFault, Fault
<1>3. RowsGoOn
  BY <1>1, RowsUntouched
<1>4. JobBacked(e)'
  <2>1. /\ job'[e].state = "failed" /\ job'[e].made = job[e].made
        /\ job'[e].stalled = job[e].stalled /\ job[e].made \in Nat
    BY <1>1 DEF Job
  <2>2. e \in Committed'
    BY <1>1 DEF JobBacked, Committed
  <2>3. QED
    BY <1>1, <1>2, <2>1, <2>2 DEF JobBacked
<1>5. ASSUME NEW f \in Events \ {e} PROVE JobBacked(f)'
  <2>1. job'[f] = job[f] /\ JobBacked(f) /\ faults' \in {faults, faults + 1}
    BY <1>1, <1>2, BlockedRestated
  <2>2. QED
    BY <1>1, <1>3, <2>1, JobMoves
<1>6. ASSUME NEW p \in Procs PROVE ProcBacked(p)'
  <2>1. ProcBacked(p)
    BY BlockedRestated
  <2>2. QED
    BY <1>1, <2>1 DEF ProcBacked, Attempted, Committed
<1>7. QED
  BY <1>4, <1>5, <1>6, BlockedRestated

LEMMA BlockedStep ==
    ASSUME ConstantsAssumption, IInv, BlockedInv, [Next]_vars
    PROVE  BlockedInv'
<1>1. CASE RelayTick \/ UNCHANGED vars
  <2>1. UNCHANGED <<rows, job, dlq, proc, faults>>
    BY <1>1 DEF RelayTick, NoFault, vars
  <2>2. QED
    BY <2>1 DEF BlockedInv, BlockedEventsExplained, LostToStalls, Attempted, Committed
<1>2. ASSUME NEW p \in Procs, NEW e \in Events,
             Commit(p, e) \/ TakeOutboxJob(p, e) \/ RelayEvent(p, e) \/ RelayEventThrows(p, e)
      PROVE  BlockedInv'
  BY <1>2, CommitBlocks, TakeBlocks
<1>3. ASSUME NEW p \in Procs,
             \/ TakeRelayJob(p) \/ ScheduleRelay(p) \/ ScheduleRelayThrows(p)
             \/ FindPendingBatch(p) \/ FindPendingBatchThrows(p)
             \/ ReadClaimed(p) \/ Publish(p)
      PROVE  BlockedInv'
  BY <1>3, WorkBlocks
<1>4. ASSUME NEW p \in Procs, Claim(p) PROVE BlockedInv'
  BY <1>4, ClaimBlocks
<1>5. ASSUME NEW p \in Procs,
             \/ ClaimThrows(p) \/ ReadClaimedThrows(p)
             \/ MarkProcessed(p) \/ CatchFailure(p) \/ CatchFailureThrows(p)
             \/ MarkProcessedThrows(p) \/ AddDeadLetterJobThrows(p)
      PROVE  BlockedInv'
  <2>1. proc[p].pc \in OwnerPc \cup {"claim", "deadletter"}
    BY <1>5 DEF ClaimThrows, ReadClaimedThrows, MarkProcessed, CatchFailure,
                CatchFailureThrows, MarkProcessedThrows, AddDeadLetterJobThrows, OwnerPc
  <2>2. QED
    BY <1>5, <2>1, HasEvent, OutcomeBlocks
<1>6. ASSUME NEW p \in Procs, RelayDone(p) \/ AddDeadLetterJob(p) \/ Crash(p)
      PROVE  BlockedInv'
  BY <1>6, IdleBlocks
<1>7. ASSUME NEW e \in Events, ReportJob(e) \/ ReportJobFails(e)
      PROVE  BlockedInv'
  BY <1>7, ReportBlocks
<1>8. QED
  BY <1>1, <1>2, <1>3, <1>4, <1>5, <1>6, <1>7 DEF Next, Run, Faulty

LEMMA BlockedInit ==
    ASSUME ConstantsAssumption, Init
    PROVE  BlockedInv
<1>1. /\ \A p \in Procs : proc[p] = IdleProc
      /\ \A e \in Events : job[e] = NoJob
      /\ faults = 0
  BY DEF Init
<1>2. /\ \A p \in Procs : proc[p].pc = "idle" /\ proc[p].ev = NoEvent /\ proc[p].todo = {}
      /\ \A e \in Events : job[e].state = "none" /\ job[e].made = 0 /\ ~job[e].stalled
  BY <1>1 DEF IdleProc, NoJob
<1>3. QED
  BY <1>1, <1>2 DEF BlockedInv, BlockedEventsExplained

\* An id that Queue.add ignores although its event is not published never blocks
\* the event for free or without a trace: a job kept as failed spent a fault on
\* every attempt and has its dead letter, unless one more took that or it lost its
\* worker twice, and a PENDING row behind a completed job has counted a failure.
THEOREM BlockedEventsCorrect == Spec => []BlockedEventsExplained
<1>1. Init => BlockedInv
  BY ConstantsAssumption, BlockedInit
<1>2. IInv /\ BlockedInv /\ [Next]_vars => BlockedInv'
  BY ConstantsAssumption, BlockedStep
<1>3. BlockedInv => BlockedEventsExplained
  BY DEF BlockedInv
<1>4. QED
  BY <1>1, <1>2, <1>3, Invariance, PTL DEF Spec

-----------------------------------------------------------------------------
(* The promise of OutboxDelivery, which the relay keeps as long as no      *)
(* reply of the database is lost                                           *)

\* What the promise says of an event follows from its row and its publications.
LEMMA StateOfRow ==
    ASSUME NEW e \in Events
    PROVE  /\ rows[e].status = "ABSENT" => DeliveryState[e] = "unborn"
           /\ rows[e].status = "PENDING" => DeliveryState[e] = "due"
           /\ rows[e].status = "PROCESSED" => DeliveryState[e] = "done"
           /\ rows[e].status = "FAILED" => DeliveryState[e] = "dead"
           /\ rows[e].status = "PROCESSING" =>
                 DeliveryState[e] = IF published[e] > rows[e].attempts THEN "handed" ELSE "taken"
BY DEF DeliveryState

LEMMA StateOfNextRow ==
    ASSUME NEW e \in Events
    PROVE  /\ rows'[e].status = "ABSENT" => DeliveryState'[e] = "unborn"
           /\ rows'[e].status = "PENDING" => DeliveryState'[e] = "due"
           /\ rows'[e].status = "PROCESSED" => DeliveryState'[e] = "done"
           /\ rows'[e].status = "FAILED" => DeliveryState'[e] = "dead"
           /\ rows'[e].status = "PROCESSING" =>
                 DeliveryState'[e] = IF published'[e] > rows'[e].attempts THEN "handed" ELSE "taken"
BY DEF DeliveryState

\* A step that touches one event's row and publications moves that event alone.
LEMMA OneEventMoves ==
    ASSUME NEW e \in Events,
           \A f \in Events \ {e} : rows'[f] = rows[f] /\ published'[f] = published[f]
    PROVE  DeliveryState' = [DeliveryState EXCEPT ![e] = DeliveryState'[e]]
<1>1. ASSUME NEW f \in Events, f # e
      PROVE  DeliveryState'[f] = DeliveryState[f]
  BY <1>1 DEF DeliveryState
<1>2. /\ DeliveryState = [f \in Events |-> DeliveryState[f]]
      /\ DeliveryState' = [f \in Events |-> DeliveryState'[f]]
  BY DEF DeliveryState
<1>3. QED
  BY <1>1, <1>2

LEMMA CommitDelivers ==
    ASSUME IInv, NEW p \in Procs, NEW e \in Events, Commit(p, e)
    PROVE  /\ Delivery!Accept(e) /\ ~Settled(e)
           /\ \A f \in Events \ {e} : rows'[f] = rows[f]
<1>1. /\ rows[e].status = "ABSENT" /\ UNCHANGED published
      /\ rows' = [rows EXCEPT ![e] = [status |-> "PENDING", attempts |-> 0,
                                      createdAt |-> Cardinality(Committed) + 1]]
      /\ rows \in [Events -> Row]
  BY DEF Commit, IInv, TypeOK
<1>2. /\ rows'[e].status = "PENDING"
      /\ \A f \in Events \ {e} : rows'[f] = rows[f] /\ published'[f] = published[f]
  BY <1>1
<1>3. DeliveryState[e] = "unborn" /\ DeliveryState'[e] = "due"
  BY <1>1, <1>2, StateOfRow, StateOfNextRow
<1>4. QED
  BY <1>1, <1>2, <1>3, OneEventMoves DEF Delivery!Accept, Delivery!Move, Settled

LEMMA ClaimDelivers ==
    ASSUME IInv, NEW p \in Procs, NEW e \in Events, proc[p].ev = e, Claim(p), Claimable(e)
    PROVE  /\ Delivery!Take(e) /\ ~Settled(e)
           /\ \A f \in Events \ {e} : rows'[f] = rows[f]
<1>1. /\ rows[e].status = "PENDING" /\ UNCHANGED published
      /\ rows' = [rows EXCEPT ![e].status = "PROCESSING"]
      /\ rows \in [Events -> Row] /\ published \in [Events -> Nat]
  BY DEF Claim, Claimable, SetStatus, IInv, TypeOK
<1>2. /\ rows'[e].status = "PROCESSING" /\ rows'[e].attempts = rows[e].attempts
      /\ \A f \in Events \ {e} : rows'[f] = rows[f] /\ published'[f] = published[f]
  BY <1>1 DEF Row
<1>3. published'[e] = rows'[e].attempts /\ rows'[e].attempts \in Nat
  BY <1>1, <1>2 DEF IInv, RowAccounted, Row
<1>4. DeliveryState[e] = "due" /\ DeliveryState'[e] = "taken"
  BY <1>1, <1>2, <1>3, StateOfRow, StateOfNextRow
<1>5. QED
  BY <1>1, <1>2, <1>4, OneEventMoves DEF Delivery!Take, Delivery!Move, Settled

LEMMA PublishDelivers ==
    ASSUME IInv, NEW p \in Procs, NEW e \in Events, proc[p].ev = e, Publish(p)
    PROVE  Delivery!HandOver(e) /\ UNCHANGED rows
<1>1. /\ proc[p].pc = "publish" /\ UNCHANGED rows
      /\ published' = [published EXCEPT ![e] = @ + 1]
  BY DEF Publish
<1>2. proc[p].pc \in OwnerPc
  BY <1>1 DEF OwnerPc
<1>3. /\ rows[e].status = "PROCESSING" /\ published[e] = rows[e].attempts
      /\ rows[e].attempts \in Nat /\ published \in [Events -> Nat]
  BY <1>1, <1>2, OwnerFacts DEF ProcessInformed
<1>4. /\ published'[e] = rows[e].attempts + 1
      /\ \A f \in Events \ {e} : rows'[f] = rows[f] /\ published'[f] = published[f]
  BY <1>1, <1>3
<1>5. DeliveryState[e] = "taken"
  BY <1>3, StateOfRow
<1>6. DeliveryState'[e] = "handed"
  BY <1>1, <1>3, <1>4, StateOfNextRow
<1>7. QED
  BY <1>1, <1>4, <1>5, <1>6, OneEventMoves DEF Delivery!HandOver, Delivery!Move

LEMMA MarkDelivers ==
    ASSUME IInv, NEW p \in Procs, NEW e \in Events, proc[p].ev = e, MarkProcessed(p)
    PROVE  /\ Delivery!Finish(e) /\ ~Settled(e)
           /\ \A f \in Events \ {e} : rows'[f] = rows[f]
<1>1. /\ proc[p].pc = "mark" /\ UNCHANGED published
      /\ rows' = [rows EXCEPT ![e].status = "PROCESSED"]
  BY DEF MarkProcessed, SetStatus
<1>2. proc[p].pc \in OwnerPc
  BY <1>1 DEF OwnerPc
<1>3. /\ rows[e].status = "PROCESSING" /\ published[e] = rows[e].attempts + 1
      /\ rows[e].attempts \in Nat /\ rows \in [Events -> Row]
  BY <1>1, <1>2, OwnerFacts DEF ProcessInformed
<1>4. /\ rows'[e].status = "PROCESSED"
      /\ \A f \in Events \ {e} : rows'[f] = rows[f] /\ published'[f] = published[f]
  BY <1>1, <1>3 DEF Row
<1>5. DeliveryState[e] = "handed" /\ DeliveryState'[e] = "done"
  BY <1>3, <1>4, StateOfRow, StateOfNextRow
<1>6. QED
  BY <1>1, <1>3, <1>4, <1>5, OneEventMoves DEF Delivery!Finish, Delivery!Move, Settled

\* Unless a reply was lost the catch block finds the row as it was claimed, and
\* its update hands the event back or gives it up.
LEMMA FailureDelivers ==
    ASSUME ConstantsAssumption, IInv, "reply" \notin FaultKinds,
           NEW p \in Procs, NEW e \in Events, proc[p].ev = e, proc[p].pc = "catch",
           RecordFailure(p), UNCHANGED published
    PROVE  /\ Delivery!Settle(e) /\ ~Settled(e)
           /\ \A f \in Events \ {e} : rows'[f] = rows[f]
<1>1. proc[p].pc \in OwnerPc
  BY DEF OwnerPc
<1>2. /\ published[e] = rows[e].attempts + 1 /\ proc[p].seen = rows[e].attempts
      /\ rows[e].status = "PROCESSING"
  BY <1>1, OwnerFacts DEF ProcessInformed
<1>3. /\ rows[e].attempts < MaxAttempts /\ rows[e].attempts \in Nat
      /\ rows \in [Events -> Row] /\ MaxAttempts \in Nat
  BY <1>1, <1>2, OwnerFacts DEF RowAccounted, ConstantsAssumption
<1>4. rows' = [rows EXCEPT ![e].status = IF rows[e].attempts + 1 >= MaxAttempts
                                         THEN "FAILED" ELSE "PENDING",
                           ![e].attempts = rows[e].attempts + 1]
  BY <1>2 DEF RecordFailure, SetOutcome
<1>5. /\ rows'[e].status = IF rows[e].attempts + 1 >= MaxAttempts
                           THEN "FAILED" ELSE "PENDING"
      /\ \A f \in Events \ {e} : rows'[f] = rows[f] /\ published'[f] = published[f]
  BY <1>3, <1>4 DEF Row
<1>6. DeliveryState[e] = "handed" /\ ~Settled(e)
  BY <1>2, <1>3, StateOfRow DEF Settled
<1>7. CASE rows[e].attempts + 1 >= MaxAttempts
  <2>1. DeliveryState'[e] = "dead" /\ published[e] = MaxAttempts
    BY <1>2, <1>3, <1>5, <1>7, StateOfNextRow
  <2>2. Delivery!GiveUp(e)
    BY <1>5, <1>6, <2>1, OneEventMoves DEF Delivery!GiveUp, Delivery!Move
  <2>3. QED
    BY <1>5, <1>6, <2>2 DEF Delivery!Settle
<1>8. CASE ~(rows[e].attempts + 1 >= MaxAttempts)
  <2>1. DeliveryState'[e] = "due" /\ published[e] < MaxAttempts
    BY <1>2, <1>3, <1>5, <1>8, StateOfNextRow
  <2>2. Delivery!TryAgain(e)
    BY <1>5, <1>6, <2>1, OneEventMoves DEF Delivery!TryAgain, Delivery!Move
  <2>3. QED
    BY <1>5, <1>6, <2>2 DEF Delivery!Settle
<1>9. QED
  BY <1>7, <1>8

\* Every step is invisible to the promise, publishes, or moves one event whose
\* row is not settled yet.
LEMMA StepDelivers ==
    ASSUME ConstantsAssumption, IInv, "reply" \notin FaultKinds, [Next]_vars
    PROVE  \/ UNCHANGED <<rows, published>>
           \/ /\ \E e \in Events : Delivery!HandOver(e)
              /\ UNCHANGED rows
           \/ \E e \in Events :
                 /\ Delivery!Accept(e) \/ Delivery!Take(e) \/ Delivery!Settle(e)
                 /\ ~Settled(e)
                 /\ \A f \in Events \ {e} : rows'[f] = rows[f]
<1> DEFINE Moves == \/ UNCHANGED <<rows, published>>
                    \/ /\ \E e \in Events : Delivery!HandOver(e)
                       /\ UNCHANGED rows
                    \/ \E e \in Events :
                          /\ Delivery!Accept(e) \/ Delivery!Take(e) \/ Delivery!Settle(e)
                          /\ ~Settled(e)
                          /\ \A f \in Events \ {e} : rows'[f] = rows[f]
<1> SUFFICES Moves
  OBVIOUS
<1>1. CASE RelayTick \/ UNCHANGED vars
  BY <1>1 DEF RelayTick, vars
<1>2. ASSUME NEW p \in Procs, NEW e \in Events, Commit(p, e) PROVE Moves
  BY <1>2, CommitDelivers
<1>3. ASSUME NEW p \in Procs, NEW e \in Events,
             TakeOutboxJob(p, e) \/ RelayEvent(p, e) \/ RelayEventThrows(p, e)
      PROVE  Moves
  BY <1>3 DEF TakeOutboxJob, RelayEvent, RelayEventThrows
<1>4. ASSUME NEW p \in Procs,
             \/ TakeRelayJob(p) \/ ScheduleRelay(p) \/ ScheduleRelayThrows(p)
             \/ FindPendingBatch(p) \/ FindPendingBatchThrows(p) \/ RelayDone(p)
             \/ ClaimThrows(p) \/ ReadClaimed(p) \/ ReadClaimedThrows(p)
             \/ AddDeadLetterJob(p) \/ AddDeadLetterJobThrows(p) \/ Crash(p)
      PROVE  Moves
  BY <1>4 DEF TakeRelayJob, ScheduleRelay, ScheduleRelayThrows, FindPendingBatch,
              FindPendingBatchThrows, RelayDone, ClaimThrows, ReadClaimed,
              ReadClaimedThrows, AddDeadLetterJob, AddDeadLetterJobThrows, Crash
<1>5. ASSUME NEW p \in Procs, Claim(p) PROVE Moves
  <2>1. proc[p].ev \in Events
    BY <1>5, HasEvent DEF Claim
  <2>2. CASE Claimable(proc[p].ev)
    BY <1>5, <2>1, <2>2, ClaimDelivers
  <2>3. CASE ~Claimable(proc[p].ev)
    BY <1>5, <2>3 DEF Claim
  <2>4. QED
    BY <2>2, <2>3
<1>6. ASSUME NEW p \in Procs, Publish(p) PROVE Moves
  <2>1. proc[p].ev \in Events
    BY <1>6, HasEvent DEF Publish, OwnerPc
  <2>2. QED
    BY <1>6, <2>1, PublishDelivers
<1>7. ASSUME NEW p \in Procs, MarkProcessed(p) PROVE Moves
  <2>1. proc[p].ev \in Events
    BY <1>7, HasEvent DEF MarkProcessed, OwnerPc
  <2>2. QED
    BY <1>7, <2>1, MarkDelivers DEF Delivery!Settle
<1>8. ASSUME NEW p \in Procs, MarkProcessedThrows(p) PROVE Moves
  BY <1>8 DEF MarkProcessedThrows, Fault
<1>9. ASSUME NEW p \in Procs, CatchFailure(p) \/ CatchFailureThrows(p) PROVE Moves
  <2>1. proc[p].ev \in Events
    BY <1>9, HasEvent DEF CatchFailure, CatchFailureThrows, OwnerPc
  <2>2. /\ proc[p].pc = "catch" /\ UNCHANGED published
        /\ RecordFailure(p) \/ UNCHANGED rows
    BY <1>9 DEF CatchFailure, CatchFailureThrows
  <2>3. QED
    BY <2>1, <2>2, FailureDelivers
<1>10. ASSUME NEW e \in Events, ReportJob(e) \/ ReportJobFails(e) PROVE Moves
  BY <1>10 DEF ReportJob, ReportJobFails
<1>11. QED
  BY <1>1, <1>2, <1>3, <1>4, <1>5, <1>6, <1>7, <1>8, <1>9, <1>10 DEF Next, Run, Faulty

\* PROCESSED and FAILED are final as long as no reply of the database is lost: no
\* late step, stale batch or retried job moves a settled row back.
THEOREM SettledCorrect ==
    ASSUME "reply" \notin FaultKinds
    PROVE  Spec => SettledIsFinal
<1>1. IInv /\ [Next]_vars => [\A e \in Events : Settled(e) => rows'[e] = rows[e]]_rows
  BY ConstantsAssumption, StepDelivers
<1>2. QED
  BY <1>1, Invariance, PTL DEF Spec, SettledIsFinal

\* Without lost replies the relay keeps the promise of OutboxDelivery: every step of
\* the table, the queue and the processes is one of its steps or invisible to it.
THEOREM ImplementsDeliveryCorrect ==
    ASSUME "reply" \notin FaultKinds
    PROVE  Spec => ImplementsDelivery
<1>1. Init => Delivery!Init
  <2> SUFFICES ASSUME Init PROVE Delivery!Init
    OBVIOUS
  <2>1. \A e \in Events : rows[e].status = "ABSENT"
    BY DEF Init
  <2>2. \A e \in Events : DeliveryState[e] = "unborn"
    BY <2>1, StateOfRow
  <2>3. DeliveryState = [e \in Events |-> DeliveryState[e]]
    BY DEF DeliveryState
  <2>4. DeliveryState = [e \in Events |-> "unborn"]
    BY <2>2, <2>3
  <2>5. QED
    BY <2>4 DEF Init, Delivery!Init
<1>2. IInv /\ [Next]_vars => [Delivery!Next]_(Delivery!vars)
  <2> SUFFICES ASSUME IInv, [Next]_vars PROVE [Delivery!Next]_(Delivery!vars)
    OBVIOUS
  <2>1. CASE UNCHANGED <<rows, published>>
    BY <2>1 DEF Delivery!vars, DeliveryState
  <2>2. CASE \E e \in Events : \/ Delivery!Accept(e) \/ Delivery!Take(e)
                               \/ Delivery!HandOver(e) \/ Delivery!Settle(e)
    BY <2>2 DEF Delivery!Next
  <2>3. QED
    BY <2>1, <2>2, ConstantsAssumption, StepDelivers
<1>3. QED
  BY <1>1, <1>2, Invariance, PTL DEF Spec, ImplementsDelivery, Delivery!Spec

-----------------------------------------------------------------------------
(* Claims without an owner and failures without a dead letter: what keeps  *)
(* them away, and which faults must not happen for it                      *)

\* Owners stay owners, or leave a row that is no longer PROCESSING.
LEMMA OwnersStay ==
    ASSUME NoOrphanClaim, NEW p \in Procs,
           \A q \in Procs \ {p} : proc'[q] = proc[q],
           \A e \in Events : rows'[e].status = "PROCESSING" =>
               \/ Owns(p, e)'
               \/ rows[e].status = "PROCESSING" /\ ~Owns(p, e)
    PROVE  NoOrphanClaim'
<1> SUFFICES ASSUME NEW e \in Events, rows'[e].status = "PROCESSING"
             PROVE  \E q \in Procs : Owns(q, e)'
  BY DEF NoOrphanClaim
<1>1. CASE Owns(p, e)'
  BY <1>1
<1>2. CASE rows[e].status = "PROCESSING" /\ ~Owns(p, e)
  <2>1. PICK q \in Procs : Owns(q, e)
    BY <1>2 DEF NoOrphanClaim
  <2>2. q # p
    BY <1>2, <2>1
  <2>3. Owns(q, e)'
    BY <2>1, <2>2 DEF Owns
  <2>4. QED
    BY <2>3
<1>3. QED
  BY <1>1, <1>2

\* Steps that leave the table alone, of a process that owns nothing or goes on
\* owning what it owns.
LEMMA OrphansOfQuietSteps ==
    ASSUME IInv, NoOrphanClaim, NEW p \in Procs,
           \A q \in Procs \ {p} : proc'[q] = proc[q],
           UNCHANGED rows,
           proc[p].pc \in OwnerPc => proc'[p].pc \in OwnerPc /\ proc'[p].ev = proc[p].ev
    PROVE  NoOrphanClaim'
BY OwnersStay DEF Owns

LEMMA OrphanStep ==
    ASSUME ConstantsAssumption, IInv, NoOrphanClaim,
           FaultKinds \cap {"read", "catch", "crash"} = {}, [Next]_vars
    PROVE  NoOrphanClaim'
<1>1. proc \in [Procs -> Proc] /\ rows \in [Events -> Row] /\ TypeOK
  BY DEF IInv, TypeOK
<1>2. CASE \/ RelayTick \/ UNCHANGED vars
           \/ \E e \in Events : ReportJob(e) \/ ReportJobFails(e)
  BY <1>2 DEF RelayTick, ReportJob, ReportJobFails, vars, NoOrphanClaim, Owns
<1>3. ASSUME NEW p \in Procs, NEW e \in Events, Commit(p, e) PROVE NoOrphanClaim'
  <2>1. /\ proc[p].pc = "idle" /\ Goto(p, IF QueueEnabled THEN "schedule" ELSE "batch")
        /\ rows' = [rows EXCEPT ![e] = [status |-> "PENDING", attempts |-> 0,
                                        createdAt |-> Cardinality(Committed) + 1]]
    BY <1>3 DEF Commit
  <2>2. \A q \in Procs \ {p} : proc'[q] = proc[q]
    BY <1>1, <2>1 DEF Goto
  <2>3. \A f \in Events : rows'[f].status = "PROCESSING" => rows[f].status = "PROCESSING"
    BY <1>1, <2>1
  <2>4. \A f \in Events : ~Owns(p, f)
    BY <2>1 DEF Owns, OwnerPc
  <2>5. QED
    BY <2>2, <2>3, <2>4, OwnersStay
<1>4. ASSUME NEW p \in Procs, NEW e \in Events,
             TakeOutboxJob(p, e) \/ RelayEvent(p, e) \/ RelayEventThrows(p, e)
      PROVE  NoOrphanClaim'
  <2>1. UNCHANGED rows /\ proc[p].pc \in {"idle", "relay"}
    BY <1>4 DEF TakeOutboxJob, RelayEvent, RelayEventThrows
  <2>2. \A q \in Procs \ {p} : proc'[q] = proc[q]
    BY <1>1, <1>4 DEF TakeOutboxJob, RelayEvent, RelayEventThrows
  <2>3. QED
    BY <2>1, <2>2, OrphansOfQuietSteps DEF OwnerPc
<1>5. ASSUME NEW p \in Procs,
             \/ TakeRelayJob(p) \/ ScheduleRelay(p) \/ ScheduleRelayThrows(p)
             \/ FindPendingBatch(p) \/ FindPendingBatchThrows(p) \/ RelayDone(p)
             \/ AddDeadLetterJob(p)
      PROVE  NoOrphanClaim'
  <2>1. UNCHANGED rows /\ proc[p].pc \in {"idle", "schedule", "batch", "relay", "deadletter"}
    BY <1>5 DEF TakeRelayJob, ScheduleRelay, ScheduleRelayThrows, FindPendingBatch,
                FindPendingBatchThrows, RelayDone, AddDeadLetterJob
  <2>2. \A q \in Procs \ {p} : proc'[q] = proc[q]
    BY <1>1, <1>5 DEF TakeRelayJob, ScheduleRelay, ScheduleRelayThrows, FindPendingBatch,
                FindPendingBatchThrows, RelayDone, AddDeadLetterJob, Goto, ToIdle
  <2>3. QED
    BY <2>1, <2>2, OrphansOfQuietSteps DEF OwnerPc
<1>6. ASSUME NEW p \in Procs,
             \/ Claim(p) /\ ~Claimable(proc[p].ev)
             \/ ClaimThrows(p) \/ AddDeadLetterJobThrows(p)
      PROVE  NoOrphanClaim'
  <2>1. /\ UNCHANGED rows /\ proc[p].pc \in {"claim", "deadletter"}
        /\ Returns(p) \/ Throws(p)
    BY <1>6 DEF Claim, ClaimThrows, AddDeadLetterJobThrows
  <2>2. \A q \in Procs \ {p} : proc'[q] = proc[q]
    BY <1>1, <2>1, Released
  <2>3. QED
    BY <2>1, <2>2, OrphansOfQuietSteps DEF OwnerPc
<1>7. ASSUME NEW p \in Procs, Claim(p), Claimable(proc[p].ev) PROVE NoOrphanClaim'
  <2>1. /\ proc[p].pc = "claim" /\ Goto(p, "read") /\ proc[p].ev \in Events
        /\ rows' = [rows EXCEPT ![proc[p].ev].status = "PROCESSING"]
    BY <1>7, HasEvent DEF Claim, SetStatus
  <2>2. /\ \A q \in Procs \ {p} : proc'[q] = proc[q]
        /\ proc'[p].pc = "read" /\ proc'[p].ev = proc[p].ev
    BY <1>1, <2>1 DEF Goto, Proc
  <2>3. Owns(p, proc[p].ev)' /\ \A f \in Events : ~Owns(p, f)
    BY <2>1, <2>2 DEF Owns, OwnerPc
  <2>4. \A f \in Events \ {proc[p].ev} : rows'[f] = rows[f]
    BY <1>1, <2>1
  <2>5. QED
    BY <2>2, <2>3, <2>4, OwnersStay
<1>8. ASSUME NEW p \in Procs, ReadClaimed(p) \/ Publish(p) PROVE NoOrphanClaim'
  <2>1. /\ UNCHANGED rows /\ \A q \in Procs \ {p} : proc'[q] = proc[q]
        /\ proc'[p].pc \in OwnerPc /\ proc'[p].ev = proc[p].ev
    BY <1>1, <1>8 DEF ReadClaimed, Publish, Goto, Proc, OwnerPc
  <2>2. QED
    BY <2>1, OrphansOfQuietSteps
<1>9. ASSUME NEW p \in Procs, MarkProcessedThrows(p) PROVE NoOrphanClaim'
  <2>1. /\ proc[p].pc = "mark" /\ Goto(p, "catch") /\ proc[p].ev \in Events
        /\ \/ UNCHANGED rows
           \/ rows' = [rows EXCEPT ![proc[p].ev].status = "PROCESSED"]
    BY <1>9, HasEvent DEF MarkProcessedThrows, SetStatus, OwnerPc
  <2>2. /\ \A q \in Procs \ {p} : proc'[q] = proc[q]
        /\ proc'[p].pc = "catch" /\ proc'[p].ev = proc[p].ev
    BY <1>1, <2>1 DEF Goto, Proc
  <2>3. \A f \in Events : rows'[f].status = "PROCESSING" => rows[f].status = "PROCESSING"
    BY <1>1, <2>1 DEF Row
  <2>4. \A f \in Events : Owns(p, f) => Owns(p, f)'
    BY <2>2 DEF Owns, OwnerPc
  <2>5. QED
    BY <2>2, <2>3, <2>4, OwnersStay
<1>10. ASSUME NEW p \in Procs, MarkProcessed(p) \/ CatchFailure(p) \/ CatchFailureThrows(p)
       PROVE  NoOrphanClaim'
  <2>1. /\ proc[p].ev \in Events
        /\ \/ rows' = [rows EXCEPT ![proc[p].ev].status = "PROCESSED"]
           \/ RecordFailure(p)
        /\ Returns(p) \/ Throws(p) \/ Goto(p, "deadletter")
    BY <1>10, HasEvent DEF MarkProcessed, CatchFailure, CatchFailureThrows, SetStatus,
                           Fault, OwnerPc
  <2>2. \A q \in Procs \ {p} : proc'[q] = proc[q]
    <3>1. CASE Returns(p) \/ Throws(p)
      BY <1>1, <3>1, Released
    <3>2. CASE Goto(p, "deadletter")
      BY <1>1, <3>2 DEF Goto
    <3>3. QED
      BY <2>1, <3>1, <3>2
  <2>3. /\ rows'[proc[p].ev].status # "PROCESSING"
        /\ \A f \in Events \ {proc[p].ev} : rows'[f] = rows[f]
    BY <1>1, <2>1 DEF RecordFailure, SetOutcome, Row
  <2>4. \A f \in Events \ {proc[p].ev} : ~Owns(p, f)
    BY DEF Owns
  <2>5. QED
    BY <2>2, <2>3, <2>4, OwnersStay
<1>11. ASSUME NEW p \in Procs, ReadClaimedThrows(p) \/ Crash(p) PROVE NoOrphanClaim'
  BY <1>11 DEF ReadClaimedThrows, Crash, Fault
<1>12. QED
  BY <1>2, <1>3, <1>4, <1>5, <1>6, <1>7, <1>8, <1>9, <1>10, <1>11 DEF Next, Run, Faulty

\* Whatever else fails, a row is PROCESSING only while a process works on it, unless
\* processEvent ends without an outcome: by its read, its catch block or a crash.
THEOREM NoOrphanCorrect ==
    ASSUME FaultKinds \cap {"read", "catch", "crash"} = {}
    PROVE  Spec => []NoOrphanClaim
<1>1. Init => NoOrphanClaim
  BY DEF Init, NoOrphanClaim
<1>2. IInv /\ NoOrphanClaim /\ [Next]_vars => NoOrphanClaim'
  BY ConstantsAssumption, OrphanStep
<1>3. QED
  BY <1>1, <1>2, Invariance, PTL DEF Spec

\* Dead letters are never taken back; a row that is FAILED has one, or its process
\* is about to add it.
LEMMA DeadLettersStay ==
    ASSUME QueueEnabled, FailedIsDeadLettered, NEW p \in Procs,
           \A q \in Procs \ {p} : proc'[q] = proc[q],
           dlq \subseteq dlq',
           \A e \in Events : rows'[e].status = "FAILED" =>
               \/ proc'[p].ev = e /\ proc'[p].pc = "deadletter"
               \/ <<e, "outbox-dead-letter">> \in dlq'
               \/ /\ rows[e].status = "FAILED"
                  /\ ~(proc[p].ev = e /\ proc[p].pc = "deadletter")
    PROVE  FailedIsDeadLettered'
<1> SUFFICES ASSUME NEW e \in Events, rows'[e].status = "FAILED"
             PROVE  \/ <<e, "outbox-dead-letter">> \in dlq'
                    \/ \E q \in Procs : proc'[q].ev = e /\ proc'[q].pc = "deadletter"
  BY DEF FailedIsDeadLettered
<1>1. CASE \/ proc'[p].ev = e /\ proc'[p].pc = "deadletter"
           \/ <<e, "outbox-dead-letter">> \in dlq'
  BY <1>1
<1>2. CASE /\ rows[e].status = "FAILED"
           /\ ~(proc[p].ev = e /\ proc[p].pc = "deadletter")
  <2>1. CASE <<e, "outbox-dead-letter">> \in dlq
    BY <2>1
  <2>2. CASE \E q \in Procs : proc[q].ev = e /\ proc[q].pc = "deadletter"
    <3>1. PICK q \in Procs : proc[q].ev = e /\ proc[q].pc = "deadletter"
      BY <2>2
    <3>2. q # p
      BY <1>2, <3>1
    <3>3. QED
      BY <3>1, <3>2
  <2>3. QED
    BY <1>2, <2>1, <2>2 DEF FailedIsDeadLettered
<1>3. QED
  BY <1>1, <1>2

LEMMA DeadLettersOfQuietSteps ==
    ASSUME QueueEnabled, FailedIsDeadLettered, NEW p \in Procs,
           \A q \in Procs \ {p} : proc'[q] = proc[q],
           dlq \subseteq dlq',
           proc[p].pc # "deadletter",
           \A e \in Events : rows'[e].status = "FAILED" => rows[e].status = "FAILED"
    PROVE  FailedIsDeadLettered'
BY DeadLettersStay

\* What processEvent does with the dead letters on its two ways out.
LEMMA ReleaseKeepsLetters ==
    ASSUME TypeOK, NEW p \in Procs, Returns(p) \/ Throws(p)
    PROVE  dlq \subseteq dlq' /\ \A q \in Procs \ {p} : proc'[q] = proc[q]
<1>1. \A q \in Procs \ {p} : proc'[q] = proc[q]
  BY Released
<1>2. dlq \subseteq dlq'
  BY DEF Returns, Throws, FailJob, queueVars
<1>3. QED
  BY <1>1, <1>2

LEMMA DeadLetterStep ==
    ASSUME ConstantsAssumption, IInv, FailedIsDeadLettered, QueueEnabled,
           FaultKinds \cap {"redis", "reply", "crash"} = {}, [Next]_vars
    PROVE  FailedIsDeadLettered'
<1>1. /\ proc \in [Procs -> Proc] /\ rows \in [Events -> Row] /\ TypeOK
      /\ MaxAttempts \in Nat
  BY DEF IInv, TypeOK, ConstantsAssumption
<1>2. CASE \/ RelayTick \/ UNCHANGED vars
           \/ \E e \in Events : ReportJob(e) \/ ReportJobFails(e)
  <2>1. UNCHANGED <<rows, proc>> /\ dlq \subseteq dlq'
    BY <1>2 DEF RelayTick, ReportJob, ReportJobFails, vars
  <2>2. QED
    BY <2>1 DEF FailedIsDeadLettered
<1>3. ASSUME NEW p \in Procs, NEW e \in Events, Commit(p, e) PROVE FailedIsDeadLettered'
  <2>1. /\ proc[p].pc = "idle" /\ Goto(p, IF QueueEnabled THEN "schedule" ELSE "batch")
        /\ rows' = [rows EXCEPT ![e] = [status |-> "PENDING", attempts |-> 0,
                                        createdAt |-> Cardinality(Committed) + 1]]
        /\ UNCHANGED dlq
    BY <1>3 DEF Commit, queueVars
  <2>2. \A q \in Procs \ {p} : proc'[q] = proc[q]
    BY <1>1, <2>1 DEF Goto
  <2>3. \A f \in Events : rows'[f].status = "FAILED" => rows[f].status = "FAILED"
    BY <1>1, <2>1
  <2>4. QED
    BY <2>1, <2>2, <2>3, DeadLettersOfQuietSteps
<1>4. ASSUME NEW p \in Procs, NEW e \in Events, TakeOutboxJob(p, e) \/ RelayEvent(p, e)
      PROVE  FailedIsDeadLettered'
  <2>1. UNCHANGED <<rows, dlq>> /\ proc[p].pc # "deadletter"
    BY <1>4 DEF TakeOutboxJob, RelayEvent
  <2>2. \A q \in Procs \ {p} : proc'[q] = proc[q]
    BY <1>1, <1>4 DEF TakeOutboxJob, RelayEvent
  <2>3. QED
    BY <2>1, <2>2, DeadLettersOfQuietSteps
<1>5. ASSUME NEW p \in Procs,
             \/ TakeRelayJob(p) \/ ScheduleRelay(p) \/ FindPendingBatch(p)
             \/ FindPendingBatchThrows(p) \/ RelayDone(p) \/ ReadClaimed(p) \/ Publish(p)
      PROVE  FailedIsDeadLettered'
  <2>1. UNCHANGED <<rows, dlq>> /\ proc[p].pc # "deadletter"
    BY <1>5 DEF TakeRelayJob, ScheduleRelay, FindPendingBatch, FindPendingBatchThrows,
                RelayDone, ReadClaimed, Publish, queueVars
  <2>2. \A q \in Procs \ {p} : proc'[q] = proc[q]
    BY <1>1, <1>5 DEF TakeRelayJob, ScheduleRelay, FindPendingBatch, FindPendingBatchThrows,
                      RelayDone, ReadClaimed, Publish, Goto, ToIdle
  <2>3. QED
    BY <2>1, <2>2, DeadLettersOfQuietSteps
<1>6. ASSUME NEW p \in Procs, Claim(p), Claimable(proc[p].ev) PROVE FailedIsDeadLettered'
  <2>1. /\ proc[p].pc = "claim" /\ Goto(p, "read") /\ UNCHANGED dlq
        /\ rows' = [rows EXCEPT ![proc[p].ev].status = "PROCESSING"]
        /\ proc[p].ev \in Events
    BY <1>6, HasEvent DEF Claim, SetStatus, queueVars
  <2>2. /\ \A q \in Procs \ {p} : proc'[q] = proc[q]
        /\ \A f \in Events : rows'[f].status = "FAILED" => rows[f].status = "FAILED"
    BY <1>1, <2>1 DEF Goto, Row
  <2>3. QED
    BY <2>1, <2>2, DeadLettersOfQuietSteps
<1>7. ASSUME NEW p \in Procs,
             \/ Claim(p) /\ ~Claimable(proc[p].ev)
             \/ ClaimThrows(p) \/ ReadClaimedThrows(p) \/ MarkProcessed(p)
             \/ CatchFailureThrows(p)
      PROVE  FailedIsDeadLettered'
  <2>1. /\ UNCHANGED rows \/ rows' = [rows EXCEPT ![proc[p].ev].status = "PROCESSED"]
        /\ Returns(p) \/ Throws(p)
        /\ proc[p].pc \in {"claim", "read", "mark", "catch"} /\ proc[p].ev \in Events
    BY <1>7, HasEvent DEF Claim, ClaimThrows, ReadClaimedThrows, MarkProcessed,
                          CatchFailureThrows, SetStatus, Fault, OwnerPc
  <2>2. \A f \in Events : rows'[f].status = "FAILED" => rows[f].status = "FAILED"
    BY <1>1, <2>1 DEF Row
  <2>3. QED
    BY <1>1, <2>1, <2>2, ReleaseKeepsLetters, DeadLettersOfQuietSteps
<1>8. ASSUME NEW p \in Procs, MarkProcessedThrows(p) PROVE FailedIsDeadLettered'
  <2>1. /\ UNCHANGED <<rows, dlq>> /\ proc[p].pc = "mark" /\ Goto(p, "catch")
    BY <1>8 DEF MarkProcessedThrows, Fault, queueVars
  <2>2. \A q \in Procs \ {p} : proc'[q] = proc[q]
    BY <1>1, <2>1 DEF Goto
  <2>3. QED
    BY <2>1, <2>2, DeadLettersOfQuietSteps
<1>9. ASSUME NEW p \in Procs, CatchFailure(p) PROVE FailedIsDeadLettered'
  <2>1. proc[p].pc = "catch" /\ RecordFailure(p) /\ proc[p].ev \in Events
    BY <1>9, HasEvent DEF CatchFailure, OwnerPc
  <2>2. /\ rows'[proc[p].ev].status = (IF proc[p].seen + 1 >= MaxAttempts
                                       THEN "FAILED" ELSE "PENDING")
        /\ \A f \in Events \ {proc[p].ev} : rows'[f] = rows[f]
    BY <1>1, <2>1 DEF RecordFailure, SetOutcome, Row
  <2>3. CASE proc[p].seen + 1 >= MaxAttempts
    <3>1. Goto(p, "deadletter") /\ UNCHANGED dlq
      BY <1>9, <2>3 DEF CatchFailure, queueVars
    <3>2. /\ \A q \in Procs \ {p} : proc'[q] = proc[q]
          /\ proc'[p].pc = "deadletter" /\ proc'[p].ev = proc[p].ev
      BY <1>1, <3>1 DEF Goto, Proc
    <3>3. QED
      BY <2>1, <2>2, <3>1, <3>2, DeadLettersStay
  <2>4. CASE ~(proc[p].seen + 1 >= MaxAttempts)
    <3>1. Returns(p)
      BY <1>9, <2>4 DEF CatchFailure
    <3>2. \A f \in Events : rows'[f].status = "FAILED" => rows[f].status = "FAILED"
      BY <2>2, <2>4
    <3>3. QED
      BY <1>1, <2>1, <3>1, <3>2, ReleaseKeepsLetters, DeadLettersOfQuietSteps
  <2>5. QED
    BY <2>3, <2>4
<1>10. ASSUME NEW p \in Procs, AddDeadLetterJob(p) PROVE FailedIsDeadLettered'
  <2>1. /\ dlq' = dlq \cup {<<proc[p].ev, "outbox-dead-letter">>}
        /\ ToIdle(p) /\ UNCHANGED rows
    BY <1>10 DEF AddDeadLetterJob
  <2>2. \A q \in Procs \ {p} : proc'[q] = proc[q]
    BY <1>1, <2>1 DEF ToIdle
  <2>3. QED
    BY <2>1, <2>2, DeadLettersStay
<1>11. ASSUME NEW p \in Procs,
              \/ ScheduleRelayThrows(p) \/ AddDeadLetterJobThrows(p) \/ Crash(p)
              \/ \E e \in Events : RelayEventThrows(p, e)
       PROVE  FailedIsDeadLettered'
  BY <1>11 DEF ScheduleRelayThrows, AddDeadLetterJobThrows, Crash, RelayEventThrows, Fault
<1>12. QED
  BY <1>2, <1>3, <1>4, <1>5, <1>6, <1>7, <1>8, <1>9, <1>10, <1>11 DEF Next, Run, Faulty

\* Every event that failed for good has its dead letter, or its process is about to
\* add it, unless Redis, a reply of the database or the process is lost on the way.
THEOREM DeadLetterCorrect ==
    ASSUME FaultKinds \cap {"redis", "reply", "crash"} = {}
    PROVE  Spec => []FailedIsDeadLettered
<1>1. Init => FailedIsDeadLettered
  BY DEF Init, FailedIsDeadLettered
<1>2. IInv /\ FailedIsDeadLettered /\ [Next]_vars => FailedIsDeadLettered'
  <2>1. ~QueueEnabled => FailedIsDeadLettered'
    BY DEF FailedIsDeadLettered
  <2>2. QED
    BY <2>1, ConstantsAssumption, DeadLetterStep
<1>3. QED
  BY <1>1, <1>2, Invariance, PTL DEF Spec
=============================================================================
