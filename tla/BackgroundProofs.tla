--------------------------- MODULE BackgroundProofs ---------------------------
(***************************************************************************)
(* What runs beside the requests, for any number of endpoints, jobs, tests,*)
(* publications, rules, attempts, changes and faults: the dispatch of      *)
(* webhooks, the handlers of a publication and the automation engine, and  *)
(* then, with AuditChainProofs, the components of MCBackground together.   *)
(***************************************************************************)
EXTENDS MCBackground, AuditChainProofs, FiniteSetTheorems, SequenceTheorems

-----------------------------------------------------------------------------
(* A job whose processor stops *)

LEMMA FailedAttempt ==
    ASSUME NEW job \in JobRecord, job.attempts < JobAttempts
    PROVE  /\ AttemptFailed(job) \in JobRecord
           /\ AttemptFailed(job).attempts = job.attempts + 1
           /\ AttemptFailed(job).state \in {"waiting", "failed"}
           /\ AttemptFailed(job).state = "waiting" => AttemptFailed(job).attempts < JobAttempts
           /\ AttemptFailed(job).state = "failed" => AttemptFailed(job).attempts = JobAttempts
           /\ AttemptFailed(job).stalled = job.stalled
<1>1. job.attempts \in Nat /\ job.attempts + 1 \in 0..JobAttempts
    BY JobQueueAssumption DEF JobRecord
<1> DEFINE state == IF job.attempts + 1 < JobAttempts THEN "waiting" ELSE "failed"
<1>2. state \in JobStates
    BY DEF JobStates
<1>3. AttemptFailed(job) = [job EXCEPT !.state = state, !.attempts = job.attempts + 1]
    BY DEF AttemptFailed, JobRecord
<1>4. /\ AttemptFailed(job) \in JobRecord /\ AttemptFailed(job).state = state
      /\ AttemptFailed(job).attempts = job.attempts + 1 /\ AttemptFailed(job).stalled = job.stalled
    <2> HIDE DEF state
    <2>1. [job EXCEPT !.state = state] \in JobRecord
        BY <1>2 DEF JobRecord
    <2>2. QED
        BY <1>1, <1>2, <1>3, <2>1 DEF JobRecord
<1>5. QED
    BY <1>1, <1>4, JobQueueAssumption

\* A job whose worker dies is given back once; the next time it is over.
LEMMA StalledJob ==
    ASSUME NEW job \in JobRecord, job.attempts < JobAttempts, NEW after \in Stalled(job)
    PROVE  /\ after \in JobRecord /\ after.stalled
           /\ \/ after.state \in {"waiting", "dropped"} /\ after.attempts = job.attempts
              \/ after.state = "failed" /\ after.attempts = job.attempts + 1 /\ after.attempts = JobAttempts
           /\ after.state = "waiting" <=> ~job.stalled
<1>1. CASE ~job.stalled
    <2>1. after = [job EXCEPT !.state = "waiting", !.stalled = TRUE]
        BY <1>1 DEF Stalled
    <2>2. QED
        BY <1>1, <2>1 DEF JobRecord, JobStates
<1>2. CASE job.stalled
    <2>1. \/ after = [job EXCEPT !.state = "dropped"]
          \/ after = AttemptFailed(job) /\ after.state = "failed"
        BY <1>2 DEF Stalled
    <2>2. CASE after = [job EXCEPT !.state = "dropped"]
        BY <1>2, <2>2 DEF JobRecord, JobStates
    <2>3. CASE after = AttemptFailed(job) /\ after.state = "failed"
        BY <1>2, <2>3, FailedAttempt
    <2>4. QED
        BY <2>1, <2>2, <2>3
<1>3. QED
    BY <1>1, <1>2 DEF JobRecord

-----------------------------------------------------------------------------
(* The dispatch of webhooks *)

Delivering == {"deliver", "post", "record", "catch"}

Reached(j, e) == hookEndpoint[e].state = "deleted" \/ hookRows[j][e]["DELIVERED"] > 0

\* A caller at an endpoint has one, which exists or existed, and a row for it.
CallerFit(c) ==
    /\ hookRun[c].pc \in Delivering => hookRun[c].todo # <<>>
    /\ hookRun[c].pc \in {"post", "record", "catch"} =>
          /\ hookEndpoint[Target(c)].state # "absent"
          /\ Stored(Target(c)) => hookRows[c][Target(c)]["PENDING"] > 0

\* A processor runs while its job is active; a job that may run has an attempt
\* left; what the run has listed it has reached or has still to do.
JobFit(j) ==
    /\ hookRun[j].pc # "idle" <=> hookJob[j].state = "active"
    /\ hookJob[j].state \in {"none", "waiting", "active"} => hookJob[j].attempts < JobAttempts
    /\ hookRun[j].pc = "list" => hookRun[j].listed = {}
    /\ hookRun[j].pc \in Delivering =>
          \A e \in hookRun[j].listed :
              Reached(j, e) \/ \E i \in DOMAIN hookRun[j].todo : hookRun[j].todo[i] = e
    /\ hookRun[j].pc = "report" \/ hookJob[j].state = "completed" =>
          \A e \in hookRun[j].listed : Reached(j, e)

HookInv ==
    /\ WebhookTypeOK
    /\ \A c \in Callers : CallerFit(c)
    /\ \A j \in HookJobs : JobFit(j)

LEMMA HookStarts == WebhookInit => HookInv
<1>1. SUFFICES ASSUME WebhookInit PROVE HookInv
    OBVIOUS
<1>2. NotRunning \in HookRun
    BY DEF NotRunning, HookRun, Answers, MaxTestAttempts
<1>3. NoJob \in JobRecord
    BY JobQueueAssumption DEF NoJob, JobRecord, JobStates
<1>4. WebhookTypeOK
    <2>1. hookEndpoint \in [Endpoints -> Endpoint]
        BY <1>1 DEF WebhookInit, Endpoint
    <2>2. hookChanges \in 0..MaxHookChanges /\ hookFaults \in 0..MaxHookFaults
        BY <1>1, WebhookAssumption DEF WebhookInit
    <2>3. QED
        BY <1>1, <1>2, <1>3, <2>1, <2>2 DEF WebhookInit, WebhookTypeOK
<1>5. ASSUME NEW c \in Callers PROVE CallerFit(c)
    BY <1>1 DEF WebhookInit, CallerFit, NotRunning, Delivering
<1>6. ASSUME NEW j \in HookJobs PROVE JobFit(j)
    BY <1>1, JobQueueAssumption DEF WebhookInit, JobFit, NotRunning, NoJob, Delivering, Callers
<1>7. QED
    BY <1>4, <1>5, <1>6 DEF HookInv

\* A step of one caller leaves what holds of the others alone.
LEMMA OneCaller ==
    ASSUME HookInv, NEW c \in Callers, UNCHANGED hookEndpoint,
           \A d \in Callers \ {c} : hookRun'[d] = hookRun[d] /\ hookRows'[d] = hookRows[d],
           \A j \in HookJobs \ {c} : hookJob'[j] = hookJob[j],
           WebhookTypeOK', CallerFit(c)', c \in HookJobs => JobFit(c)'
    PROVE  HookInv'
<1>1. ASSUME NEW d \in Callers PROVE CallerFit(d)'
    <2>1. CASE d = c
        BY <2>1
    <2>2. CASE d # c
        BY <2>2 DEF HookInv, CallerFit, Target, Stored
    <2>3. QED
        BY <2>1, <2>2
<1>2. ASSUME NEW j \in HookJobs PROVE JobFit(j)'
    <2>1. CASE j = c
        BY <2>1
    <2>2. CASE j # c
        BY <2>2 DEF HookInv, JobFit, Reached, Callers
    <2>3. QED
        BY <2>1, <2>2
<1>3. QED
    BY <1>1, <1>2 DEF HookInv

\* The types that one caller's step changes.
LEMMA TypesStep ==
    ASSUME WebhookTypeOK, NEW c \in Callers, NEW run \in HookRun, NEW stored \in [Endpoints -> [DeliveryStatus -> Nat]],
           hookRun' = [hookRun EXCEPT ![c] = run], hookRows' = [hookRows EXCEPT ![c] = stored],
           hookJob' \in [HookJobs -> JobRecord], hookAccepted' \in [Callers -> [Endpoints -> Nat]],
           hookSent' \in [HookJobs -> Nat], hookFaults' \in 0..MaxHookFaults,
           UNCHANGED <<hookEndpoint, hookChanges>>
    PROVE  /\ WebhookTypeOK' /\ hookRun'[c] = run /\ hookRows'[c] = stored
           /\ \A d \in Callers \ {c} : hookRun'[d] = hookRun[d] /\ hookRows'[d] = hookRows[d]
BY DEF WebhookTypeOK

\* The end of a run.
LEMMA RestsType ==
    ASSUME WebhookTypeOK, NEW c \in Callers
    PROVE  /\ Rests(c) \in HookRun /\ Rests(c).pc = "idle" /\ Rests(c).listed = hookRun[c].listed
<1>1. hookRun[c] \in HookRun
    BY DEF WebhookTypeOK
<1>2. <<>> \in Seq(Endpoints) /\ 0 \in 0..MaxTestAttempts /\ "none" \in Answers
    BY DEF Answers, MaxTestAttempts
<1>3. QED
    BY <1>1, <1>2 DEF HookRun, Rests

\* A failed attempt leaves the job waiting with an attempt left, or failed.
LEMMA ThrowFits ==
    ASSUME HookInv, NEW c \in Callers, hookRun[c].pc # "idle", Throw(c)
    PROVE  /\ hookJob' \in [HookJobs -> JobRecord]
           /\ \A j \in HookJobs \ {c} : hookJob'[j] = hookJob[j]
           /\ hookRun' = [hookRun EXCEPT ![c] = Rests(c)]
           /\ CallerFit(c)' /\ (c \in HookJobs => JobFit(c)')
<1>1. hookRun'[c] = Rests(c) /\ hookRun' = [hookRun EXCEPT ![c] = Rests(c)]
    BY DEF Throw, HookInv, WebhookTypeOK
<1>2. CallerFit(c)'
    BY <1>1, RestsType DEF CallerFit, Delivering, HookInv
<1>3. CASE c \in HookJobs
    <2>1. hookJob[c].attempts \in Nat /\ hookJob[c].attempts < JobAttempts
        BY <1>3 DEF HookInv, JobFit, WebhookTypeOK, JobRecord
    <2>2. AttemptFailed(hookJob[c]) \in JobRecord
        BY <1>3, <2>1, FailedAttempt DEF HookInv, WebhookTypeOK
    <2>3. hookJob' = [hookJob EXCEPT ![c] = AttemptFailed(hookJob[c])]
        BY <1>3 DEF Throw
    <2>4. hookJob'[c] = AttemptFailed(hookJob[c])
        BY <1>3, <2>3 DEF HookInv, WebhookTypeOK
    <2>5. JobFit(c)'
        BY <1>1, <2>1, <2>4, RestsType DEF JobFit, AttemptFailed, Delivering, HookInv
    <2>6. QED
        BY <1>1, <1>2, <1>3, <2>2, <2>3, <2>5 DEF HookInv, WebhookTypeOK
<1>4. CASE c \notin HookJobs
    BY <1>1, <1>2, <1>4 DEF Throw, HookInv, WebhookTypeOK
<1>5. QED
    BY <1>3, <1>4

\* Completing is sound when everything listed was reached.
LEMMA CompleteFits ==
    ASSUME HookInv, NEW j \in HookJobs, CompleteHookJob(j), UNCHANGED <<hookEndpoint, hookRows>>,
           \A e \in hookRun[j].listed : Reached(j, e)
    PROVE  /\ hookJob' \in [HookJobs -> JobRecord]
           /\ \A k \in HookJobs \ {j} : hookJob'[k] = hookJob[k]
           /\ hookRun' = [hookRun EXCEPT ![j] = Rests(j)]
           /\ CallerFit(j)' /\ JobFit(j)'
<1>1. j \in Callers
    BY DEF Callers
<1>2. hookRun'[j] = Rests(j) /\ hookRun' = [hookRun EXCEPT ![j] = Rests(j)]
    BY <1>1 DEF CompleteHookJob, HookInv, WebhookTypeOK
<1>3. hookJob' = [hookJob EXCEPT ![j] = Succeeded(hookJob[j])]
    BY DEF CompleteHookJob
<1>4. Succeeded(hookJob[j]) \in JobRecord /\ Succeeded(hookJob[j]).state = "completed"
    BY DEF Succeeded, JobRecord, JobStates, HookInv, WebhookTypeOK
<1>5. hookJob'[j] = Succeeded(hookJob[j])
    BY <1>3 DEF HookInv, WebhookTypeOK
<1>6. CallerFit(j)'
    BY <1>1, <1>2, RestsType DEF CallerFit, Delivering, HookInv
<1>7. JobFit(j)'
    BY <1>1, <1>2, <1>4, <1>5, RestsType DEF JobFit, Reached, Delivering, HookInv
<1>8. QED
    BY <1>2, <1>3, <1>4, <1>6, <1>7 DEF HookInv, WebhookTypeOK

\* A caller that is at an endpoint.
LEMMA TargetType ==
    ASSUME HookInv, NEW c \in Callers, hookRun[c].pc \in Delivering
    PROVE  /\ Target(c) \in Endpoints
           /\ hookRun[c].todo \in Seq(Endpoints) /\ hookRun[c].todo # <<>>
           /\ Tail(hookRun[c].todo) \in Seq(Endpoints)
           /\ \A i \in DOMAIN hookRun[c].todo :
                 hookRun[c].todo[i] = Target(c)
                 \/ \E k \in DOMAIN Tail(hookRun[c].todo) : Tail(hookRun[c].todo)[k] = hookRun[c].todo[i]
<1> DEFINE todo == hookRun[c].todo
<1>1. todo \in Seq(Endpoints) /\ todo # <<>>
    BY DEF HookInv, WebhookTypeOK, HookRun, CallerFit
<1>2. Target(c) = todo[1] /\ Target(c) \in Endpoints /\ Tail(todo) \in Seq(Endpoints)
    BY <1>1 DEF Target
<1>3. ASSUME NEW i \in DOMAIN todo, i # 1
      PROVE  \E k \in DOMAIN Tail(todo) : Tail(todo)[k] = todo[i]
    <2>1. i - 1 \in DOMAIN Tail(todo) /\ Tail(todo)[i - 1] = todo[i]
        BY <1>1, <1>3
    <2>2. QED
        BY <2>1
<1>4. QED
    BY <1>1, <1>2, <1>3

\* A row of the target changes: its counts stay counts, and DELIVERED never falls.
LEMMA SettledRows ==
    ASSUME HookInv, NEW c \in Callers, NEW status \in {"DELIVERED", "FAILED"},
           hookRun[c].pc \in {"record", "catch"}, Stored(Target(c)), Settled(c, status)
    PROVE  /\ hookRows'[c] \in [Endpoints -> [DeliveryStatus -> Nat]]
           /\ hookRows' = [hookRows EXCEPT ![c] = hookRows'[c]]
           /\ \A e \in Endpoints : hookRows'[c][e]["DELIVERED"] >= hookRows[c][e]["DELIVERED"]
           /\ status = "DELIVERED" => hookRows'[c][Target(c)]["DELIVERED"] > 0
<1> DEFINE t == Target(c)
           old == hookRows[c]
           new == [old[t] EXCEPT !["PENDING"] = old[t]["PENDING"] - 1, ![status] = old[t][status] + 1]
<1>1. t \in Endpoints
    BY TargetType DEF Delivering
<1>2. old \in [Endpoints -> [DeliveryStatus -> Nat]] /\ old[t]["PENDING"] > 0
    BY <1>1 DEF HookInv, WebhookTypeOK, CallerFit
<1>3. hookRows' = [hookRows EXCEPT ![c] = [old EXCEPT ![t] = new]]
    BY <1>1 DEF Settled, HookInv, WebhookTypeOK
<1>4. hookRows'[c] = [old EXCEPT ![t] = new]
    BY <1>3 DEF HookInv, WebhookTypeOK
<1>5. /\ new \in [DeliveryStatus -> Nat] /\ new["DELIVERED"] >= old[t]["DELIVERED"]
      /\ status = "DELIVERED" => new["DELIVERED"] > 0
    <2>1. old[t] \in [DeliveryStatus -> Nat]
        BY <1>1, <1>2
    <2>2. old[t]["PENDING"] - 1 \in Nat /\ old[t][status] + 1 \in Nat /\ old[t]["DELIVERED"] \in Nat
        BY <1>2, <2>1 DEF DeliveryStatus
    <2>3. /\ new["PENDING"] = old[t]["PENDING"] - 1 /\ new[status] = old[t][status] + 1
          /\ \A s \in DeliveryStatus \ {"PENDING", status} : new[s] = old[t][s]
        BY <2>1 DEF DeliveryStatus
    <2>4. \A s \in DeliveryStatus : new[s] \in Nat
        BY <2>1, <2>2, <2>3
    <2>5. new \in [DeliveryStatus -> Nat]
        BY <2>1, <2>4
    <2>6. QED
        BY <2>2, <2>3, <2>5 DEF DeliveryStatus
<1> HIDE DEF new, old, t
<1>6. hookRows'[c] \in [Endpoints -> [DeliveryStatus -> Nat]] /\ hookRows' = [hookRows EXCEPT ![c] = hookRows'[c]]
    BY <1>1, <1>2, <1>3, <1>4, <1>5
<1>7. \A e \in Endpoints : hookRows'[c][e] = IF e = t THEN new ELSE old[e]
    BY <1>1, <1>2, <1>4
<1>8. \A e \in Endpoints : hookRows'[c][e]["DELIVERED"] >= old[e]["DELIVERED"]
    BY <1>2, <1>5, <1>7 DEF DeliveryStatus
<1>9. status = "DELIVERED" => hookRows'[c][t]["DELIVERED"] > 0
    BY <1>1, <1>5, <1>7
<1>10. QED
    BY <1>6, <1>8, <1>9 DEF t, old

LEMMA SameRows ==
    ASSUME HookInv, NEW c \in Callers, UNCHANGED hookRows
    PROVE  hookRows[c] \in [Endpoints -> [DeliveryStatus -> Nat]] /\ hookRows' = [hookRows EXCEPT ![c] = hookRows[c]]
BY DEF HookInv, WebhookTypeOK

\* A step that only moves the run of one caller on.
LEMMA RunStep ==
    ASSUME HookInv, NEW c \in Callers, NEW run \in HookRun, hookRun' = [hookRun EXCEPT ![c] = run],
           UNCHANGED <<hookEndpoint, hookJob, hookRows, hookSent, hookChanges>>,
           hookAccepted' \in [Callers -> [Endpoints -> Nat]], hookFaults' \in 0..MaxHookFaults,
           CallerFit(c)', c \in HookJobs => JobFit(c)'
    PROVE  HookInv'
<1>1. hookJob' \in [HookJobs -> JobRecord] /\ hookSent' \in [HookJobs -> Nat] /\ WebhookTypeOK
    BY DEF HookInv, WebhookTypeOK
<1>2. WebhookTypeOK' /\ \A d \in Callers \ {c} : hookRun'[d] = hookRun[d] /\ hookRows'[d] = hookRows[d]
    BY <1>1, SameRows, TypesStep
<1>3. QED
    BY <1>2, OneCaller

\* A step in which an attempt fails, or the process dies: the rows may change too.
LEMMA HookEndStep ==
    ASSUME HookInv, NEW c \in Callers, NEW stored \in [Endpoints -> [DeliveryStatus -> Nat]],
           hookRows' = [hookRows EXCEPT ![c] = stored], hookRun' = [hookRun EXCEPT ![c] = Rests(c)],
           hookJob' \in [HookJobs -> JobRecord], \A j \in HookJobs \ {c} : hookJob'[j] = hookJob[j],
           UNCHANGED <<hookEndpoint, hookAccepted, hookChanges>>, hookSent' \in [HookJobs -> Nat],
           hookFaults' \in 0..MaxHookFaults, CallerFit(c)', c \in HookJobs => JobFit(c)'
    PROVE  HookInv'
<1>1. hookAccepted' \in [Callers -> [Endpoints -> Nat]] /\ WebhookTypeOK /\ Rests(c) \in HookRun
    BY RestsType DEF HookInv, WebhookTypeOK
<1>2. WebhookTypeOK' /\ \A d \in Callers \ {c} : hookRun'[d] = hookRun[d] /\ hookRows'[d] = hookRows[d]
    BY <1>1, TypesStep
<1>3. QED
    BY <1>2, OneCaller

LEMMA ThrowStep ==
    ASSUME HookInv, NEW c \in Callers, hookRun[c].pc # "idle", Throw(c),
           NEW stored \in [Endpoints -> [DeliveryStatus -> Nat]], hookRows' = [hookRows EXCEPT ![c] = stored],
           UNCHANGED <<hookEndpoint, hookAccepted, hookSent, hookChanges>>, hookFaults' \in 0..MaxHookFaults
    PROVE  HookInv'
<1>1. hookSent' \in [HookJobs -> Nat]
    BY DEF HookInv, WebhookTypeOK
<1>2. QED
    BY <1>1, ThrowFits, HookEndStep

\* A step that changes nothing but a job's record while its processor rests.
LEMMA JobStep ==
    ASSUME HookInv, NEW j \in HookJobs, NEW job \in JobRecord, hookJob' = [hookJob EXCEPT ![j] = job],
           hookRun[j].pc = "idle", job.state \notin {"active", "completed"},
           job.state \in {"none", "waiting"} => job.attempts < JobAttempts,
           UNCHANGED <<hookEndpoint, hookRun, hookRows, hookAccepted, hookSent, hookChanges>>,
           hookFaults' \in 0..MaxHookFaults
    PROVE  HookInv'
<1>1. j \in Callers /\ WebhookTypeOK'
    BY DEF Callers, HookInv, WebhookTypeOK
<1>2. CallerFit(j)'
    BY <1>1 DEF HookInv, CallerFit, Target, Stored
<1>3. hookJob'[j] = job /\ \A k \in HookJobs \ {j} : hookJob'[k] = hookJob[k]
    BY DEF HookInv, WebhookTypeOK
<1>4. JobFit(j)'
    BY <1>3 DEF JobFit, Delivering
<1>5. QED
    BY <1>1, <1>2, <1>3, <1>4, OneCaller

LEMMA NextFits ==
    ASSUME HookInv, NEW c \in Callers, hookRun[c].pc = "record", NextEndpoint(c),
           Stored(Target(c)), Settled(c, "DELIVERED"),
           UNCHANGED <<hookEndpoint, hookAccepted, hookSent, hookChanges, hookFaults>>
    PROVE  HookInv'
<1> DEFINE todo == hookRun[c].todo
           run == [hookRun[c] EXCEPT !.todo = Tail(todo), !.answer = "none",
                                     !.pc = IF Tail(todo) = <<>> THEN "report" ELSE "deliver"]
<1>1. /\ hookRows'[c] \in [Endpoints -> [DeliveryStatus -> Nat]] /\ hookRows' = [hookRows EXCEPT ![c] = hookRows'[c]]
      /\ \A e \in Endpoints : hookRows'[c][e]["DELIVERED"] >= hookRows[c][e]["DELIVERED"]
      /\ hookRows'[c][Target(c)]["DELIVERED"] > 0
    BY SettledRows
<1>2. /\ UNCHANGED hookJob /\ hookJob' \in [HookJobs -> JobRecord] /\ hookSent' \in [HookJobs -> Nat]
      /\ hookFaults' \in 0..MaxHookFaults /\ hookAccepted' \in [Callers -> [Endpoints -> Nat]] /\ WebhookTypeOK
    BY DEF NextEndpoint, HookInv, WebhookTypeOK
<1>3. CASE c \in HookTests
    <2>1. hookRun' = [hookRun EXCEPT ![c] = Rests(c)] /\ c \notin HookJobs
        BY <1>3, WebhookAssumption DEF NextEndpoint
    <2>2. hookRun'[c] = Rests(c)
        BY <1>2, <2>1 DEF WebhookTypeOK
    <2>3. CallerFit(c)'
        BY <1>2, <2>2, RestsType DEF CallerFit, Delivering
    <2>4. QED
        BY <1>1, <1>2, <2>1, <2>3, HookEndStep
<1>4. CASE c \notin HookTests
    <2>1. c \in HookJobs /\ hookRun' = [hookRun EXCEPT ![c] = run]
        BY <1>4 DEF NextEndpoint, Callers
    <2>2. /\ hookRun[c] \in HookRun /\ Tail(todo) \in Seq(Endpoints) /\ Target(c) \in Endpoints
          /\ \A i \in DOMAIN todo : todo[i] = Target(c) \/ \E k \in DOMAIN Tail(todo) : Tail(todo)[k] = todo[i]
        BY <1>2, TargetType DEF WebhookTypeOK, Delivering
    <2>3. /\ run \in HookRun /\ run.todo = Tail(todo) /\ run.listed = hookRun[c].listed
          /\ run.pc = IF Tail(todo) = <<>> THEN "report" ELSE "deliver"
        BY <2>2 DEF HookRun, Answers
    <2> HIDE DEF run
    <2> DEFINE stored == hookRows'[c]
    <2>10. stored \in [Endpoints -> [DeliveryStatus -> Nat]] /\ hookRows' = [hookRows EXCEPT ![c] = stored]
        BY <1>1
    <2> HIDE DEF stored
    <2>4. WebhookTypeOK' /\ hookRun'[c] = run
          /\ \A d \in Callers \ {c} : hookRun'[d] = hookRun[d] /\ hookRows'[d] = hookRows[d]
        <3>1. run \in HookRun /\ hookRun' = [hookRun EXCEPT ![c] = run] /\ UNCHANGED <<hookEndpoint, hookChanges>>
            BY <2>1, <2>3
        <3>2. QED
            BY <1>2, <2>10, <3>1, TypesStep
    <2>5. CallerFit(c)'
        BY <2>3, <2>4 DEF CallerFit, Delivering
    <2>6. JobFit(c)
        BY <2>1 DEF HookInv
    <2>7. ASSUME NEW e \in run.listed
          PROVE  Reached(c, e)' \/ \E k \in DOMAIN Tail(todo) : Tail(todo)[k] = e
        <3>1. e \in Endpoints /\ (Reached(c, e) \/ \E i \in DOMAIN todo : todo[i] = e)
            BY <1>2, <2>2, <2>3, <2>6, <2>7 DEF JobFit, Delivering, HookRun
        <3>2. CASE Reached(c, e)
            <4>1. hookRows[c][e]["DELIVERED"] \in Nat /\ hookRows'[c][e]["DELIVERED"] \in Nat
                BY <1>1, <1>2, <3>1 DEF WebhookTypeOK, DeliveryStatus
            <4>2. QED
                BY <1>1, <3>1, <3>2, <4>1 DEF Reached
        <3>3. CASE e = Target(c)
            BY <1>1, <3>3 DEF Reached
        <3>4. CASE \E k \in DOMAIN Tail(todo) : Tail(todo)[k] = e
            BY <3>4
        <3>5. QED
            BY <2>2, <3>1, <3>2, <3>3, <3>4
    <2>8. JobFit(c)'
        <3>1. hookJob[c].state = "active"
            BY <2>6 DEF JobFit
        <3>2. run.pc = "report" => \A e \in run.listed : Reached(c, e)'
            BY <2>3, <2>7
        <3>3. hookJob'[c] = hookJob[c] /\ hookRun'[c].pc \notin {"idle", "list"}
            BY <1>2, <2>3, <2>4
        <3>4. \A e \in hookRun'[c].listed :
                 Reached(c, e)' \/ \E i \in DOMAIN hookRun'[c].todo : hookRun'[c].todo[i] = e
            BY <2>3, <2>4, <2>7
        <3>5. hookRun'[c].pc = "report" => \A e \in hookRun'[c].listed : Reached(c, e)'
            BY <2>4, <3>2
        <3>6. QED
            BY <2>6, <3>1, <3>3, <3>4, <3>5 DEF JobFit
    <2>9. QED
        BY <1>2, <2>4, <2>5, <2>8, OneCaller
<1>5. QED
    BY <1>3, <1>4

LEMMA HookSteps == HookInv /\ [WebhookNext]_hookVars => HookInv'
<1>1. SUFFICES ASSUME HookInv, [WebhookNext]_hookVars PROVE HookInv'
    OBVIOUS
<1>2. WebhookTypeOK
    BY <1>1 DEF HookInv
<1>3. ASSUME NEW e \in Endpoints, CreateEndpoint(e) \/ UpdateEndpoint(e) PROVE HookInv'
    <2>1. PICK state \in {"active", "inactive"}, subscribed \in BOOLEAN :
              hookEndpoint' = [hookEndpoint EXCEPT ![e] = [state |-> state, subscribed |-> subscribed]]
        BY <1>3 DEF CreateEndpoint, UpdateEndpoint
    <2>2. /\ hookChanges' = hookChanges + 1 /\ hookChanges < MaxHookChanges
          /\ UNCHANGED <<hookJob, hookRun, hookRows, hookAccepted, hookSent, hookFaults>>
          /\ hookEndpoint[e].state \in {"absent", "active", "inactive"}
        BY <1>3 DEF CreateEndpoint, UpdateEndpoint, EndpointChange, Stored
    <2>3. WebhookTypeOK'
        BY <1>2, <2>1, <2>2, WebhookAssumption DEF WebhookTypeOK, Endpoint
    <2>4. \A d \in Endpoints : /\ d # e => hookEndpoint'[d] = hookEndpoint[d]
                               /\ hookEndpoint'[d].state # "absent" \/ hookEndpoint[d].state = "absent"
                               /\ hookEndpoint[d].state = "deleted" => hookEndpoint'[d].state = "deleted"
                               /\ hookEndpoint[d].state # "absent" /\ Stored(d)' => Stored(d)
        BY <1>2, <2>1, <2>2 DEF WebhookTypeOK, Stored
    <2>5. ASSUME NEW c \in Callers PROVE CallerFit(c)'
        <3>1. CallerFit(c)
            BY <1>1 DEF HookInv
        <3>2. hookRun[c].pc \in Delivering => Target(c) \in Endpoints
            BY <1>1, TargetType
        <3>3. QED
            BY <2>2, <2>4, <3>1, <3>2 DEF CallerFit, Target, Delivering, Stored
    <2>6. ASSUME NEW j \in HookJobs PROVE JobFit(j)'
        <3>1. JobFit(j) /\ hookRun[j].listed \in SUBSET Endpoints
            BY <1>1, <1>2 DEF HookInv, WebhookTypeOK, HookRun, Callers
        <3>2. \A d \in hookRun[j].listed : Reached(j, d) => Reached(j, d)'
            BY <2>2, <2>4, <3>1 DEF Reached
        <3>3. QED
            BY <2>2, <3>1, <3>2 DEF JobFit
    <2>7. QED
        BY <2>3, <2>5, <2>6 DEF HookInv
<1>4. ASSUME NEW e \in Endpoints, DeleteEndpoint(e) PROVE HookInv'
    <2>1. /\ hookChanges' = hookChanges + 1 /\ hookChanges < MaxHookChanges
          /\ hookEndpoint' = [hookEndpoint EXCEPT ![e].state = "deleted"]
          /\ hookRows' = [c \in Callers |-> [hookRows[c] EXCEPT ![e] = [s \in DeliveryStatus |-> 0]]]
          /\ UNCHANGED <<hookJob, hookRun, hookAccepted, hookSent, hookFaults>>
        BY <1>4 DEF DeleteEndpoint, EndpointChange
    <2>2. hookRows' \in [Callers -> [Endpoints -> [DeliveryStatus -> Nat]]]
        BY <1>2, <2>1 DEF WebhookTypeOK
    <2>3. WebhookTypeOK'
        <3>1. [hookEndpoint[e] EXCEPT !.state = "deleted"] \in Endpoint
            BY <1>2 DEF WebhookTypeOK, Endpoint
        <3>2. hookEndpoint' \in [Endpoints -> Endpoint]
            BY <1>2, <2>1, <3>1 DEF WebhookTypeOK
        <3>3. QED
            BY <1>2, <2>1, <2>2, <3>2, WebhookAssumption DEF WebhookTypeOK
    <2>4. \A d \in Endpoints : hookEndpoint'[d].state = IF d = e THEN "deleted" ELSE hookEndpoint[d].state
        BY <1>2, <2>1 DEF WebhookTypeOK, Endpoint
    <2>5. \A c \in Callers, d \in Endpoints : d # e => hookRows'[c][d] = hookRows[c][d]
        BY <1>2, <2>1 DEF WebhookTypeOK
    <2>6. ASSUME NEW c \in Callers PROVE CallerFit(c)'
        <3>1. CallerFit(c)
            BY <1>1 DEF HookInv
        <3>2. hookRun[c].pc \in Delivering => Target(c) \in Endpoints
            BY <1>1, TargetType
        <3>3. QED
            BY <2>1, <2>4, <2>5, <3>1, <3>2 DEF CallerFit, Target, Delivering, Stored
    <2>7. ASSUME NEW j \in HookJobs PROVE JobFit(j)'
        <3>1. JobFit(j) /\ j \in Callers /\ hookRun[j].listed \in SUBSET Endpoints
            BY <1>1, <1>2 DEF HookInv, WebhookTypeOK, HookRun, Callers
        <3>2. \A d \in hookRun[j].listed : Reached(j, d) => Reached(j, d)'
            BY <2>4, <2>5, <3>1 DEF Reached
        <3>3. QED
            BY <2>1, <3>1, <3>2 DEF JobFit
    <2>8. QED
        BY <2>3, <2>6, <2>7 DEF HookInv
<1>5. ASSUME NEW j \in HookJobs, Dispatch(j) PROVE HookInv'
    <2>1. /\ hookJob[j].state = "none" /\ hookJob' = [hookJob EXCEPT ![j] = Added(hookJob[j])]
          /\ UNCHANGED <<hookEndpoint, hookRun, hookRows, hookAccepted, hookSent, hookChanges, hookFaults>>
        BY <1>5 DEF Dispatch
    <2>2. JobFit(j) /\ hookJob[j] \in JobRecord /\ hookFaults \in 0..MaxHookFaults
        BY <1>1, <1>2 DEF HookInv, WebhookTypeOK
    <2>3. /\ Added(hookJob[j]) \in JobRecord /\ Added(hookJob[j]).state = "waiting"
          /\ Added(hookJob[j]).attempts < JobAttempts
        BY <2>1, <2>2 DEF Added, JobRecord, JobStates, JobFit
    <2>4. hookRun[j].pc = "idle"
        BY <2>1, <2>2 DEF JobFit
    <2>5. QED
        BY <1>1, <2>1, <2>2, <2>3, <2>4, JobStep
<1>6. ASSUME NEW j \in HookJobs, NEW state \in {"dead", "unreported"}, hookJob[j].state = "failed",
             hookJob' = [hookJob EXCEPT ![j].state = state],
             UNCHANGED <<hookEndpoint, hookRun, hookRows, hookAccepted, hookSent, hookChanges>>,
             hookFaults' \in 0..MaxHookFaults
      PROVE  HookInv'
    <2>1. JobFit(j) /\ hookJob[j] \in JobRecord
        BY <1>1, <1>2 DEF HookInv, WebhookTypeOK
    <2> DEFINE job == [hookJob[j] EXCEPT !.state = state]
    <2>2. job \in JobRecord /\ job.state = state /\ hookJob' = [hookJob EXCEPT ![j] = job]
        BY <1>2, <1>6, <2>1 DEF JobRecord, JobStates, WebhookTypeOK
    <2>3. hookRun[j].pc = "idle"
        BY <1>6, <2>1 DEF JobFit
    <2> HIDE DEF job
    <2>4. QED
        BY <1>1, <1>6, <2>2, <2>3, JobStep
<1>7. ASSUME NEW j \in HookJobs, ReportDeadHookJob(j) PROVE HookInv'
    <2>1. hookJob' = [hookJob EXCEPT ![j].state = "dead"] /\ hookFaults' \in 0..MaxHookFaults
        BY <1>2, <1>7 DEF ReportDeadHookJob, DeadLettered, WebhookTypeOK, JobRecord
    <2>2. QED
        BY <1>6, <1>7, <2>1 DEF ReportDeadHookJob
<1>8. ASSUME NEW j \in HookJobs, DeadHookJobUnreported(j) PROVE HookInv'
    <2>1. hookFaults' \in 0..MaxHookFaults
        BY <1>2, <1>8, WebhookAssumption DEF DeadHookJobUnreported, HookFault, WebhookTypeOK
    <2>2. QED
        BY <1>6, <1>8, <2>1 DEF DeadHookJobUnreported
<1>9. ASSUME NEW j \in HookJobs, TakeHookJob(j) PROVE HookInv'
    <2> DEFINE run == [NotRunning EXCEPT !.pc = "list"]
               job == Taken(hookJob[j])
    <2>1. /\ hookJob[j].state = "waiting" /\ hookJob' = [hookJob EXCEPT ![j] = job]
          /\ hookRun' = [hookRun EXCEPT ![j] = run]
          /\ UNCHANGED <<hookEndpoint, hookRows, hookAccepted, hookSent, hookChanges, hookFaults>>
        BY <1>9 DEF TakeHookJob
    <2>2. run \in HookRun /\ run.pc = "list" /\ run.listed = {}
        <3>1. NotRunning \in HookRun
            BY DEF NotRunning, HookRun, Answers, MaxTestAttempts
        <3>2. "list" \in {"idle", "list", "deliver", "post", "record", "catch", "report"}
            OBVIOUS
        <3>3. NotRunning.listed = {}
            BY DEF NotRunning
        <3>4. QED
            BY <3>1, <3>2, <3>3 DEF HookRun
    <2>3. JobFit(j) /\ hookJob[j] \in JobRecord /\ j \in Callers
        BY <1>1, <1>2 DEF HookInv, WebhookTypeOK, Callers
    <2>4. job \in JobRecord /\ job.state = "active" /\ job.attempts = hookJob[j].attempts
        BY <2>3 DEF Taken, JobRecord, JobStates
    <2> HIDE DEF run, job
    <2>5. /\ hookJob' \in [HookJobs -> JobRecord] /\ hookJob'[j] = job
          /\ \A k \in HookJobs \ {j} : hookJob'[k] = hookJob[k]
        BY <1>2, <2>1, <2>4 DEF WebhookTypeOK
    <2>6. /\ hookAccepted' \in [Callers -> [Endpoints -> Nat]] /\ hookSent' \in [HookJobs -> Nat]
          /\ hookFaults' \in 0..MaxHookFaults
        BY <1>2, <2>1 DEF WebhookTypeOK
    <2>7. WebhookTypeOK' /\ hookRun'[j] = run
          /\ \A d \in Callers \ {j} : hookRun'[d] = hookRun[d] /\ hookRows'[d] = hookRows[d]
        <3>1. hookRows[j] \in [Endpoints -> [DeliveryStatus -> Nat]]
              /\ hookRows' = [hookRows EXCEPT ![j] = hookRows[j]]
            BY <1>1, <2>1, <2>3, SameRows
        <3>2. QED
            <4>1. UNCHANGED <<hookEndpoint, hookChanges>>
                BY <2>1
            <4>2. hookRun' = [hookRun EXCEPT ![j] = run] /\ run \in HookRun /\ j \in Callers
                BY <2>1, <2>2, <2>3
            <4>3. QED
                BY <1>2, <2>5, <2>6, <3>1, <4>1, <4>2, TypesStep
    <2>8. CallerFit(j)'
        BY <2>2, <2>7 DEF CallerFit, Delivering
    <2>9. JobFit(j)'
        BY <2>1, <2>2, <2>3, <2>4, <2>5, <2>7 DEF JobFit, Delivering
    <2>10. QED
        BY <1>1, <2>1, <2>3, <2>5, <2>7, <2>8, <2>9, OneCaller
<1>10. ASSUME NEW j \in HookJobs, CompleteHookJob(j), \A e \in hookRun[j].listed : Reached(j, e),
              UNCHANGED <<hookEndpoint, hookRows, hookAccepted, hookChanges, hookFaults>>,
              hookSent' \in [HookJobs -> Nat]
       PROVE  HookInv'
    <2>1. j \in Callers /\ hookFaults' \in 0..MaxHookFaults
        BY <1>2, <1>10 DEF Callers, WebhookTypeOK
    <2>2. /\ hookJob' \in [HookJobs -> JobRecord]
          /\ \A k \in HookJobs \ {j} : hookJob'[k] = hookJob[k]
          /\ hookRun' = [hookRun EXCEPT ![j] = Rests(j)]
          /\ CallerFit(j)' /\ JobFit(j)'
        BY <1>1, <1>10, CompleteFits
    <2>3. hookRows[j] \in [Endpoints -> [DeliveryStatus -> Nat]] /\ hookRows' = [hookRows EXCEPT ![j] = hookRows[j]]
        BY <1>1, <1>10, <2>1, SameRows
    <2>4. QED
        BY <1>1, <1>10, <2>1, <2>2, <2>3, HookEndStep
<1>11. ASSUME NEW j \in HookJobs, ListEndpoints(j) PROVE HookInv'
    <2>1. /\ hookRun[j].pc = "list"
          /\ UNCHANGED <<hookEndpoint, hookRows, hookAccepted, hookSent, hookChanges, hookFaults>>
        BY <1>11 DEF ListEndpoints
    <2>2. JobFit(j) /\ j \in Callers /\ hookRun[j] \in HookRun /\ hookSent' \in [HookJobs -> Nat]
        BY <1>1, <1>2, <2>1 DEF HookInv, WebhookTypeOK, Callers
    <2>3. CASE CompleteHookJob(j)
        <3>1. \A e \in hookRun[j].listed : Reached(j, e)
            BY <2>1, <2>2 DEF JobFit
        <3>2. QED
            BY <1>10, <2>1, <2>2, <2>3, <3>1
    <2>4. ASSUME NEW order \in [1..Cardinality(ActiveForEvent) -> ActiveForEvent], ActiveForEvent # {},
                 ActiveForEvent \subseteq {order[i] : i \in DOMAIN order}, UNCHANGED hookJob,
                 hookRun' = [hookRun EXCEPT ![j].pc = "deliver", ![j].todo = order, ![j].listed = ActiveForEvent]
          PROVE  HookInv'
        <3> DEFINE run == [hookRun[j] EXCEPT !.pc = "deliver", !.todo = order, !.listed = ActiveForEvent]
        <3>1. ActiveForEvent \in SUBSET Endpoints
            BY DEF ActiveForEvent
        <3>2. Cardinality(ActiveForEvent) \in Nat
            BY <3>1, WebhookAssumption, FS_Subset, FS_CardinalityType
        <3>3. order \in Seq(Endpoints) /\ order # <<>>
            BY <2>4, <3>1, <3>2
        <3>4. run \in HookRun /\ hookRun' = [hookRun EXCEPT ![j] = run] /\ run.pc = "deliver"
              /\ run.todo = order /\ run.listed = ActiveForEvent
            BY <2>2, <2>4, <3>1, <3>3 DEF HookRun
        <3> HIDE DEF run
        <3>5. hookRun'[j] = run /\ hookAccepted' \in [Callers -> [Endpoints -> Nat]] /\ hookFaults' \in 0..MaxHookFaults
            BY <1>2, <2>1, <2>2, <3>4 DEF WebhookTypeOK
        <3>6. CallerFit(j)'
            BY <3>3, <3>4, <3>5 DEF CallerFit, Delivering
        <3>7. hookJob[j].state = "active" /\ hookJob'[j] = hookJob[j]
            BY <2>1, <2>2, <2>4 DEF JobFit
        <3>8. \A e \in run.listed : \E i \in DOMAIN run.todo : run.todo[i] = e
            BY <2>4, <3>4
        <3>9. JobFit(j)'
            <4>1. hookRun'[j].pc = "deliver" /\ hookJob[j].attempts < JobAttempts
                BY <2>2, <3>4, <3>5, <3>7 DEF JobFit
            <4>2. \A e \in hookRun'[j].listed : \E i \in DOMAIN hookRun'[j].todo : hookRun'[j].todo[i] = e
                BY <3>5, <3>8
            <4>3. QED
                BY <3>7, <4>1, <4>2 DEF JobFit
        <3>10. QED
            BY <1>1, <2>1, <2>2, <2>4, <3>4, <3>5, <3>6, <3>9, RunStep
    <2>5. QED
        BY <1>11, <2>3, <2>4 DEF ListEndpoints
<1>12. ASSUME NEW j \in HookJobs, ReportDispatch(j) PROVE HookInv'
    <2>1. \A e \in hookRun[j].listed : Reached(j, e)
        BY <1>1, <1>12 DEF ReportDispatch, HookInv, JobFit
    <2>2. hookSent' \in [HookJobs -> Nat]
        BY <1>2, <1>12 DEF ReportDispatch, WebhookTypeOK
    <2>3. QED
        BY <1>10, <1>12, <2>1, <2>2 DEF ReportDispatch
<1>13. ASSUME NEW c \in Callers, NEW run \in HookRun, hookRun' = [hookRun EXCEPT ![c] = run],
              UNCHANGED <<hookEndpoint, hookJob, hookRows, hookSent, hookChanges>>,
              hookAccepted' \in [Callers -> [Endpoints -> Nat]], hookFaults' \in 0..MaxHookFaults,
              hookRun[c].pc \in {"post", "record"}, run.pc \in {"record", "catch"},
              run.todo = hookRun[c].todo, run.listed = hookRun[c].listed
       PROVE  HookInv'
    <2>1. hookRun'[c] = run /\ CallerFit(c)
        BY <1>1, <1>2, <1>13 DEF HookInv, WebhookTypeOK
    <2>2. CallerFit(c)'
        BY <1>13, <2>1 DEF CallerFit, Target, Stored, Delivering
    <2>3. ASSUME c \in HookJobs PROVE JobFit(c)'
        <3>1. JobFit(c)
            BY <1>1, <2>3 DEF HookInv
        <3>2. hookJob[c].state = "active" /\ hookJob'[c] = hookJob[c]
            BY <1>13, <3>1 DEF JobFit
        <3>3. \A e : Reached(c, e)' <=> Reached(c, e)
            BY <1>13 DEF Reached
        <3>4. \A e \in hookRun'[c].listed :
                 Reached(c, e)' \/ \E i \in DOMAIN hookRun'[c].todo : hookRun'[c].todo[i] = e
            BY <1>13, <2>1, <3>1, <3>3 DEF JobFit, Delivering
        <3>5. QED
            BY <1>13, <2>1, <3>1, <3>2, <3>4 DEF JobFit
    <2>4. QED
        BY <1>1, <1>13, <2>2, <2>3, RunStep
<1>14. ASSUME NEW c \in Callers, Post(c) PROVE HookInv'
    <2>1. PICK answer \in Answers :
             /\ hookRun' = [hookRun EXCEPT ![c].answer = answer,
                                           ![c].pc = IF answer = "none" THEN "catch" ELSE "record"]
             /\ hookAccepted' = IF answer = "ok"
                                THEN [hookAccepted EXCEPT ![c][Target(c)] = hookAccepted[c][Target(c)] + 1]
                                ELSE hookAccepted
        BY <1>14 DEF Post
    <2>2. hookRun[c].pc = "post" /\ UNCHANGED <<hookEndpoint, hookJob, hookRows, hookSent, hookChanges, hookFaults>>
        BY <1>14 DEF Post
    <2> DEFINE run == [hookRun[c] EXCEPT !.answer = answer, !.pc = IF answer = "none" THEN "catch" ELSE "record"]
    <2>3. hookRun[c] \in HookRun /\ Target(c) \in Endpoints /\ hookFaults' \in 0..MaxHookFaults
        BY <1>1, <1>2, <2>2, TargetType DEF WebhookTypeOK, Delivering
    <2>4. /\ run \in HookRun /\ run.pc \in {"record", "catch"} /\ run.todo = hookRun[c].todo
          /\ run.listed = hookRun[c].listed
        BY <2>3 DEF HookRun
    <2>5. hookRun' = [hookRun EXCEPT ![c] = run]
        BY <1>2, <2>1 DEF WebhookTypeOK
    <2>6. hookAccepted' \in [Callers -> [Endpoints -> Nat]]
        BY <1>2, <2>1, <2>3 DEF WebhookTypeOK
    <2> HIDE DEF run
    <2>7. QED
        BY <1>13, <2>2, <2>3, <2>4, <2>5, <2>6
<1>15. ASSUME NEW c \in Callers, AnswerLost(c) PROVE HookInv'
    <2> DEFINE run == [hookRun[c] EXCEPT !.pc = "catch", !.answer = "none"]
    <2>1. /\ hookRun[c].pc = "post" /\ hookRun' = [hookRun EXCEPT ![c].pc = "catch", ![c].answer = "none"]
          /\ hookAccepted' = [hookAccepted EXCEPT ![c][Target(c)] = hookAccepted[c][Target(c)] + 1]
          /\ hookFaults < MaxHookFaults /\ hookFaults' = hookFaults + 1
          /\ UNCHANGED <<hookEndpoint, hookJob, hookRows, hookSent, hookChanges>>
        BY <1>15 DEF AnswerLost, HookFault
    <2>2. hookRun[c] \in HookRun /\ Target(c) \in Endpoints
        BY <1>1, <1>2, <2>1, TargetType DEF WebhookTypeOK, Delivering
    <2>3. run \in HookRun /\ run.pc = "catch" /\ run.todo = hookRun[c].todo /\ run.listed = hookRun[c].listed
        BY <2>2 DEF HookRun, Answers
    <2>4. /\ hookRun' = [hookRun EXCEPT ![c] = run] /\ hookFaults' \in 0..MaxHookFaults
          /\ hookAccepted' \in [Callers -> [Endpoints -> Nat]]
        <3>1. hookRun' = [hookRun EXCEPT ![c] = run]
            BY <1>2, <2>1 DEF WebhookTypeOK
        <3>2. hookFaults' \in 0..MaxHookFaults
            BY <1>2, <2>1, WebhookAssumption DEF WebhookTypeOK
        <3>3. hookAccepted' \in [Callers -> [Endpoints -> Nat]]
            BY <1>2, <2>1, <2>2 DEF WebhookTypeOK
        <3>4. QED
            BY <3>1, <3>2, <3>3
    <2> HIDE DEF run
    <2>5. QED
        BY <1>13, <2>1, <2>3, <2>4
<1>16. ASSUME NEW c \in Callers, Throw(c), hookRun[c].pc # "idle", hookFaults' \in 0..MaxHookFaults,
              UNCHANGED <<hookEndpoint, hookRows, hookAccepted, hookSent, hookChanges>>
       PROVE  HookInv'
    <2>1. hookRows[c] \in [Endpoints -> [DeliveryStatus -> Nat]] /\ hookRows' = [hookRows EXCEPT ![c] = hookRows[c]]
        BY <1>1, <1>16, SameRows
    <2>2. QED
        BY <1>1, <1>16, <2>1, ThrowStep
<1>17. ASSUME NEW c \in Callers, HookStatementFails(c) PROVE HookInv'
    <2>1. /\ hookRun[c].pc \in {"list", "deliver", "record", "catch", "report"}
          /\ hookFaults < MaxHookFaults /\ hookFaults' = hookFaults + 1
          /\ UNCHANGED <<hookEndpoint, hookRows, hookAccepted, hookSent, hookChanges>>
        BY <1>17 DEF HookStatementFails, HookFault
    <2>2. hookFaults' \in 0..MaxHookFaults /\ hookAccepted' \in [Callers -> [Endpoints -> Nat]] /\ hookRun[c] \in HookRun
        BY <1>2, <2>1, WebhookAssumption DEF WebhookTypeOK
    <2>3. CASE hookRun[c].pc = "record"
        <3> DEFINE run == [hookRun[c] EXCEPT !.pc = "catch", !.answer = "none"]
        <3>1. hookRun' = [hookRun EXCEPT ![c].pc = "catch", ![c].answer = "none"] /\ UNCHANGED hookJob
            BY <1>17, <2>3 DEF HookStatementFails
        <3>2. run \in HookRun /\ run.pc = "catch" /\ run.todo = hookRun[c].todo /\ run.listed = hookRun[c].listed
            BY <2>2 DEF HookRun, Answers
        <3>3. hookRun' = [hookRun EXCEPT ![c] = run]
            BY <1>2, <3>1 DEF WebhookTypeOK
        <3> HIDE DEF run
        <3>4. QED
            BY <1>13, <2>1, <2>2, <2>3, <3>1, <3>2, <3>3
    <2>4. CASE hookRun[c].pc # "record"
        BY <1>16, <1>17, <2>1, <2>2, <2>4 DEF HookStatementFails
    <2>5. QED
        BY <2>3, <2>4
<1>18. ASSUME NEW c \in Callers, HookCrash(c) PROVE HookInv'
    <2>1. /\ hookRun[c].pc # "idle" /\ hookRun' = [hookRun EXCEPT ![c] = Rests(c)]
          /\ hookFaults < MaxHookFaults /\ hookFaults' = hookFaults + 1
          /\ UNCHANGED <<hookEndpoint, hookRows, hookAccepted, hookSent, hookChanges>>
        BY <1>18 DEF HookCrash, HookFault
    <2>2. /\ hookFaults' \in 0..MaxHookFaults /\ hookSent' \in [HookJobs -> Nat] /\ hookRun'[c] = Rests(c)
          /\ hookRows[c] \in [Endpoints -> [DeliveryStatus -> Nat]] /\ hookRows' = [hookRows EXCEPT ![c] = hookRows[c]]
        BY <1>1, <1>2, <2>1, WebhookAssumption, SameRows DEF WebhookTypeOK
    <2>3. CallerFit(c)'
        BY <1>2, <2>2, RestsType DEF CallerFit, Delivering
    <2>4. /\ hookJob' \in [HookJobs -> JobRecord] /\ \A j \in HookJobs \ {c} : hookJob'[j] = hookJob[j]
          /\ c \in HookJobs => JobFit(c)'
        <3>1. CASE c \notin HookJobs
            BY <1>2, <1>18, <3>1 DEF HookCrash, WebhookTypeOK
        <3>2. CASE c \in HookJobs
            <4>1. PICK job \in Stalled(hookJob[c]) : hookJob' = [hookJob EXCEPT ![c] = job]
                BY <1>18, <3>2 DEF HookCrash
            <4>2. JobFit(c) /\ hookJob[c] \in JobRecord /\ hookJob[c].attempts < JobAttempts
                BY <1>1, <1>2, <2>1, <3>2 DEF HookInv, WebhookTypeOK, JobFit
            <4>3. /\ job \in JobRecord /\ job.state \in {"waiting", "dropped", "failed"}
                  /\ job.state = "waiting" => job.attempts < JobAttempts
                BY <4>2, StalledJob
            <4>4. hookJob'[c] = job
                BY <1>2, <3>2, <4>1 DEF WebhookTypeOK
            <4>5. JobFit(c)'
                BY <1>2, <2>1, <2>2, <4>2, <4>3, <4>4, RestsType DEF JobFit, Delivering
            <4>6. QED
                BY <1>2, <4>1, <4>3, <4>5 DEF WebhookTypeOK
        <3>3. QED
            BY <3>1, <3>2
    <2>5. QED
        BY <1>1, <2>1, <2>2, <2>3, <2>4, HookEndStep
<1>19. ASSUME NEW c \in Callers, CreateDelivery(c) PROVE HookInv'
    <2>1. /\ hookRun[c].pc = "deliver"
          /\ UNCHANGED <<hookEndpoint, hookAccepted, hookSent, hookChanges, hookFaults>>
        BY <1>19 DEF CreateDelivery
    <2>2. /\ hookRun[c] \in HookRun /\ Target(c) \in Endpoints /\ hookFaults' \in 0..MaxHookFaults
          /\ hookAccepted' \in [Callers -> [Endpoints -> Nat]] /\ hookSent' \in [HookJobs -> Nat]
        BY <1>1, <1>2, <2>1, TargetType DEF WebhookTypeOK, Delivering
    <2>3. CASE ~Stored(Target(c))
        BY <1>16, <1>19, <2>1, <2>2, <2>3 DEF CreateDelivery
    <2>4. CASE Stored(Target(c))
        <3> DEFINE t == Target(c)
                   old == hookRows[c]
                   stored == [old EXCEPT ![t] = [old[t] EXCEPT !["PENDING"] = old[t]["PENDING"] + 1]]
                   run == [hookRun[c] EXCEPT !.pc = "post"]
        <3>1. /\ hookRun' = [hookRun EXCEPT ![c].pc = "post"] /\ UNCHANGED hookJob
              /\ hookRows' = [hookRows EXCEPT ![c][t]["PENDING"] = hookRows[c][t]["PENDING"] + 1]
            BY <1>19, <2>4 DEF CreateDelivery
        <3>2. run \in HookRun /\ run.pc = "post" /\ run.todo = hookRun[c].todo /\ run.listed = hookRun[c].listed
            BY <2>2 DEF HookRun
        <3>3. old \in [Endpoints -> [DeliveryStatus -> Nat]]
            BY <1>2 DEF WebhookTypeOK
        <3>4. /\ stored \in [Endpoints -> [DeliveryStatus -> Nat]] /\ stored[t]["PENDING"] > 0
              /\ \A e \in Endpoints : stored[e]["DELIVERED"] = old[e]["DELIVERED"]
            BY <2>2, <3>3 DEF DeliveryStatus
        <3>5. hookRun' = [hookRun EXCEPT ![c] = run] /\ hookRows' = [hookRows EXCEPT ![c] = stored]
            BY <1>2, <2>2, <3>1 DEF WebhookTypeOK
        <3>6. hookJob' \in [HookJobs -> JobRecord]
            BY <1>2, <3>1 DEF WebhookTypeOK
        <3> HIDE DEF run, stored
        <3>7. /\ WebhookTypeOK' /\ hookRun'[c] = run /\ hookRows'[c] = stored
              /\ \A d \in Callers \ {c} : hookRun'[d] = hookRun[d] /\ hookRows'[d] = hookRows[d]
            <4>1. UNCHANGED <<hookEndpoint, hookChanges>>
                BY <2>1
            <4>2. QED
                BY <1>2, <2>2, <3>2, <3>4, <3>5, <3>6, <4>1, TypesStep
        <3>8. CallerFit(c)'
            <4>1. Target(c)' = t /\ hookRun'[c].todo # <<>> /\ Stored(t)' /\ hookEndpoint' = hookEndpoint
                BY <1>1, <2>1, <2>4, <3>2, <3>7, TargetType DEF Target, Stored, Delivering
            <4>2. hookEndpoint'[t].state # "absent"
                BY <4>1 DEF Stored
            <4>3. QED
                BY <3>4, <3>7, <4>1, <4>2 DEF CallerFit
        <3>9. ASSUME c \in HookJobs PROVE JobFit(c)'
            <4>1. JobFit(c) /\ hookJob'[c] = hookJob[c] /\ hookJob[c].state = "active"
                BY <1>1, <2>1, <3>1, <3>9 DEF HookInv, JobFit
            <4>2. \A e \in Endpoints : Reached(c, e)' <=> Reached(c, e)
                BY <2>1, <3>4, <3>7 DEF Reached
            <4>3. run.listed \subseteq Endpoints
                BY <3>2 DEF HookRun
            <4>4. \A e \in hookRun'[c].listed :
                     Reached(c, e)' \/ \E i \in DOMAIN hookRun'[c].todo : hookRun'[c].todo[i] = e
                BY <2>1, <3>2, <3>7, <4>1, <4>2, <4>3 DEF JobFit, Delivering
            <4>5. QED
                BY <3>2, <3>7, <4>1, <4>4 DEF JobFit
        <3>10. QED
            BY <1>1, <2>1, <3>1, <3>7, <3>8, <3>9, OneCaller
    <2>5. QED
        BY <2>3, <2>4
<1>20. ASSUME NEW t \in HookTests, NEW e \in Endpoints, StartTest(t, e) PROVE HookInv'
    <2> DEFINE run == [NotRunning EXCEPT !.pc = "deliver", !.todo = <<e>>, !.listed = {e}, !.tries = 1]
    <2>1. /\ hookRun' = [hookRun EXCEPT ![t] = run]
          /\ UNCHANGED <<hookEndpoint, hookJob, hookRows, hookAccepted, hookSent, hookChanges, hookFaults>>
        BY <1>20 DEF StartTest
    <2>2. <<e>> \in Seq(Endpoints) /\ <<e>> # <<>>
        OBVIOUS
    <2>3. run \in HookRun /\ run.pc = "deliver" /\ run.todo = <<e>>
        <3>1. NotRunning \in HookRun
            BY DEF NotRunning, HookRun, Answers, MaxTestAttempts
        <3>2. 1 \in 0..MaxTestAttempts /\ {e} \in SUBSET Endpoints
            BY DEF MaxTestAttempts
        <3>3. QED
            BY <2>2, <3>1, <3>2 DEF HookRun
    <2>4. t \in Callers /\ t \notin HookJobs
        BY WebhookAssumption DEF Callers
    <2> HIDE DEF run
    <2>5. /\ hookRun'[t] = run /\ hookAccepted' \in [Callers -> [Endpoints -> Nat]]
          /\ hookFaults' \in 0..MaxHookFaults
        BY <1>2, <2>1, <2>4 DEF WebhookTypeOK
    <2>6. CallerFit(t)'
        BY <2>2, <2>3, <2>5 DEF CallerFit, Delivering
    <2>7. QED
        BY <1>1, <2>1, <2>3, <2>4, <2>5, <2>6, RunStep
<1>21. ASSUME NEW c \in Callers, hookRun[c].pc \in {"record", "catch"}, Stored(Target(c)),
              Settled(c, "FAILED"), NotDelivered(c),
              UNCHANGED <<hookEndpoint, hookAccepted, hookSent, hookChanges, hookFaults>>
       PROVE  HookInv'
    <2> DEFINE stored == hookRows'[c]
    <2>1. stored \in [Endpoints -> [DeliveryStatus -> Nat]] /\ hookRows' = [hookRows EXCEPT ![c] = stored]
        BY <1>1, <1>21, SettledRows
    <2>2. /\ hookFaults' \in 0..MaxHookFaults /\ hookAccepted' \in [Callers -> [Endpoints -> Nat]]
          /\ hookSent' \in [HookJobs -> Nat]
        BY <1>2, <1>21 DEF WebhookTypeOK
    <2> HIDE DEF stored
    <2>3. CASE Throw(c)
        BY <1>1, <1>21, <2>1, <2>2, <2>3, ThrowStep
    <2>4. CASE ~Throw(c)
        <3> DEFINE run == [hookRun[c] EXCEPT !.pc = "deliver", !.answer = "none", !.tries = hookRun[c].tries + 1]
        <3>1. /\ c \in HookTests /\ hookRun[c].tries < MaxTestAttempts /\ UNCHANGED hookJob
              /\ hookRun' = [hookRun EXCEPT ![c].pc = "deliver", ![c].answer = "none",
                                            ![c].tries = hookRun[c].tries + 1]
            BY <1>21, <2>4 DEF NotDelivered
        <3>2. hookRun[c] \in HookRun /\ c \notin HookJobs
            BY <1>2, <3>1, WebhookAssumption DEF WebhookTypeOK
        <3>3. hookRun[c].tries + 1 \in 0..MaxTestAttempts
            BY <3>1, <3>2 DEF HookRun, MaxTestAttempts
        <3>4. run \in HookRun /\ run.pc = "deliver" /\ run.todo = hookRun[c].todo
            BY <3>2, <3>3 DEF HookRun, Answers
        <3>5. hookRun' = [hookRun EXCEPT ![c] = run]
            BY <1>2, <3>1 DEF WebhookTypeOK
        <3> HIDE DEF run
        <3>6. hookJob' \in [HookJobs -> JobRecord] /\ UNCHANGED <<hookEndpoint, hookChanges>>
            BY <1>2, <1>21, <3>1 DEF WebhookTypeOK
        <3>7. /\ WebhookTypeOK' /\ hookRun'[c] = run
              /\ \A d \in Callers \ {c} : hookRun'[d] = hookRun[d] /\ hookRows'[d] = hookRows[d]
            BY <1>2, <2>1, <2>2, <3>4, <3>5, <3>6, TypesStep
        <3>8. hookRun[c].todo # <<>>
            BY <1>1, <1>21, TargetType DEF Delivering
        <3>9. CallerFit(c)'
            BY <3>4, <3>7, <3>8 DEF CallerFit, Delivering
        <3>10. QED
            BY <1>1, <1>21, <3>1, <3>2, <3>7, <3>9, OneCaller
    <2>5. QED
        BY <2>3, <2>4
<1>22. ASSUME NEW c \in Callers, RecordAnswer(c) PROVE HookInv'
    <2>1. hookRun[c].pc = "record" /\ UNCHANGED <<hookEndpoint, hookAccepted, hookSent, hookChanges, hookFaults>>
        BY <1>22 DEF RecordAnswer
    <2>2. CASE ~Stored(Target(c))
        <3> DEFINE run == [hookRun[c] EXCEPT !.pc = "catch"]
        <3>1. hookRun' = [hookRun EXCEPT ![c].pc = "catch"] /\ UNCHANGED <<hookJob, hookRows>>
            BY <1>22, <2>2 DEF RecordAnswer
        <3>2. /\ hookRun[c] \in HookRun /\ hookFaults' \in 0..MaxHookFaults
              /\ hookAccepted' \in [Callers -> [Endpoints -> Nat]]
            BY <1>2, <2>1 DEF WebhookTypeOK
        <3>3. run \in HookRun /\ run.pc = "catch" /\ run.todo = hookRun[c].todo /\ run.listed = hookRun[c].listed
            BY <3>2 DEF HookRun
        <3>4. hookRun' = [hookRun EXCEPT ![c] = run]
            BY <1>2, <3>1 DEF WebhookTypeOK
        <3> HIDE DEF run
        <3>5. QED
            BY <1>13, <2>1, <3>1, <3>2, <3>3, <3>4
    <2>3. CASE Stored(Target(c)) /\ hookRun[c].answer = "ok"
        BY <1>1, <1>22, <2>1, <2>3, NextFits DEF RecordAnswer
    <2>4. CASE Stored(Target(c)) /\ hookRun[c].answer # "ok"
        BY <1>21, <1>22, <2>1, <2>4 DEF RecordAnswer
    <2>5. QED
        BY <2>2, <2>3, <2>4
<1>23. ASSUME NEW c \in Callers, CatchAnswer(c) PROVE HookInv'
    <2>1. hookRun[c].pc = "catch" /\ UNCHANGED <<hookEndpoint, hookAccepted, hookSent, hookChanges, hookFaults>>
        BY <1>23 DEF CatchAnswer
    <2>2. CASE Stored(Target(c))
        BY <1>21, <1>23, <2>1, <2>2 DEF CatchAnswer
    <2>3. CASE ~Stored(Target(c))
        <3>1. hookFaults' \in 0..MaxHookFaults
            BY <1>2, <2>1 DEF WebhookTypeOK
        <3>2. QED
            BY <1>16, <1>23, <2>1, <2>3, <3>1 DEF CatchAnswer
    <2>4. QED
        BY <2>2, <2>3
<1>24. ASSUME UNCHANGED hookVars PROVE HookInv'
    BY <1>1, <1>24 DEF hookVars, HookInv, WebhookTypeOK, CallerFit, JobFit, Target, Stored, Reached
<1>25. QED
    BY <1>1, <1>3, <1>4, <1>5, <1>7, <1>8, <1>9, <1>11, <1>12, <1>14, <1>15, <1>17, <1>18, <1>19,
       <1>20, <1>22, <1>23, <1>24 DEF WebhookNext, HookJobStep, DeliveryStep

LEMMA HooksTell == HookInv => WebhookTypeOK /\ CompletedReachedAll
BY DEF HookInv, JobFit, Reached, CompletedReachedAll

\* Every variable of the webhooks stays within its type.
THEOREM WebhookTypeCorrect == WebhookSpec => []WebhookTypeOK
BY HooksTell, HookStarts, HookSteps, PTL DEF WebhookSpec

\* A job that webhookDispatcher completes has delivered its event to every
\* endpoint that its last run listed and that still exists.
THEOREM CompletedReachedAllCorrect == WebhookSpec => []CompletedReachedAll
BY HooksTell, HookStarts, HookSteps, PTL DEF WebhookSpec


-----------------------------------------------------------------------------
(* What was accepted is told *)

Tells(c) == hookRun[c].pc \in {"record", "catch"} /\ hookRun[c].answer = "ok"

UntoldExplained ==
    IsFiniteSet(UntoldAcceptances) /\ Cardinality(UntoldAcceptances) <= hookFaults

\* No row tells of more than was accepted; an answer that reaches the catch block
\* came from an endpoint that has been deleted; faults explain what is not told.
ToldInv ==
    /\ \A c \in Callers, e \in Endpoints : Untold(c, e) >= 0
    /\ \A c \in Callers : hookRun[c].pc = "catch" /\ hookRun[c].answer = "ok" => ~Stored(Target(c))
    /\ UntoldExplained

LEMMA UntoldIs ==
    ASSUME WebhookTypeOK, NEW c \in Callers, NEW e \in Endpoints
    PROVE  /\ hookAccepted[c][e] \in Nat /\ hookRows[c][e]["DELIVERED"] \in Nat
           /\ Untold(c, e) = hookAccepted[c][e] - hookRows[c][e]["DELIVERED"]
                                 - (IF Tells(c) /\ Target(c) = e THEN 1 ELSE 0)
           /\ Untold(c, e) \in Int
<1>1. hookAccepted[c][e] \in Nat /\ hookRows[c][e]["DELIVERED"] \in Nat
    BY DEF WebhookTypeOK, DeliveryStatus
<1>2. Recording(c, e) /\ hookRun[c].answer = "ok" <=> Tells(c) /\ Target(c) = e
    BY DEF Recording, Tells
<1>3. QED
    BY <1>1, <1>2 DEF Untold

LEMMA UntoldMembers ==
    \A a : a \in UntoldAcceptances <=>
              \E c \in Callers, e \in Kept : \E i \in 1..Untold(c, e) : a = <<<<c, e>>, i>>
BY DEF UntoldAcceptances

LEMMA UntoldMembersNext ==
    \A a : a \in UntoldAcceptances' <=>
              \E c \in Callers, e \in Kept' : \E i \in 1..Untold(c, e)' : a = <<<<c, e>>, i>>
BY DEF UntoldAcceptances

\* A step that no fault explains adds nothing, and a fault adds one.
LEMMA UntoldStep ==
    ASSUME WebhookTypeOK, WebhookTypeOK', UntoldExplained, NEW a \in Callers, NEW t,
           hookFaults' \in {hookFaults, hookFaults + 1},
           \A c \in Callers : \A e \in Kept' :
               /\ e \in Kept
               /\ \/ Untold(c, e)' <= Untold(c, e)
                  \/ c = a /\ e = t /\ hookFaults' = hookFaults + 1 /\ Untold(c, e)' <= Untold(c, e) + 1
    PROVE  UntoldExplained'
<1> DEFINE new == <<<<a, t>>, Untold(a, t) + 1>>
<1>1. Kept \subseteq Endpoints /\ Kept' \subseteq Endpoints
    BY DEF Kept
<1>2. \A c \in Callers : \A e \in Kept' : Untold(c, e) \in Int /\ Untold(c, e)' \in Int
    <2> SUFFICES ASSUME NEW c \in Callers, NEW e \in Kept' PROVE Untold(c, e) \in Int /\ Untold(c, e)' \in Int
        OBVIOUS
    <2>1. e \in Endpoints
        BY <1>1
    <2>2. Untold(c, e) \in Int
        BY <2>1, UntoldIs
    <2>3. Untold(c, e)' \in Int
        <3>1. hookAccepted'[c][e] \in Nat /\ hookRows'[c][e]["DELIVERED"] \in Nat
            BY <2>1 DEF WebhookTypeOK, DeliveryStatus
        <3>2. QED
            BY <3>1 DEF Untold
    <2>4. QED
        BY <2>2, <2>3
<1>3. /\ Cardinality(UntoldAcceptances) \in Nat /\ hookFaults \in Nat
      /\ IsFiniteSet(UntoldAcceptances) /\ Cardinality(UntoldAcceptances) <= hookFaults
    BY WebhookAssumption, FS_CardinalityType DEF UntoldExplained, WebhookTypeOK
<1>4. CASE hookFaults' = hookFaults
    <2>1. UntoldAcceptances' \subseteq UntoldAcceptances
        <3> SUFFICES ASSUME NEW x \in UntoldAcceptances' PROVE x \in UntoldAcceptances
            OBVIOUS
        <3>1. PICK c \in Callers, e \in Kept' : \E i \in 1..Untold(c, e)' : x = <<<<c, e>>, i>>
            BY UntoldMembersNext
        <3>2. e \in Kept /\ Untold(c, e)' <= Untold(c, e) /\ Untold(c, e) \in Int /\ Untold(c, e)' \in Int
            BY <1>2, <1>3, <1>4
        <3>3. \E i \in 1..Untold(c, e) : x = <<<<c, e>>, i>>
            BY <3>1, <3>2
        <3>4. QED
            BY <3>2, <3>3, UntoldMembers
    <2>2. IsFiniteSet(UntoldAcceptances') /\ Cardinality(UntoldAcceptances') <= Cardinality(UntoldAcceptances)
        BY <1>3, <2>1, FS_Subset
    <2>3. Cardinality(UntoldAcceptances') \in Nat
        BY <2>2, FS_CardinalityType
    <2>4. QED
        BY <1>3, <1>4, <2>2, <2>3 DEF UntoldExplained
<1>5. CASE hookFaults' = hookFaults + 1
    <2>1. UntoldAcceptances' \subseteq UntoldAcceptances \cup {new}
        <3> SUFFICES ASSUME NEW x \in UntoldAcceptances', x # new PROVE x \in UntoldAcceptances
            OBVIOUS
        <3>1. PICK c \in Callers, e \in Kept' : \E i \in 1..Untold(c, e)' : x = <<<<c, e>>, i>>
            BY UntoldMembersNext
        <3>2. PICK i \in 1..Untold(c, e)' : x = <<<<c, e>>, i>>
            BY <3>1
        <3>3. /\ e \in Kept /\ Untold(c, e) \in Int /\ Untold(c, e)' \in Int /\ i \in Int
              /\ Untold(c, e)' <= Untold(c, e) \/ (c = a /\ e = t /\ Untold(c, e)' <= Untold(c, e) + 1)
            BY <1>2, <3>2
        <3>4. i <= Untold(c, e)
            <4>1. CASE c = a /\ e = t
                BY <3>2, <3>3, <4>1
            <4>2. CASE ~(c = a /\ e = t)
                BY <3>2, <3>3, <4>2
            <4>3. QED
                BY <4>1, <4>2
        <3>5. i \in 1..Untold(c, e)
            BY <3>2, <3>3, <3>4
        <3>6. QED
            BY <3>2, <3>3, <3>5, UntoldMembers
    <2>2. /\ IsFiniteSet(UntoldAcceptances \cup {new})
          /\ Cardinality(UntoldAcceptances \cup {new}) <= Cardinality(UntoldAcceptances) + 1
          /\ Cardinality(UntoldAcceptances \cup {new}) \in Nat
        <3>1. /\ IsFiniteSet(UntoldAcceptances \cup {new})
              /\ Cardinality(UntoldAcceptances \cup {new}) =
                    IF new \in UntoldAcceptances THEN Cardinality(UntoldAcceptances)
                    ELSE Cardinality(UntoldAcceptances) + 1
            BY <1>3, FS_AddElement
        <3>2. QED
            BY <1>3, <3>1
    <2>3. /\ IsFiniteSet(UntoldAcceptances')
          /\ Cardinality(UntoldAcceptances') <= Cardinality(UntoldAcceptances \cup {new})
        BY <2>1, <2>2, FS_Subset
    <2>4. Cardinality(UntoldAcceptances') \in Nat
        BY <2>3, FS_CardinalityType
    <2>5. QED
        BY <1>3, <1>5, <2>2, <2>3, <2>4 DEF UntoldExplained
<1>6. QED
    BY <1>4, <1>5


\* What a step of one caller has to show: what it knows, and one of its endpoints.
LEMMA CallerTold ==
    ASSUME WebhookTypeOK, WebhookTypeOK', ToldInv, NEW c \in Callers, UNCHANGED hookEndpoint,
           \A d \in Callers \ {c} : /\ hookRun'[d] = hookRun[d] /\ hookAccepted'[d] = hookAccepted[d]
                                    /\ \A e \in Endpoints : hookRows'[d][e]["DELIVERED"] = hookRows[d][e]["DELIVERED"],
           hookFaults' \in {hookFaults, hookFaults + 1}, NEW t,
           \A e \in Endpoints :
               /\ Untold(c, e)' >= 0
               /\ e \in Kept => \/ Untold(c, e)' <= Untold(c, e)
                                \/ e = t /\ hookFaults' = hookFaults + 1 /\ Untold(c, e)' <= Untold(c, e) + 1,
           hookRun'[c].pc = "catch" /\ hookRun'[c].answer = "ok" => ~Stored(Target(c))'
    PROVE  ToldInv'
<1>1. ASSUME NEW d \in Callers, d # c, NEW e \in Endpoints PROVE Untold(d, e)' = Untold(d, e)
    BY <1>1 DEF Untold, Recording, Target
<1>2. \A d \in Callers, e \in Endpoints : Untold(d, e)' >= 0
    BY <1>1 DEF ToldInv
<1>3. \A d \in Callers : hookRun'[d].pc = "catch" /\ hookRun'[d].answer = "ok" => ~Stored(Target(d))'
    <2> SUFFICES ASSUME NEW d \in Callers, hookRun'[d].pc = "catch", hookRun'[d].answer = "ok"
                 PROVE  ~Stored(Target(d))'
        OBVIOUS
    <2>1. CASE d = c
        BY <2>1
    <2>2. CASE d # c
        BY <2>2 DEF ToldInv, Stored, Target
    <2>3. QED
        BY <2>1, <2>2
<1>4. Kept' = Kept /\ Kept \subseteq Endpoints
    BY DEF Kept
<1>5. \A d \in Callers, e \in Endpoints : Untold(d, e) \in Int
    BY UntoldIs
<1>6. \A d \in Callers : \A e \in Kept' :
         /\ e \in Kept
         /\ \/ Untold(d, e)' <= Untold(d, e)
            \/ d = c /\ e = t /\ hookFaults' = hookFaults + 1 /\ Untold(d, e)' <= Untold(d, e) + 1
    <2> SUFFICES ASSUME NEW d \in Callers, NEW e \in Kept
                 PROVE  \/ Untold(d, e)' <= Untold(d, e)
                        \/ d = c /\ e = t /\ hookFaults' = hookFaults + 1 /\ Untold(d, e)' <= Untold(d, e) + 1
        BY <1>4
    <2>1. CASE d = c
        BY <1>4, <2>1
    <2>2. CASE d # c
        BY <1>1, <1>4, <1>5, <2>2
    <2>3. QED
        BY <2>1, <2>2
<1>7. UntoldExplained'
    BY <1>6, UntoldStep DEF ToldInv
<1>8. QED
    BY <1>2, <1>3, <1>7 DEF ToldInv

\* A step that accepts and delivers nothing, and learns nothing: what the caller knew
\* it still knows, or its endpoint is gone, or a fault has cost it.
LEMMA SilentTold ==
    ASSUME WebhookTypeOK, WebhookTypeOK', HookInv, ToldInv, NEW c \in Callers, UNCHANGED <<hookEndpoint, hookAccepted>>,
           \A d \in Callers \ {c} : hookRun'[d] = hookRun[d],
           \A d \in Callers, e \in Endpoints : hookRows'[d][e]["DELIVERED"] = hookRows[d][e]["DELIVERED"],
           hookFaults' \in {hookFaults, hookFaults + 1},
           Tells(c)' => Tells(c) /\ Target(c)' = Target(c),
           Tells(c) => Tells(c)' \/ ~Stored(Target(c)) \/ hookFaults' = hookFaults + 1,
           hookRun'[c].pc = "catch" /\ hookRun'[c].answer = "ok" => ~Stored(Target(c))'
    PROVE  ToldInv'
<1>1. ASSUME NEW e \in Endpoints
      PROVE  /\ Untold(c, e)' >= 0
             /\ e \in Kept => \/ Untold(c, e)' <= Untold(c, e)
                              \/ /\ e = Target(c) /\ hookFaults' = hookFaults + 1
                                 /\ Untold(c, e)' <= Untold(c, e) + 1
    <2>1. /\ hookAccepted[c][e] \in Nat /\ hookRows[c][e]["DELIVERED"] \in Nat
          /\ Untold(c, e) = hookAccepted[c][e] - hookRows[c][e]["DELIVERED"]
                                - (IF Tells(c) /\ Target(c) = e THEN 1 ELSE 0)
        BY UntoldIs
    <2>2. Untold(c, e)' = hookAccepted[c][e] - hookRows[c][e]["DELIVERED"]
                              - (IF Tells(c)' /\ Target(c)' = e THEN 1 ELSE 0)
        BY DEF Untold, Recording, Tells
    <2>3. Untold(c, e) >= 0
        BY DEF ToldInv
    <2>4. Untold(c, e)' >= 0 /\ Untold(c, e)' <= Untold(c, e) + 1
        BY <2>1, <2>2, <2>3
    <2>5. CASE ~Tells(c) \/ Target(c) # e \/ Tells(c)'
        BY <2>1, <2>2, <2>4, <2>5
    <2>6. CASE Tells(c) /\ Target(c) = e /\ ~Tells(c)'
        <3>1. CASE hookFaults' = hookFaults + 1
            BY <2>4, <2>6, <3>1
        <3>2. CASE hookFaults' # hookFaults + 1
            <4>1. ~Stored(e) /\ CallerFit(c)
                BY <2>6, <3>2 DEF HookInv
            <4>2. hookEndpoint[e].state = "deleted"
                <5>1. hookEndpoint[e].state # "absent"
                    BY <2>6, <4>1 DEF CallerFit, Tells
                <5>2. hookEndpoint[e].state \in {"absent", "active", "inactive", "deleted"}
                    BY DEF WebhookTypeOK, Endpoint
                <5>3. QED
                    BY <4>1, <5>1, <5>2 DEF Stored
            <4>3. e \notin Kept
                BY <4>2 DEF Kept
            <4>4. QED
                BY <2>4, <4>3
        <3>3. QED
            BY <3>1, <3>2
    <2>7. QED
        BY <2>5, <2>6
<1>2. QED
    BY <1>1, CallerTold

\* A step of the endpoints or of a job's record that leaves the callers alone.
LEMMA QuietTold ==
    ASSUME WebhookTypeOK, WebhookTypeOK', HookInv, ToldInv, UNCHANGED <<hookRun, hookRows, hookAccepted>>,
           hookFaults' \in {hookFaults, hookFaults + 1},
           \A e \in Endpoints : /\ hookEndpoint[e].state = "deleted" => hookEndpoint'[e].state = "deleted"
                                /\ hookEndpoint[e].state # "absent" /\ Stored(e)' => Stored(e)
    PROVE  ToldInv'
<1>1. \A c \in Callers, e \in Endpoints : Untold(c, e)' = Untold(c, e) /\ Untold(c, e) \in Int
    BY UntoldIs DEF Untold, Recording, Target
<1>2. \A e \in Kept' : e \in Kept /\ e \in Endpoints
    BY DEF Kept
<1>3. \A c \in Callers : \A e \in Kept' : e \in Kept /\ Untold(c, e)' <= Untold(c, e)
    BY <1>1, <1>2
<1>4. CASE Callers = {}
    <2>1. UntoldAcceptances' = {}
        BY <1>4, UntoldMembersNext
    <2>2. hookFaults' \in Nat
        BY DEF WebhookTypeOK
    <2>3. QED
        BY <1>4, <2>1, <2>2, FS_EmptySet DEF ToldInv, UntoldExplained
<1>5. CASE Callers # {}
    <2>1. PICK c \in Callers : TRUE
        BY <1>5
    <2>2. UntoldExplained'
        <3>1. \A d \in Callers : \A e \in Kept' :
                /\ e \in Kept
                /\ \/ Untold(d, e)' <= Untold(d, e)
                   \/ d = c /\ e = c /\ hookFaults' = hookFaults + 1 /\ Untold(d, e)' <= Untold(d, e) + 1
            BY <1>3
        <3>2. QED
            BY <3>1, UntoldStep DEF ToldInv
    <2>3. \A d \in Callers : hookRun'[d].pc = "catch" /\ hookRun'[d].answer = "ok" => ~Stored(Target(d))'
        <3> SUFFICES ASSUME NEW d \in Callers, hookRun[d].pc = "catch", hookRun[d].answer = "ok"
                     PROVE  ~Stored(Target(d))'
            OBVIOUS
        <3>1. Target(d) \in Endpoints /\ Target(d)' = Target(d)
            BY TargetType DEF Delivering, Target
        <3>2. hookEndpoint[Target(d)].state # "absent" /\ ~Stored(Target(d))
            BY DEF HookInv, CallerFit, ToldInv
        <3>3. QED
            BY <3>1, <3>2 DEF Stored
    <2>4. QED
        BY <1>1, <2>2, <2>3 DEF ToldInv
<1>6. QED
    BY <1>4, <1>5


LEMMA DeleteTold ==
    ASSUME WebhookTypeOK, WebhookTypeOK', HookInv, ToldInv, NEW e \in Endpoints, DeleteEndpoint(e)
    PROVE  ToldInv'
<1>1. /\ hookEndpoint' = [hookEndpoint EXCEPT ![e].state = "deleted"]
      /\ hookRows' = [c \in Callers |-> [hookRows[c] EXCEPT ![e] = [s \in DeliveryStatus |-> 0]]]
      /\ UNCHANGED <<hookRun, hookAccepted, hookFaults>>
    BY DEF DeleteEndpoint
<1>2. \A d \in Endpoints : hookEndpoint'[d].state = IF d = e THEN "deleted" ELSE hookEndpoint[d].state
    BY <1>1 DEF WebhookTypeOK, Endpoint
<1>3. \A c \in Callers, d \in Endpoints :
          hookRows'[c][d]["DELIVERED"] = IF d = e THEN 0 ELSE hookRows[c][d]["DELIVERED"]
    BY <1>1 DEF WebhookTypeOK, DeliveryStatus
<1>4. ASSUME NEW c \in Callers, NEW d \in Endpoints
      PROVE  /\ Untold(c, d)' >= 0 /\ Untold(c, d) \in Int
             /\ d # e => Untold(c, d)' = Untold(c, d)
    <2>1. /\ hookAccepted[c][d] \in Nat /\ hookRows[c][d]["DELIVERED"] \in Nat
          /\ Untold(c, d) = hookAccepted[c][d] - hookRows[c][d]["DELIVERED"]
                                - (IF Tells(c) /\ Target(c) = d THEN 1 ELSE 0)
        BY UntoldIs
    <2>2. Untold(c, d)' = hookAccepted[c][d] - hookRows'[c][d]["DELIVERED"]
                              - (IF Tells(c) /\ Target(c) = d THEN 1 ELSE 0)
        BY <1>1 DEF Untold, Recording, Tells, Target
    <2>3. Untold(c, d) >= 0
        BY DEF ToldInv
    <2>4. QED
        BY <1>3, <2>1, <2>2, <2>3
<1>5. \A c \in Callers : \A d \in Kept' : d \in Kept /\ Untold(c, d)' <= Untold(c, d)
    <2> SUFFICES ASSUME NEW c \in Callers, NEW d \in Kept' PROVE d \in Kept /\ Untold(c, d)' <= Untold(c, d)
        OBVIOUS
    <2>1. d \in Endpoints /\ d # e /\ d \in Kept
        BY <1>2 DEF Kept
    <2>2. QED
        BY <1>4, <2>1
<1>6. \A c \in Callers : hookRun'[c].pc = "catch" /\ hookRun'[c].answer = "ok" => ~Stored(Target(c))'
    <2> SUFFICES ASSUME NEW c \in Callers, hookRun[c].pc = "catch", hookRun[c].answer = "ok"
                 PROVE  ~Stored(Target(c))'
        BY <1>1
    <2>1. Target(c) \in Endpoints /\ Target(c)' = Target(c) /\ ~Stored(Target(c))
        BY <1>1, TargetType DEF Delivering, Target, ToldInv
    <2>2. QED
        BY <1>2, <2>1 DEF Stored
<1>7. UntoldExplained'
    <2>1. CASE Callers = {}
        <3>1. UntoldAcceptances' = {}
            BY <2>1, UntoldMembersNext
        <3>2. hookFaults' \in Nat
            BY DEF WebhookTypeOK
        <3>3. QED
            BY <3>1, <3>2, FS_EmptySet DEF UntoldExplained
    <2>2. CASE Callers # {}
        <3>1. PICK a \in Callers : TRUE
            BY <2>2
        <3>2. \A c \in Callers : \A d \in Kept' :
                /\ d \in Kept
                /\ \/ Untold(c, d)' <= Untold(c, d)
                   \/ c = a /\ d = a /\ hookFaults' = hookFaults + 1 /\ Untold(c, d)' <= Untold(c, d) + 1
            BY <1>5
        <3>3. hookFaults' \in {hookFaults, hookFaults + 1}
            BY <1>1
        <3>4. QED
            BY <3>2, <3>3, UntoldStep DEF ToldInv
    <2>3. QED
        BY <2>1, <2>2
<1>8. QED
    BY <1>4, <1>6, <1>7 DEF ToldInv

\* What an accepted post adds, the caller knows; the answer that is lost is a fault.
LEMMA PostTold ==
    ASSUME WebhookTypeOK, WebhookTypeOK', HookInv, ToldInv, NEW c \in Callers, Post(c) \/ AnswerLost(c)
    PROVE  ToldInv'
<1> DEFINE t == Target(c)
<1>1. hookRun[c].pc = "post" /\ UNCHANGED <<hookEndpoint, hookRows>> /\ t \in Endpoints
    <2>1. hookRun[c].pc = "post" /\ UNCHANGED <<hookEndpoint, hookRows>>
        BY DEF Post, AnswerLost
    <2>2. QED
        BY <2>1, TargetType DEF Delivering
<1>2. PICK run \in HookRun : /\ hookRun' = [hookRun EXCEPT ![c] = run] /\ run.todo = hookRun[c].todo
                             /\ run.pc = "catch" => run.answer # "ok"
                             /\ run.pc \in {"record", "catch"}
                             /\ \/ run.answer = "ok" /\ run.pc = "record" /\ hookFaults' = hookFaults
                                   /\ hookAccepted' = [hookAccepted EXCEPT ![c][t] = hookAccepted[c][t] + 1]
                                \/ run.answer # "ok" /\ hookFaults' = hookFaults /\ UNCHANGED hookAccepted
                                \/ run.answer # "ok" /\ hookFaults' = hookFaults + 1
                                   /\ hookAccepted' = [hookAccepted EXCEPT ![c][t] = hookAccepted[c][t] + 1]
    <2>1. hookRun[c] \in HookRun
        BY DEF WebhookTypeOK
    <2>2. CASE Post(c)
        <3>1. PICK answer \in Answers :
                 /\ hookRun' = [hookRun EXCEPT ![c].answer = answer,
                                               ![c].pc = IF answer = "none" THEN "catch" ELSE "record"]
                 /\ hookAccepted' = IF answer = "ok"
                                    THEN [hookAccepted EXCEPT ![c][t] = hookAccepted[c][t] + 1] ELSE hookAccepted
            BY <2>2 DEF Post
        <3>2. hookFaults' = hookFaults
            BY <2>2 DEF Post
        <3> DEFINE run == [hookRun[c] EXCEPT !.answer = answer, !.pc = IF answer = "none" THEN "catch" ELSE "record"]
        <3>3. /\ run \in HookRun /\ run.todo = hookRun[c].todo /\ run.answer = answer
              /\ run.pc = IF answer = "none" THEN "catch" ELSE "record"
            BY <2>1 DEF HookRun
        <3>4. hookRun' = [hookRun EXCEPT ![c] = run]
            BY <3>1 DEF WebhookTypeOK
        <3> HIDE DEF run
        <3>5. QED
            BY <3>1, <3>2, <3>3, <3>4
    <2>3. CASE AnswerLost(c)
        <3> DEFINE run == [hookRun[c] EXCEPT !.pc = "catch", !.answer = "none"]
        <3>1. /\ hookRun' = [hookRun EXCEPT ![c].pc = "catch", ![c].answer = "none"]
              /\ hookAccepted' = [hookAccepted EXCEPT ![c][t] = hookAccepted[c][t] + 1]
              /\ hookFaults' = hookFaults + 1
            BY <2>3 DEF AnswerLost, HookFault
        <3>2. run \in HookRun /\ run.todo = hookRun[c].todo /\ run.answer = "none" /\ run.pc = "catch"
            BY <2>1 DEF HookRun, Answers
        <3>3. hookRun' = [hookRun EXCEPT ![c] = run]
            BY <3>1 DEF WebhookTypeOK
        <3> HIDE DEF run
        <3>4. QED
            BY <3>1, <3>2, <3>3
    <2>4. QED
        BY <2>2, <2>3
<1>3. hookRun'[c] = run /\ \A d \in Callers \ {c} : hookRun'[d] = hookRun[d] /\ hookAccepted'[d] = hookAccepted[d]
    BY <1>2 DEF WebhookTypeOK
<1>4. \A e \in Endpoints : hookAccepted'[c][e] \in {hookAccepted[c][e], hookAccepted[c][e] + 1}
                           /\ (e # t => hookAccepted'[c][e] = hookAccepted[c][e])
    BY <1>1, <1>2 DEF WebhookTypeOK
<1>5. ASSUME NEW e \in Endpoints
      PROVE  /\ Untold(c, e)' >= 0
             /\ \/ Untold(c, e)' <= Untold(c, e)
                \/ e = t /\ hookFaults' = hookFaults + 1 /\ Untold(c, e)' <= Untold(c, e) + 1
    <2>1. /\ hookAccepted[c][e] \in Nat /\ hookRows[c][e]["DELIVERED"] \in Nat
          /\ Untold(c, e) = hookAccepted[c][e] - hookRows[c][e]["DELIVERED"]
        BY <1>1, UntoldIs DEF Tells
    <2>2. Untold(c, e)' = hookAccepted'[c][e] - hookRows[c][e]["DELIVERED"]
                              - (IF run.answer = "ok" /\ e = t THEN 1 ELSE 0)
        BY <1>1, <1>2, <1>3 DEF Untold, Recording, Target
    <2>3. Untold(c, e) >= 0
        BY DEF ToldInv
    <2>4. CASE e # t
        BY <1>4, <2>1, <2>2, <2>3, <2>4
    <2>5. CASE e = t
        <3>1. CASE UNCHANGED hookAccepted
            <4>1. run.answer # "ok" \/ hookAccepted'[c][t] = hookAccepted[c][t] + 1
                BY <1>1, <1>2 DEF WebhookTypeOK
            <4>2. QED
                BY <2>1, <2>2, <2>3, <2>5, <3>1, <4>1
        <3>2. CASE hookAccepted' = [hookAccepted EXCEPT ![c][t] = hookAccepted[c][t] + 1]
            <4>1. hookAccepted'[c][t] = hookAccepted[c][t] + 1
                BY <1>1, <3>2 DEF WebhookTypeOK
            <4>2. run.answer = "ok" \/ hookFaults' = hookFaults + 1
                <5>1. hookAccepted'[c][t] # hookAccepted[c][t]
                    BY <2>1, <2>5, <4>1
                <5>2. QED
                    BY <1>2, <5>1
            <4>3. QED
                BY <2>1, <2>2, <2>3, <2>5, <4>1, <4>2
        <3>3. QED
            BY <1>2, <3>1, <3>2
    <2>6. QED
        BY <2>4, <2>5
<1>6. \A d \in Callers \ {c} : /\ hookRun'[d] = hookRun[d] /\ hookAccepted'[d] = hookAccepted[d]
                               /\ \A e \in Endpoints : hookRows'[d][e]["DELIVERED"] = hookRows[d][e]["DELIVERED"]
    BY <1>1, <1>3
<1>7. hookFaults' \in {hookFaults, hookFaults + 1}
    BY <1>2
<1>8. hookRun'[c].pc = "catch" /\ hookRun'[c].answer = "ok" => ~Stored(Target(c))'
    BY <1>2, <1>3
<1>9. UNCHANGED hookEndpoint
    BY <1>1
<1> HIDE DEF t
<1>10. QED
    BY <1>5, <1>6, <1>7, <1>8, <1>9, CallerTold


\* A delivery that is recorded is no longer only known, but told.
LEMMA DeliveredTold ==
    ASSUME WebhookTypeOK, WebhookTypeOK', HookInv, ToldInv, NEW c \in Callers, hookRun[c].pc = "record",
           Stored(Target(c)), hookRun[c].answer = "ok", Settled(c, "DELIVERED"), NextEndpoint(c),
           UNCHANGED <<hookEndpoint, hookAccepted, hookFaults>>
    PROVE  ToldInv'
<1> DEFINE t == Target(c)
<1>1. t \in Endpoints /\ Tells(c)
    BY TargetType DEF Delivering, Tells
<1>2. hookRun[c] \in HookRun /\ (\A d \in Callers \ {c} : hookRun'[d] = hookRun[d]) /\ hookRun'[c].answer = "none"
    <2>1. hookRun[c] \in HookRun
        BY DEF WebhookTypeOK
    <2>2. PICK run : hookRun' = [hookRun EXCEPT ![c] = run] /\ run.answer = "none"
        <3>1. CASE c \in HookTests
            <4>1. hookRun' = [hookRun EXCEPT ![c] = Rests(c)]
                BY <3>1 DEF NextEndpoint
            <4>2. Rests(c).answer = "none"
                BY <2>1 DEF Rests, HookRun
            <4>3. QED
                BY <4>1, <4>2
        <3>2. CASE c \notin HookTests
            <4> DEFINE run == [hookRun[c] EXCEPT !.todo = Tail(hookRun[c].todo), !.answer = "none",
                                   !.pc = IF Tail(hookRun[c].todo) = <<>> THEN "report" ELSE "deliver"]
            <4>1. hookRun' = [hookRun EXCEPT ![c] = run]
                BY <3>2 DEF NextEndpoint, WebhookTypeOK
            <4>2. run.answer = "none"
                BY <2>1 DEF HookRun
            <4>3. QED
                BY <4>1, <4>2
        <3>3. QED
            BY <3>1, <3>2
    <2>3. QED
        BY <2>1, <2>2 DEF WebhookTypeOK
<1>3. ~Tells(c)'
    BY <1>2 DEF Tells
<1>4. /\ \A d \in Callers \ {c} : hookRows'[d] = hookRows[d]
      /\ \A e \in Endpoints : hookRows'[c][e]["DELIVERED"] = IF e = t THEN hookRows[c][e]["DELIVERED"] + 1
                                                              ELSE hookRows[c][e]["DELIVERED"]
    <2>1. hookRows \in [Callers -> [Endpoints -> [DeliveryStatus -> Nat]]]
        BY DEF WebhookTypeOK
    <2>2. hookRows' = [hookRows EXCEPT ![c][t]["PENDING"] = hookRows[c][t]["PENDING"] - 1,
                                       ![c][t]["DELIVERED"] = hookRows[c][t]["DELIVERED"] + 1]
        BY DEF Settled, DeliveryStatus, WebhookTypeOK
    <2>3. QED
        BY <1>1, <2>1, <2>2 DEF DeliveryStatus
<1>5. ASSUME NEW e \in Endpoints PROVE Untold(c, e)' = Untold(c, e) /\ Untold(c, e) \in Int
    <2>1. /\ hookAccepted[c][e] \in Nat /\ hookRows[c][e]["DELIVERED"] \in Nat /\ Untold(c, e) \in Int
          /\ Untold(c, e) = hookAccepted[c][e] - hookRows[c][e]["DELIVERED"] - (IF t = e THEN 1 ELSE 0)
        BY <1>1, UntoldIs
    <2>2. Untold(c, e)' = hookAccepted[c][e] - hookRows'[c][e]["DELIVERED"]
        <3>1. ~(hookRun'[c].pc \in {"record", "catch"} /\ hookRun'[c].answer = "ok")
            BY <1>3 DEF Tells
        <3>2. hookRows'[c][e]["DELIVERED"] \in Nat
            BY DEF WebhookTypeOK, DeliveryStatus
        <3>3. QED
            BY <2>1, <3>1, <3>2 DEF Untold, Recording
    <2>3. QED
        BY <1>4, <2>1, <2>2
<1>6. \A e \in Endpoints : Untold(c, e) >= 0
    BY DEF ToldInv
<1>7. \A e \in Endpoints :
        /\ Untold(c, e)' >= 0
        /\ e \in Kept => \/ Untold(c, e)' <= Untold(c, e)
                         \/ e = t /\ hookFaults' = hookFaults + 1 /\ Untold(c, e)' <= Untold(c, e) + 1
    BY <1>5, <1>6
<1>8. \A d \in Callers \ {c} : /\ hookRun'[d] = hookRun[d] /\ hookAccepted'[d] = hookAccepted[d]
                               /\ \A e \in Endpoints : hookRows'[d][e]["DELIVERED"] = hookRows[d][e]["DELIVERED"]
    BY <1>2, <1>4
<1> HIDE DEF t
<1>9. QED
    BY <1>2, <1>7, <1>8, CallerTold

\* Rows that are created or settled as FAILED leave the delivered ones alone.
LEMMA OtherRows ==
    ASSUME WebhookTypeOK, NEW c \in Callers, NEW t \in Endpoints,
           \/ hookRows' = hookRows
           \/ hookRows' = [hookRows EXCEPT ![c][t]["PENDING"] = @ + 1]
           \/ hookRows' = [hookRows EXCEPT ![c][t]["PENDING"] = @ - 1, ![c][t]["FAILED"] = @ + 1]
    PROVE  \A d \in Callers, e \in Endpoints : hookRows'[d][e]["DELIVERED"] = hookRows[d][e]["DELIVERED"]
<1>1. hookRows \in [Callers -> [Endpoints -> [DeliveryStatus -> Nat]]]
    BY DEF WebhookTypeOK
<1>2. CASE hookRows' = [hookRows EXCEPT ![c][t]["PENDING"] = @ + 1]
    BY <1>1, <1>2 DEF DeliveryStatus
<1>3. CASE hookRows' = [hookRows EXCEPT ![c][t]["PENDING"] = @ - 1, ![c][t]["FAILED"] = @ + 1]
    <2> DEFINE middle == [hookRows EXCEPT ![c][t]["PENDING"] = @ - 1]
    <2>1. /\ \A d \in Callers, e \in Endpoints : middle[d][e]["DELIVERED"] = hookRows[d][e]["DELIVERED"]
          /\ \A d \in Callers : DOMAIN middle[d] = Endpoints
          /\ \A d \in Callers, e \in Endpoints : DOMAIN middle[d][e] = DeliveryStatus
          /\ DOMAIN middle = Callers
        BY <1>1 DEF DeliveryStatus
    <2>2. hookRows' = [middle EXCEPT ![c][t]["FAILED"] = @ + 1]
        BY <1>3
    <2> HIDE DEF middle
    <2>3. QED
        BY <2>1, <2>2 DEF DeliveryStatus
<1>4. QED
    BY <1>2, <1>3

LEMMA ToldStep ==
    HookInv /\ HookInv' /\ ToldInv /\ [WebhookNext]_hookVars => ToldInv'
<1> SUFFICES ASSUME HookInv, HookInv', ToldInv, [WebhookNext]_hookVars PROVE ToldInv'
    OBVIOUS
<1>1. WebhookTypeOK /\ WebhookTypeOK'
    BY DEF HookInv
<1>2. hookFaults \in Nat
    BY <1>1 DEF WebhookTypeOK
<1>3. ASSUME NEW e \in Endpoints, CreateEndpoint(e) \/ UpdateEndpoint(e) PROVE ToldInv'
    <2>1. PICK state \in {"active", "inactive"}, subscribed \in BOOLEAN :
              hookEndpoint' = [hookEndpoint EXCEPT ![e] = [state |-> state, subscribed |-> subscribed]]
        BY <1>3 DEF CreateEndpoint, UpdateEndpoint
    <2>2. /\ UNCHANGED <<hookRun, hookRows, hookAccepted>> /\ hookFaults' = hookFaults
          /\ hookEndpoint[e].state = "absent" \/ Stored(e)
        BY <1>3 DEF CreateEndpoint, UpdateEndpoint
    <2>3. \A d \in Endpoints : /\ hookEndpoint[d].state = "deleted" => hookEndpoint'[d].state = "deleted"
                               /\ hookEndpoint[d].state # "absent" /\ Stored(d)' => Stored(d)
        BY <1>1, <2>1, <2>2 DEF WebhookTypeOK, Stored
    <2>4. QED
        BY <1>1, <2>2, <2>3, QuietTold
<1>4. ASSUME NEW e \in Endpoints, DeleteEndpoint(e) PROVE ToldInv'
    BY <1>1, <1>4, DeleteTold
<1>5. ASSUME NEW j \in HookJobs, Dispatch(j) \/ ReportDeadHookJob(j) \/ DeadHookJobUnreported(j) PROVE ToldInv'
    <2>1. /\ UNCHANGED <<hookEndpoint, hookRun, hookRows, hookAccepted>>
          /\ hookFaults' \in {hookFaults, hookFaults + 1}
        BY <1>5 DEF Dispatch, ReportDeadHookJob, DeadHookJobUnreported, HookFault
    <2>2. QED
        BY <1>1, <2>1, QuietTold DEF Stored
<1>6. ASSUME NEW c \in Callers, Post(c) \/ AnswerLost(c) PROVE ToldInv'
    BY <1>1, <1>6, PostTold
<1>7. ASSUME NEW c \in Callers, hookRun[c].pc \notin {"record", "catch"}, hookRun'[c].pc \notin {"record", "catch"},
             \A d \in Callers \ {c} : hookRun'[d] = hookRun[d], UNCHANGED <<hookEndpoint, hookAccepted>>,
             \A d \in Callers, e \in Endpoints : hookRows'[d][e]["DELIVERED"] = hookRows[d][e]["DELIVERED"],
             hookFaults' \in {hookFaults, hookFaults + 1}
      PROVE  ToldInv'
    BY <1>1, <1>7, SilentTold DEF Tells
<1>8. ASSUME NEW j \in HookJobs, TakeHookJob(j) \/ ListEndpoints(j) \/ ReportDispatch(j) PROVE ToldInv'
    <2>1. j \in Callers /\ JobFit(j)
        BY DEF Callers, HookInv
    <2>2. hookRun[j].pc \in {"idle", "list", "report"}
        BY <1>8, <2>1 DEF TakeHookJob, ListEndpoints, ReportDispatch, JobFit
    <2>3. /\ UNCHANGED <<hookEndpoint, hookRows, hookAccepted>> /\ hookFaults' = hookFaults
          /\ \A d \in Callers \ {j} : hookRun'[d] = hookRun[d]
        BY <1>1, <1>8 DEF TakeHookJob, ListEndpoints, ReportDispatch, CompleteHookJob, WebhookTypeOK
    <2>4. hookRun'[j].pc \in {"list", "deliver", "idle"}
        <3>1. CASE TakeHookJob(j)
            BY <1>1, <2>1, <3>1 DEF TakeHookJob, WebhookTypeOK, NotRunning
        <3>2. CASE CompleteHookJob(j)
            BY <1>1, <2>1, <3>2, RestsType DEF CompleteHookJob, WebhookTypeOK
        <3>3. CASE ListEndpoints(j) /\ ~CompleteHookJob(j)
            <4>1. PICK order \in [1..Cardinality(ActiveForEvent) -> ActiveForEvent] :
                     hookRun' = [hookRun EXCEPT ![j].pc = "deliver", ![j].todo = order, ![j].listed = ActiveForEvent]
                BY <3>3 DEF ListEndpoints
            <4>2. hookRun[j] \in HookRun
                BY <1>1, <2>1 DEF WebhookTypeOK
            <4>3. QED
                BY <1>1, <2>1, <4>1, <4>2 DEF WebhookTypeOK, HookRun
        <3>4. QED
            BY <1>8, <3>1, <3>2, <3>3 DEF ReportDispatch
    <2>5. QED
        BY <1>7, <2>1, <2>2, <2>3, <2>4
<1>9. ASSUME NEW t \in HookTests, NEW e \in Endpoints, StartTest(t, e) PROVE ToldInv'
    <2>1. t \in Callers /\ hookRun[t].pc = "idle"
        BY <1>9 DEF Callers, StartTest, NotRunning
    <2>2. /\ UNCHANGED <<hookEndpoint, hookRows, hookAccepted>> /\ hookFaults' = hookFaults
          /\ \A d \in Callers \ {t} : hookRun'[d] = hookRun[d]
          /\ hookRun'[t].pc = "deliver"
        BY <1>1, <1>9, <2>1 DEF StartTest, WebhookTypeOK, NotRunning
    <2>3. QED
        BY <1>7, <2>1, <2>2
<1>10. ASSUME NEW c \in Callers, Throw(c) \/ hookRun' = [hookRun EXCEPT ![c] = Rests(c)]
       PROVE  hookRun'[c].pc = "idle" /\ \A d \in Callers \ {c} : hookRun'[d] = hookRun[d]
    <2>1. hookRun' = [hookRun EXCEPT ![c] = Rests(c)]
        BY <1>10 DEF Throw
    <2>2. QED
        BY <1>1, <2>1, RestsType DEF WebhookTypeOK
<1>11. ASSUME NEW c \in Callers, CreateDelivery(c) PROVE ToldInv'
    <2>1. /\ hookRun[c].pc = "deliver" /\ UNCHANGED <<hookEndpoint, hookAccepted>> /\ hookFaults' = hookFaults
          /\ Target(c) \in Endpoints
        BY <1>11, TargetType DEF CreateDelivery, Delivering
    <2>2. CASE Stored(Target(c))
        <3>1. /\ hookRows' = [hookRows EXCEPT ![c][Target(c)]["PENDING"] = @ + 1]
              /\ hookRun' = [hookRun EXCEPT ![c].pc = "post"]
            BY <1>11, <2>2 DEF CreateDelivery
        <3>2. \A d \in Callers, e \in Endpoints : hookRows'[d][e]["DELIVERED"] = hookRows[d][e]["DELIVERED"]
            BY <1>1, <2>1, <3>1, OtherRows
        <3>3. hookRun'[c].pc = "post" /\ \A d \in Callers \ {c} : hookRun'[d] = hookRun[d]
            BY <1>1, <3>1 DEF WebhookTypeOK, HookRun
        <3>4. QED
            BY <1>7, <2>1, <3>2, <3>3
    <2>3. CASE ~Stored(Target(c))
        <3>1. Throw(c) /\ UNCHANGED hookRows
            BY <1>11, <2>3 DEF CreateDelivery
        <3>2. QED
            BY <1>7, <1>10, <2>1, <3>1
    <2>4. QED
        BY <2>2, <2>3
<1>12. ASSUME NEW c \in Callers, Settled(c, "FAILED"), NotDelivered(c), Stored(Target(c)),
              hookRun[c].pc \in {"record", "catch"}, hookRun[c].answer # "ok",
              UNCHANGED <<hookEndpoint, hookAccepted, hookFaults>>
       PROVE  ToldInv'
    <2>1. Target(c) \in Endpoints
        BY <1>12, TargetType DEF Delivering
    <2>2. hookRows' = [hookRows EXCEPT ![c][Target(c)]["PENDING"] = @ - 1, ![c][Target(c)]["FAILED"] = @ + 1]
        BY <1>12 DEF Settled
    <2>3. \A d \in Callers, e \in Endpoints : hookRows'[d][e]["DELIVERED"] = hookRows[d][e]["DELIVERED"]
        BY <1>1, <2>1, <2>2, OtherRows
    <2>4. hookRun'[c].pc \in {"idle", "deliver"} /\ \A d \in Callers \ {c} : hookRun'[d] = hookRun[d]
        <3>1. CASE Throw(c)
            BY <1>10, <3>1
        <3>2. CASE ~Throw(c)
            <4>1. hookRun' = [hookRun EXCEPT ![c].pc = "deliver", ![c].answer = "none", ![c].tries = @ + 1]
                BY <1>12, <3>2 DEF NotDelivered
            <4>2. QED
                BY <1>1, <4>1 DEF WebhookTypeOK, HookRun
        <3>3. QED
            BY <3>1, <3>2
    <2>5. ~Tells(c) /\ ~Tells(c)' /\ hookRun'[c].pc # "catch"
        BY <1>12, <2>4 DEF Tells
    <2>6. QED
        BY <1>1, <1>12, <2>3, <2>4, <2>5, SilentTold
<1>13. ASSUME NEW c \in Callers, RecordAnswer(c) PROVE ToldInv'
    <2>1. hookRun[c].pc = "record" /\ UNCHANGED <<hookEndpoint, hookAccepted, hookFaults>>
        BY <1>13 DEF RecordAnswer
    <2>2. CASE ~Stored(Target(c))
        <3>1. hookRun' = [hookRun EXCEPT ![c].pc = "catch"] /\ UNCHANGED hookRows
            BY <1>13, <2>2 DEF RecordAnswer
        <3>2. /\ hookRun'[c].pc = "catch" /\ hookRun'[c].todo = hookRun[c].todo
              /\ hookRun'[c].answer = hookRun[c].answer /\ \A d \in Callers \ {c} : hookRun'[d] = hookRun[d]
            BY <1>1, <3>1 DEF WebhookTypeOK, HookRun
        <3>3. Target(c)' = Target(c) /\ ~Stored(Target(c))' /\ (Tells(c)' <=> Tells(c))
            BY <2>1, <2>2, <3>2 DEF Target, Stored, Tells
        <3>4. QED
            BY <1>1, <2>1, <3>1, <3>2, <3>3, SilentTold
    <2>3. CASE Stored(Target(c)) /\ hookRun[c].answer = "ok"
        BY <1>1, <1>13, <2>1, <2>3, DeliveredTold DEF RecordAnswer
    <2>4. CASE Stored(Target(c)) /\ hookRun[c].answer # "ok"
        BY <1>12, <1>13, <2>1, <2>4 DEF RecordAnswer
    <2>5. QED
        BY <2>2, <2>3, <2>4
<1>14. ASSUME NEW c \in Callers, CatchAnswer(c) PROVE ToldInv'
    <2>1. hookRun[c].pc = "catch" /\ UNCHANGED <<hookEndpoint, hookAccepted, hookFaults>>
        BY <1>14 DEF CatchAnswer
    <2>2. hookRun[c].answer = "ok" => ~Stored(Target(c))
        BY <2>1 DEF ToldInv
    <2>3. CASE Stored(Target(c))
        BY <1>12, <1>14, <2>1, <2>2, <2>3 DEF CatchAnswer
    <2>4. CASE ~Stored(Target(c))
        <3>1. Throw(c) /\ UNCHANGED hookRows
            BY <1>14, <2>4 DEF CatchAnswer
        <3>2. hookRun'[c].pc = "idle" /\ \A d \in Callers \ {c} : hookRun'[d] = hookRun[d]
            BY <1>10, <3>1
        <3>3. ~Tells(c)'
            BY <3>2 DEF Tells
        <3>4. QED
            BY <1>1, <2>1, <2>4, <3>1, <3>2, <3>3, SilentTold
    <2>5. QED
        BY <2>3, <2>4
<1>15. ASSUME NEW c \in Callers, HookStatementFails(c) \/ HookCrash(c) PROVE ToldInv'
    <2>1. UNCHANGED <<hookEndpoint, hookRows, hookAccepted>> /\ hookFaults' = hookFaults + 1
        BY <1>15 DEF HookStatementFails, HookCrash, HookFault
    <2>2. /\ hookRun'[c].pc = "idle" \/ hookRun'[c].answer = "none"
          /\ \A d \in Callers \ {c} : hookRun'[d] = hookRun[d]
        <3>1. CASE Throw(c) \/ hookRun' = [hookRun EXCEPT ![c] = Rests(c)]
            BY <1>10, <3>1
        <3>2. CASE ~(Throw(c) \/ hookRun' = [hookRun EXCEPT ![c] = Rests(c)])
            <4>1. hookRun' = [hookRun EXCEPT ![c].pc = "catch", ![c].answer = "none"]
                BY <1>15, <3>2 DEF HookStatementFails, HookCrash
            <4>2. QED
                BY <1>1, <4>1 DEF WebhookTypeOK, HookRun
        <3>3. QED
            BY <3>1, <3>2
    <2>3. ~Tells(c)' /\ ~(hookRun'[c].pc = "catch" /\ hookRun'[c].answer = "ok")
        BY <2>2 DEF Tells
    <2>4. QED
        BY <1>1, <2>1, <2>2, <2>3, SilentTold
<1>16. CASE UNCHANGED hookVars
    BY <1>1, <1>16, QuietTold DEF hookVars, Stored
<1>17. QED
    BY <1>3, <1>4, <1>5, <1>6, <1>8, <1>9, <1>11, <1>13, <1>14, <1>15, <1>16
    DEF WebhookNext, HookJobStep, DeliveryStep

LEMMA ToldStarts == WebhookInit => ToldInv
<1> SUFFICES ASSUME WebhookInit PROVE ToldInv
    OBVIOUS
<1>1. \A c \in Callers, e \in Endpoints : Untold(c, e) = 0
    <2> SUFFICES ASSUME NEW c \in Callers, NEW e \in Endpoints PROVE Untold(c, e) = 0
        OBVIOUS
    <2>1. hookAccepted[c][e] = 0 /\ hookRows[c][e]["DELIVERED"] = 0
        BY DEF WebhookInit, DeliveryStatus
    <2>2. hookRun[c].pc = "idle"
        BY DEF WebhookInit, NotRunning
    <2>3. Untold(c, e) = 0 - 0 - (IF FALSE THEN 1 ELSE 0)
        BY <2>1, <2>2 DEF Untold, Recording
    <2>4. QED
        BY <2>3
<1>2. UntoldAcceptances = {}
    <2>1. Kept \subseteq Endpoints
        BY DEF Kept
    <2>2. \A c \in Callers : \A e \in Kept : 1..Untold(c, e) = {}
        BY <1>1, <2>1
    <2>3. QED
        BY <2>2, UntoldMembers
<1>3. hookFaults = 0
    BY DEF WebhookInit
<1>4. \A c \in Callers : hookRun[c].pc # "catch"
    BY DEF WebhookInit, NotRunning
<1>5. QED
    BY <1>1, <1>2, <1>3, <1>4, FS_EmptySet DEF ToldInv, UntoldExplained

LEMMA ToldTells == HookInv /\ ToldInv => AcceptedIsTold
<1> SUFFICES ASSUME HookInv, ToldInv PROVE AcceptedIsTold
    OBVIOUS
<1>1. ASSUME NEW c \in Callers, NEW e \in Endpoints PROVE hookRows[c][e]["DELIVERED"] <= hookAccepted[c][e]
    <2>1. /\ hookAccepted[c][e] \in Nat /\ hookRows[c][e]["DELIVERED"] \in Nat
          /\ Untold(c, e) = hookAccepted[c][e] - hookRows[c][e]["DELIVERED"]
                                - (IF Tells(c) /\ Target(c) = e THEN 1 ELSE 0)
        BY UntoldIs DEF HookInv
    <2>2. Untold(c, e) >= 0
        BY DEF ToldInv
    <2>3. QED
        BY <2>1, <2>2
<1>2. QED
    BY <1>1 DEF AcceptedIsTold, ToldInv, UntoldExplained

\* A delivery is DELIVERED only if its endpoint accepted it, and of those accepted
\* no more are told otherwise than there were faults, whatever callers, endpoints,
\* retries and deletions do.
THEOREM AcceptedIsToldCorrect == WebhookSpec => []AcceptedIsTold
BY ToldStarts, ToldTells, HookStarts, HookSteps, ToldStep, PTL DEF WebhookSpec

-----------------------------------------------------------------------------
(* The handlers of a publication *)

\* Each effect is one handler's.
Owner(e) ==
    CASE e = "audit" -> "audit-log"
      [] e \in {"in-app", "side-effect", "email-job"} -> "notification"
      [] e = "automation-job" -> "automation"
      [] e = "webhook-job" -> "webhook"

\* How often a handler's list of three steps at most names an effect.
Tally(s, e) ==
    (IF Len(s) >= 1 /\ s[1] = e THEN 1 ELSE 0)
    + (IF Len(s) >= 2 /\ s[2] = e THEN 1 ELSE 0)
    + (IF Len(s) >= 3 /\ s[3] = e THEN 1 ELSE 0)

\* A list of steps of one handler, of which the email job is the last.
StepList(s, h) ==
    /\ s \in Seq(Effects) /\ Len(s) <= 3
    /\ \A i \in DOMAIN s : Owner(s[i]) = h /\ (s[i] = "email-job" => i = Len(s))

LEMMA TallyTail ==
    ASSUME NEW h, NEW s, StepList(s, h), s # <<>>
    PROVE  /\ StepList(Tail(s), h)
           /\ \A e : Tally(Tail(s), e) = Tally(s, e) - (IF Head(s) = e THEN 1 ELSE 0)
<1>1. /\ s \in Seq(Effects) /\ Len(s) \in 1..3 /\ Head(s) = s[1]
      /\ Tail(s) \in Seq(Effects) /\ Len(Tail(s)) = Len(s) - 1
      /\ \A i \in 1..(Len(s) - 1) : Tail(s)[i] = s[i + 1]
    <2>1. s \in Seq(Effects) /\ Len(s) <= 3 /\ s # <<>>
        BY DEF StepList
    <2>2. Len(s) \in Nat /\ Len(s) # 0
        BY <2>1, LenProperties, EmptySeq
    <2>3. /\ Head(s) = s[1] /\ Tail(s) \in Seq(Effects) /\ Len(Tail(s)) = Len(s) - 1
          /\ \A i \in 1..(Len(s) - 1) : Tail(s)[i] = s[i + 1]
        BY <2>1, HeadTailProperties
    <2>4. QED
        BY <2>1, <2>2, <2>3
<1>2. StepList(Tail(s), h)
    <2> SUFFICES ASSUME NEW i \in DOMAIN Tail(s)
                 PROVE  Owner(Tail(s)[i]) = h /\ (Tail(s)[i] = "email-job" => i = Len(Tail(s)))
        BY <1>1 DEF StepList
    <2>1. i \in 1..(Len(s) - 1) /\ i + 1 \in DOMAIN s /\ Tail(s)[i] = s[i + 1]
        BY <1>1
    <2>2. Owner(s[i + 1]) = h /\ (s[i + 1] = "email-job" => i + 1 = Len(s))
        BY <2>1 DEF StepList
    <2>3. QED
        BY <1>1, <2>1, <2>2
<1>3. ASSUME NEW e PROVE Tally(Tail(s), e) = Tally(s, e) - (IF Head(s) = e THEN 1 ELSE 0)
    <2>1. Len(Tail(s)) >= 1 => Tail(s)[1] = s[2]
        BY <1>1
    <2>2. Len(Tail(s)) >= 2 => Tail(s)[2] = s[3]
        BY <1>1
    <2>3. Len(Tail(s)) = Len(s) - 1 /\ Len(s) \in 1..3 /\ Head(s) = s[1]
        BY <1>1
    <2>4. ~(Len(Tail(s)) >= 3)
        BY <2>3
    <2>5. QED
        BY <2>1, <2>2, <2>3, <2>4 DEF Tally
<1>4. QED
    BY <1>2, <1>3

LEMMA TallyType ==
    ASSUME NEW s, NEW e
    PROVE  Tally(s, e) \in 0..3 /\ (s = <<>> => Tally(s, e) = 0)
BY DEF Tally

LEMMA AddOneIf ==
    ASSUME NEW S, IsFiniteSet(S), NEW k, k \notin S, NEW T, NEW n,
           \/ T = S \cup {k} /\ n = 1
           \/ T = S /\ n = 0
    PROVE  IsFiniteSet(T) /\ Cardinality(T) = Cardinality(S) + n
<1>1. Cardinality(S) \in Nat
    BY FS_CardinalityType
<1>2. CASE T = S \cup {k} /\ n = 1
    BY <1>2, FS_AddElement
<1>3. CASE T = S /\ n = 0
    BY <1>1, <1>3
<1>4. QED
    BY <1>2, <1>3

\* The count that Promised takes.
LEMMA TallyCounts ==
    ASSUME NEW h, NEW s, StepList(s, h), NEW e
    PROVE  Cardinality({i \in DOMAIN s : s[i] = e}) = Tally(s, e)
<1>1. s \in Seq(Effects) /\ Len(s) <= 3
    BY DEF StepList
<1>2. DOMAIN s = 1..Len(s) /\ Len(s) \in 0..3
    <2>1. Len(s) \in Nat /\ DOMAIN s = 1..Len(s)
        BY <1>1, LenProperties
    <2>2. QED
        BY <1>1, <2>1
<1> DEFINE Names(k) == Len(s) >= k /\ s[k] = e
           Count(k) == IF Names(k) THEN 1 ELSE 0
           One == IF Names(1) THEN {} \cup {1} ELSE {}
           Two == IF Names(2) THEN One \cup {2} ELSE One
           Three == IF Names(3) THEN Two \cup {3} ELSE Two
<1>3. {i \in DOMAIN s : s[i] = e} = Three
    <2>1. \A i \in DOMAIN s : i \in {1, 2, 3} /\ Len(s) >= i
        BY <1>2
    <2>2. \A i \in {1, 2, 3} : Len(s) >= i => i \in DOMAIN s
        BY <1>2
    <2>3. \A i : i \in Three <=> i \in {1, 2, 3} /\ Names(i)
        OBVIOUS
    <2> HIDE DEF Three
    <2>4. QED
        BY <2>1, <2>2, <2>3
<1>4. 1 \notin {} /\ 2 \notin One /\ 3 \notin Two
    OBVIOUS
<1>5. /\ (One = {} \cup {1} /\ Count(1) = 1) \/ (One = {} /\ Count(1) = 0)
      /\ (Two = One \cup {2} /\ Count(2) = 1) \/ (Two = One /\ Count(2) = 0)
      /\ (Three = Two \cup {3} /\ Count(3) = 1) \/ (Three = Two /\ Count(3) = 0)
    <2>1. CASE Names(1)
        BY <2>1, Zenon
    <2>2. QED
        OBVIOUS
<1>6. Tally(s, e) = Count(1) + Count(2) + Count(3)
    BY DEF Tally
<1>7. \A k : Count(k) \in {0, 1}
    OBVIOUS
<1> HIDE DEF Count, One, Two, Three
<1>8. IsFiniteSet(One) /\ Cardinality(One) = 0 + Count(1)
    BY <1>4, <1>5, AddOneIf, FS_EmptySet
<1>9. IsFiniteSet(Two) /\ Cardinality(Two) = Cardinality(One) + Count(2)
    BY <1>4, <1>5, <1>8, AddOneIf
<1>10. Cardinality(Three) = Cardinality(Two) + Count(3)
    BY <1>4, <1>5, <1>9, AddOneIf
<1>11. Count(1) \in {0, 1} /\ Count(2) \in {0, 1} /\ Count(3) \in {0, 1}
    BY <1>7
<1>12. QED
    BY <1>3, <1>6, <1>8, <1>9, <1>10, <1>11

\* What the handlers of an event have to do.
LEMMA StepsAre ==
    ASSUME NEW event \in FanEvent, NEW h \in Handlers
    PROVE  /\ StepList(StepsOf(event)[h], h)
           /\ Tally(StepsOf(event)[h], "email-job") <= 1
           /\ \A e \in Effects : Tally(StepsOf(event)[h], e) <= 2
           /\ h # "notification" => Tally(StepsOf(event)[h], "email-job") = 0
<1> DEFINE s == StepsOf(event)[h]
<1>1. /\ Notify(event) \in Seq(Effects) /\ Len(Notify(event)) \in {2, 3}
      /\ Notify(event)[1] = "in-app" /\ Notify(event)[2] = "side-effect"
      /\ Len(Notify(event)) = 3 => Notify(event)[3] = "email-job"
    <2> DEFINE mail == IF event.mailed THEN <<"email-job">> ELSE <<>>
               start == <<"in-app", "side-effect">>
    <2>1. start \in Seq(Effects) /\ Len(start) = 2 /\ start[1] = "in-app" /\ start[2] = "side-effect"
        BY DEF Effects
    <2>2. mail \in Seq(Effects) /\ Len(mail) \in {0, 1} /\ (Len(mail) = 1 => mail[1] = "email-job")
        <3> HIDE DEF start
        <3>1. CASE event.mailed
            <4>1. mail = <<"email-job">>
                BY <3>1
            <4> HIDE DEF mail
            <4>2. QED
                BY <4>1 DEF Effects
        <3>2. CASE ~event.mailed
            <4>1. mail = <<>>
                BY <3>2
            <4> HIDE DEF mail
            <4>2. QED
                BY <4>1
        <3>3. QED
            BY <3>1, <3>2
    <2> HIDE DEF mail, start
    <2>3. /\ start \o mail \in Seq(Effects) /\ Len(start \o mail) = Len(start) + Len(mail)
          /\ \A i \in 1..(Len(start) + Len(mail)) :
                (start \o mail)[i] = IF i <= Len(start) THEN start[i] ELSE mail[i - Len(start)]
        BY <2>1, <2>2, ConcatProperties
    <2>4. Notify(event) = start \o mail
        BY DEF Notify, start, mail
    <2>5. QED
        BY <2>1, <2>2, <2>3, <2>4
<1>2. \/ s = <<>>
      \/ h = "audit-log" /\ s = <<"audit">>
      \/ h = "automation" /\ s = <<"automation-job">>
      \/ h = "webhook" /\ s \in {<<"webhook-job">>, <<"webhook-job", "webhook-job">>}
      \/ h = "notification" /\ s = Notify(event)
    BY DEF StepsOf, Handlers, AuditLogSteps, NotificationSteps, AutomationSteps, WebhookSteps
<1> HIDE DEF s
<1>3. /\ StepList(s, h) /\ Tally(s, "email-job") <= 1 /\ (\A e \in Effects : Tally(s, e) <= 2)
      /\ h # "notification" => Tally(s, "email-job") = 0
    <2>1. CASE s = <<>>
        BY <2>1, TallyType DEF StepList
    <2>2. CASE h = "notification" /\ s = Notify(event)
        <3>1. DOMAIN s = 1..Len(s)
            BY <1>1, <2>2, LenProperties
        <3>2. \A i \in DOMAIN s : /\ s[i] \in {"in-app", "side-effect", "email-job"}
                                  /\ s[i] = "email-job" => i = Len(s)
            <4> SUFFICES ASSUME NEW i \in DOMAIN s PROVE /\ s[i] \in {"in-app", "side-effect", "email-job"}
                                                         /\ s[i] = "email-job" => i = Len(s)
                OBVIOUS
            <4>1. i = 1 \/ i = 2 \/ (i = 3 /\ Len(s) = 3)
                BY <1>1, <2>2, <3>1
            <4>2. QED
                BY <1>1, <2>2, <4>1
        <3>3. StepList(s, h)
            BY <1>1, <2>2, <3>2 DEF StepList, Owner
        <3>4. QED
            BY <1>1, <2>2, <3>3 DEF Tally, Effects
    <2>3. CASE h \in {"audit-log", "automation", "webhook"} /\ s # <<>>
        <3>1. /\ s \in Seq(Effects) /\ Len(s) \in {1, 2}
              /\ \A i \in DOMAIN s : /\ s[i] \in {"audit", "automation-job", "webhook-job"}
                                     /\ Owner(s[i]) = h
            BY <1>2, <2>3 DEF Effects, Owner
        <3>2. s[1] # "email-job" /\ (Len(s) = 2 => s[2] # "email-job")
            BY <3>1
        <3>3. StepList(s, h)
            BY <3>1 DEF StepList
        <3>4. QED
            BY <2>3, <3>1, <3>2, <3>3 DEF Tally, Effects
    <2>4. QED
        BY <1>2, <2>1, <2>2, <2>3
<1>4. QED
    BY <1>3 DEF s

-----------------------------------------------------------------------------
(* What failures have cost *)

\* The handler waits for the mail of the job it has added.
Waits(p, e) == IF e = "email-job" /\ ~fanEvent[p].queued /\ fanEmail[p].state = "active" THEN 1 ELSE 0

\* How often an effect has been caused or still will be.
Account(p, e) == fanEffects[p][e] + Tally(fanTodo[p][Owner(e)], e) - Waits(p, e)

Owed(p, e) == Tally(StepsOf(fanEvent[p])[Owner(e)], e)

\* A handler that will not cause all of its effects, or whose mail has met a failure.
Lost(p, h) ==
    \/ fanState[p] # "new" /\ \E e \in Effects : Owner(e) = h /\ Account(p, e) < Owed(p, e)
    \/ h = "notification" /\ fanSent[p] = 0 /\ (fanEmail[p].attempts > 0 \/ Ended(fanEmail[p]))

\* Mails but the one that is being recorded or that the job has ended with.
Extra(p) ==
    fanSent[p] - (IF fanMail[p] = "record" \/ fanEmail[p].state = "completed" THEN 1 ELSE 0)

LostHandlers == {x \in Publications \X Handlers : Lost(x[1], x[2])}

ExtraMails == {x \in Publications \X Nat : x[2] \in 1..Extra(x[1])}

CostsExplained ==
    /\ IsFiniteSet(LostHandlers) /\ IsFiniteSet(ExtraMails)
    /\ Cardinality(LostHandlers) + Cardinality(ExtraMails) <= fanFaults

\* Where a publication stands: a handler's list is the rest of its steps, the email
\* job is added once, and its processor runs while it is active.
PublicationFit(p) ==
    /\ fanState[p] = "new" => /\ \A h \in Handlers : fanTodo[p][h] = <<>>
                              /\ fanEffects[p] = NoEffects /\ fanEmail[p].state = "none"
    /\ fanState[p] = "returned" => \A h \in Handlers : fanTodo[p][h] = <<>>
    /\ \A h \in Handlers : StepList(fanTodo[p][h], h)
    /\ fanState[p] # "new" => \A e \in Effects : Account(p, e) <= Owed(p, e)
    /\ fanMail[p] # "idle" <=> fanEmail[p].state = "active"
    /\ fanEmail[p].state = "none" => fanEmail[p].attempts = 0 /\ fanSent[p] = 0
    /\ fanEmail[p].state \in {"waiting", "active"} => fanEmail[p].attempts < JobAttempts
    /\ fanEmail[p].state \in {"failed", "waiting"} => fanEvent[p].queued
    /\ fanEmail[p].state = "failed" => fanEmail[p].attempts > 0
    /\ fanEmail[p].state = "active" /\ ~fanEvent[p].queued => fanTodo[p]["notification"] = <<"email-job">>
    /\ \/ Tally(fanTodo[p]["notification"], "email-job") = 0
       \/ fanEmail[p].state = "none"
       \/ fanEmail[p].state = "active" /\ ~fanEvent[p].queued
    /\ fanMail[p] = "record" \/ fanEmail[p].state = "completed" => fanSent[p] > 0

FanInv == FanoutTypeOK /\ (\A p \in Publications : PublicationFit(p)) /\ CostsExplained

LEMMA WaitsIs ==
    ASSUME NEW p, NEW e
    PROVE  /\ Waits(p, e) \in {0, 1}
           /\ Waits(p, e) = 1 <=> e = "email-job" /\ ~fanEvent[p].queued /\ fanEmail[p].state = "active"
BY DEF Waits

LEMMA OwnersAre ==
    ASSUME NEW e \in Effects
    PROVE  Owner(e) \in Handlers /\ (Owner(e) = "notification" <=> e \in {"in-app", "side-effect", "email-job"})
BY DEF Owner, Effects, Handlers

LEMMA AccountType ==
    ASSUME FanoutTypeOK, NEW p \in Publications, NEW e \in Effects
    PROVE  /\ fanEffects[p][e] \in 0..2
           /\ Tally(fanTodo[p][Owner(e)], e) \in 0..3
           /\ Waits(p, e) \in {0, 1}
           /\ Account(p, e) = fanEffects[p][e] + Tally(fanTodo[p][Owner(e)], e) - Waits(p, e)
           /\ Account(p, e) \in Int /\ Owed(p, e) \in 0..3
<1>1. fanEffects[p][e] \in 0..2
    BY DEF FanoutTypeOK
<1>2. Tally(fanTodo[p][Owner(e)], e) \in 0..3 /\ Owed(p, e) \in 0..3
    BY TallyType DEF Owed
<1>3. Waits(p, e) \in {0, 1}
    BY WaitsIs
<1>4. Account(p, e) = fanEffects[p][e] + Tally(fanTodo[p][Owner(e)], e) - Waits(p, e)
    BY DEF Account
<1>5. QED
    BY <1>1, <1>2, <1>3, <1>4

LEMMA ExtraIs ==
    ASSUME FanoutTypeOK, NEW p \in Publications, PublicationFit(p)
    PROVE  /\ fanMail[p] = "record" \/ fanEmail[p].state = "completed" => Extra(p) = fanSent[p] - 1
           /\ ~(fanMail[p] = "record" \/ fanEmail[p].state = "completed") => Extra(p) = fanSent[p]
           /\ fanSent[p] \in Nat /\ Extra(p) \in Nat
<1>1. fanSent[p] \in Nat
    BY DEF FanoutTypeOK
<1>2. fanMail[p] = "record" \/ fanEmail[p].state = "completed" => fanSent[p] > 0
    BY DEF PublicationFit
<1>3. QED
    BY <1>1, <1>2 DEF Extra

-----------------------------------------------------------------------------
(* A step is one publication's *)

Same(q) ==
    /\ fanEvent'[q] = fanEvent[q] /\ fanState'[q] = fanState[q] /\ fanTodo'[q] = fanTodo[q]
    /\ fanEffects'[q] = fanEffects[q] /\ fanEmail'[q] = fanEmail[q] /\ fanMail'[q] = fanMail[q]
    /\ fanSent'[q] = fanSent[q]

LEMMA SameStays ==
    ASSUME NEW q, Same(q), PublicationFit(q)
    PROVE  PublicationFit(q)' /\ (\A h : Lost(q, h)' <=> Lost(q, h)) /\ Extra(q)' = Extra(q)
<1>1. \A e : Account(q, e)' = Account(q, e) /\ Owed(q, e)' = Owed(q, e)
    BY DEF Same, Account, Owed, Waits
<1>2. PublicationFit(q)'
    BY <1>1 DEF Same, PublicationFit
<1>3. (\A h : Lost(q, h)' <=> Lost(q, h)) /\ Extra(q)' = Extra(q)
    BY <1>1 DEF Same, Lost, Extra
<1>4. QED
    BY <1>2, <1>3

LEMMA OneMore ==
    ASSUME NEW S, IsFiniteSet(S), NEW x
    PROVE  /\ IsFiniteSet(S \cup {x}) /\ Cardinality(S \cup {x}) \in Nat
           /\ Cardinality(S \cup {x}) <= Cardinality(S) + 1
<1>1. Cardinality(S) \in Nat /\ IsFiniteSet(S \cup {x})
    BY FS_CardinalityType, FS_AddElement
<1>2. CASE x \in S
    <2>1. S \cup {x} = S
        BY <1>2
    <2>2. QED
        BY <1>1, <2>1
<1>3. CASE x \notin S
    BY <1>1, <1>3, FS_AddElement
<1>4. QED
    BY <1>2, <1>3

\* The step costs nothing, or it is a failure that costs one handler or one mail.
Costs(p) ==
    \/ /\ \A h \in Handlers : Lost(p, h)' => Lost(p, h)
       /\ Extra(p)' <= Extra(p)
       /\ fanFaults' \in {fanFaults, fanFaults + 1}
    \/ /\ \E g \in Handlers : \A h \in Handlers \ {g} : Lost(p, h)' => Lost(p, h)
       /\ Extra(p)' <= Extra(p)
       /\ fanFaults' = fanFaults + 1
    \/ /\ \A h \in Handlers : Lost(p, h)' => Lost(p, h)
       /\ Extra(p)' <= Extra(p) + 1
       /\ fanFaults' = fanFaults + 1

LEMMA CostsCount ==
    ASSUME FanoutTypeOK, FanoutTypeOK', CostsExplained, NEW p \in Publications,
           Extra(p) \in Nat, Extra(p)' \in Nat,
           \A q \in Publications \ {p} : (\A h : Lost(q, h)' <=> Lost(q, h)) /\ Extra(q)' = Extra(q),
           Costs(p)
    PROVE  CostsExplained'
<1>1. /\ IsFiniteSet(LostHandlers) /\ IsFiniteSet(ExtraMails)
      /\ Cardinality(LostHandlers) \in Nat /\ Cardinality(ExtraMails) \in Nat
      /\ Cardinality(LostHandlers) + Cardinality(ExtraMails) <= fanFaults
      /\ fanFaults \in Nat
    BY FS_CardinalityType DEF CostsExplained, FanoutTypeOK
<1>2. ASSUME \A h \in Handlers : Lost(p, h)' => Lost(p, h)
      PROVE  /\ IsFiniteSet(LostHandlers') /\ Cardinality(LostHandlers') \in Nat
             /\ Cardinality(LostHandlers') <= Cardinality(LostHandlers)
    <2>1. LostHandlers' \subseteq LostHandlers
        BY <1>2 DEF LostHandlers
    <2>2. QED
        BY <1>1, <2>1, FS_Subset, FS_CardinalityType
<1>3. ASSUME Extra(p)' <= Extra(p)
      PROVE  /\ IsFiniteSet(ExtraMails') /\ Cardinality(ExtraMails') \in Nat
             /\ Cardinality(ExtraMails') <= Cardinality(ExtraMails)
    <2>1. \A q \in Publications : 1..Extra(q)' \subseteq 1..Extra(q)
        BY <1>3
    <2>2. ExtraMails' \subseteq ExtraMails
        BY <2>1 DEF ExtraMails
    <2>3. QED
        BY <1>1, <2>2, FS_Subset, FS_CardinalityType
<1>4. CASE /\ \A h \in Handlers : Lost(p, h)' => Lost(p, h)
           /\ Extra(p)' <= Extra(p)
           /\ fanFaults' \in {fanFaults, fanFaults + 1}
    BY <1>1, <1>2, <1>3, <1>4 DEF CostsExplained
<1>5. CASE /\ \E g \in Handlers : \A h \in Handlers \ {g} : Lost(p, h)' => Lost(p, h)
           /\ Extra(p)' <= Extra(p)
           /\ fanFaults' = fanFaults + 1
    <2>1. PICK g \in Handlers : \A h \in Handlers \ {g} : Lost(p, h)' => Lost(p, h)
        BY <1>5
    <2>2. LostHandlers' \subseteq LostHandlers \cup {<<p, g>>}
        BY <2>1 DEF LostHandlers
    <2>3. /\ IsFiniteSet(LostHandlers \cup {<<p, g>>})
          /\ Cardinality(LostHandlers \cup {<<p, g>>}) <= Cardinality(LostHandlers) + 1
          /\ Cardinality(LostHandlers \cup {<<p, g>>}) \in Nat
        BY <1>1, OneMore
    <2>4. /\ IsFiniteSet(LostHandlers') /\ Cardinality(LostHandlers') \in Nat
          /\ Cardinality(LostHandlers') <= Cardinality(LostHandlers) + 1
        BY <1>1, <2>2, <2>3, FS_Subset, FS_CardinalityType
    <2>5. QED
        BY <1>1, <1>3, <1>5, <2>4 DEF CostsExplained
<1>6. CASE /\ \A h \in Handlers : Lost(p, h)' => Lost(p, h)
           /\ Extra(p)' <= Extra(p) + 1
           /\ fanFaults' = fanFaults + 1
    <2> DEFINE new == <<p, Extra(p) + 1>>
    <2>1. ExtraMails' \subseteq ExtraMails \cup {new}
        <3> SUFFICES ASSUME NEW x \in ExtraMails' PROVE x \in ExtraMails \/ x = new
            OBVIOUS
        <3>1. x \in Publications \X Nat /\ x[2] \in 1..Extra(x[1])'
            BY DEF ExtraMails
        <3>2. CASE x[1] # p
            BY <3>1, <3>2 DEF ExtraMails
        <3>3. CASE x[1] = p
            <4>1. x[2] \in 1..Extra(p) \/ x[2] = Extra(p) + 1
                BY <1>6, <3>1, <3>3
            <4>2. x = <<p, x[2]>>
                BY <3>1, <3>3
            <4>3. QED
                BY <3>1, <3>3, <4>1, <4>2 DEF ExtraMails
        <3>4. QED
            BY <3>2, <3>3
    <2> HIDE DEF new
    <2>2. /\ IsFiniteSet(ExtraMails \cup {new})
          /\ Cardinality(ExtraMails \cup {new}) <= Cardinality(ExtraMails) + 1
          /\ Cardinality(ExtraMails \cup {new}) \in Nat
        BY <1>1, OneMore
    <2>3. /\ IsFiniteSet(ExtraMails') /\ Cardinality(ExtraMails') \in Nat
          /\ Cardinality(ExtraMails') <= Cardinality(ExtraMails) + 1
        BY <1>1, <2>1, <2>2, FS_Subset, FS_CardinalityType
    <2>4. QED
        BY <1>1, <1>2, <1>6, <2>3 DEF CostsExplained
<1>7. QED
    BY <1>4, <1>5, <1>6 DEF Costs

-----------------------------------------------------------------------------
(* The steps *)

\* What every step of p has to show.
Stepped(p) ==
    /\ FanoutTypeOK' /\ PublicationFit(p)' /\ Costs(p)
    /\ \A q \in Publications \ {p} : Same(q)

LEMMA SteppedKeeps ==
    ASSUME FanInv, NEW p \in Publications, Stepped(p)
    PROVE  FanInv'
<1>1. \A q \in Publications \ {p} :
          PublicationFit(q)' /\ (\A h : Lost(q, h)' <=> Lost(q, h)) /\ Extra(q)' = Extra(q)
    BY SameStays DEF FanInv, Stepped
<1>2. Extra(p) \in Nat /\ Extra(p)' \in Nat
    <2>1. Extra(p) \in Nat
        BY ExtraIs DEF FanInv
    <2>2. (FanoutTypeOK /\ PublicationFit(p) => Extra(p) \in Nat)'
        BY ExtraIs, PTL
    <2>3. QED
        BY <2>1, <2>2 DEF Stepped
<1>3. CostsExplained'
    BY <1>1, <1>2, CostsCount DEF FanInv, Stepped
<1>4. QED
    BY <1>1, <1>3 DEF FanInv, Stepped

LEMMA HeadIs ==
    ASSUME NEW h, NEW s, StepList(s, h), s # <<>>
    PROVE  /\ Head(s) \in Effects /\ Owner(Head(s)) = h /\ Tally(s, Head(s)) >= 1
           /\ Head(s) = "email-job" => s = <<"email-job">> /\ Tail(s) = <<>> /\ h = "notification"
<1>1. s \in Seq(Effects) /\ Len(s) <= 3
    BY DEF StepList
<1>2. Len(s) \in 1..3 /\ 1 \in DOMAIN s /\ Head(s) = s[1] /\ Head(s) \in Effects
    <2>1. Len(s) \in Nat /\ Len(s) # 0 /\ DOMAIN s = 1..Len(s)
        BY <1>1, LenProperties, EmptySeq
    <2>2. Head(s) = s[1] /\ Head(s) \in Effects
        BY <1>1, HeadTailProperties
    <2>3. QED
        BY <1>1, <2>1, <2>2
<1>3. Owner(Head(s)) = h /\ (Head(s) = "email-job" => Len(s) = 1)
    BY <1>2 DEF StepList
<1>4. Tally(s, Head(s)) >= 1
    BY <1>2 DEF Tally
<1>5. ASSUME Head(s) = "email-job" PROVE s = <<"email-job">> /\ Tail(s) = <<>> /\ h = "notification"
    <2>1. Len(s) = 1 /\ s[1] = "email-job"
        BY <1>2, <1>3, <1>5
    <2>2. s = <<"email-job">>
        BY <1>1, <2>1
    <2>3. h = "notification"
        BY <1>3, <1>5 DEF Owner
    <2>4. QED
        BY <2>2, <2>3
<1>6. QED
    BY <1>2, <1>3, <1>4, <1>5

\* A handler is not lost by a step that leaves its account.
LEMMA NotLost ==
    ASSUME NEW p, NEW h, fanState[p] # "new",
           \A e \in Effects : Owner(e) = h => Account(p, e)' = Account(p, e) /\ Owed(p, e)' = Owed(p, e),
           \/ fanSent'[p] # 0
           \/ fanEmail'[p].attempts = 0 /\ ~Ended(fanEmail'[p])
           \/ /\ fanSent[p] = 0
              /\ fanEmail[p].attempts > 0 \/ Ended(fanEmail[p])
    PROVE  Lost(p, h)' => Lost(p, h)
BY DEF Lost, Ended

LEMMA PublishStep ==
    ASSUME FanInv, NEW p \in Publications, PublishEvent(p)
    PROVE  Stepped(p)
<1>1. /\ fanState[p] = "new" /\ fanEvent[p] \in FanEvent
      /\ fanState' = [fanState EXCEPT ![p] = "running"]
      /\ fanTodo' = [fanTodo EXCEPT ![p] = StepsOf(fanEvent[p])]
      /\ UNCHANGED <<fanEvent, fanRejected, fanEffects, fanEmail, fanMail, fanSent, fanFaults>>
    BY DEF PublishEvent, FanInv, FanoutTypeOK
<1>2. /\ fanEffects[p] = NoEffects /\ fanEmail[p].state = "none" /\ fanEmail[p].attempts = 0
      /\ fanMail[p] = "idle" /\ fanSent[p] = 0
    BY <1>1 DEF FanInv, PublicationFit, FanoutTypeOK
<1>3. StepsOf(fanEvent[p]) \in [Handlers -> Seq(Effects)]
    BY <1>1, StepsAre DEF StepList, StepsOf
<1>4. FanoutTypeOK'
    BY <1>1, <1>3 DEF FanInv, FanoutTypeOK
<1>5. fanState'[p] = "running" /\ fanTodo'[p] = StepsOf(fanEvent[p])
    BY <1>1 DEF FanInv, FanoutTypeOK
<1>6. ASSUME NEW e \in Effects PROVE Account(p, e)' = Owed(p, e)'
    <2>1. fanEffects'[p][e] = 0 /\ Waits(p, e)' = 0
        BY <1>1, <1>2 DEF NoEffects, Waits
    <2>2. Tally(fanTodo'[p][Owner(e)], e) = Owed(p, e)' /\ Owed(p, e)' \in Nat
        BY <1>1, <1>5, TallyType DEF Owed
    <2>3. QED
        BY <2>1, <2>2 DEF Account
<1>7. PublicationFit(p)'
    <2>1. \A h \in Handlers : StepList(fanTodo'[p][h], h)
        BY <1>1, <1>5, StepsAre
    <2>2. \A e \in Effects : Account(p, e)' <= Owed(p, e)'
        BY <1>6, TallyType DEF Owed
    <2>3. QED
        BY <1>1, <1>2, <1>5, <2>1, <2>2 DEF PublicationFit
<1>8. Costs(p)
    <2>1. \A e \in Effects : ~(Account(p, e)' < Owed(p, e)')
        BY <1>6, TallyType DEF Owed
    <2>2. \A h \in Handlers : ~Lost(p, h)'
        BY <1>1, <1>2, <2>1 DEF Lost, Ended
    <2>3. Extra(p)' = 0 /\ Extra(p) = 0
        BY <1>1, <1>2 DEF Extra
    <2>4. QED
        BY <1>1, <2>2, <2>3 DEF Costs
<1>9. \A q \in Publications \ {p} : Same(q)
    BY <1>1 DEF Same, FanInv, FanoutTypeOK
<1>10. QED
    BY <1>4, <1>7, <1>8, <1>9 DEF Stepped

LEMMA ReturnStep ==
    ASSUME FanInv, NEW p \in Publications, PublishReturns(p)
    PROVE  Stepped(p)
<1>1. /\ fanState[p] = "running" /\ \A h \in Handlers : fanTodo[p][h] = <<>>
      /\ fanState' = [fanState EXCEPT ![p] = "returned"]
      /\ UNCHANGED <<fanEvent, fanTodo, fanRejected, fanEffects, fanEmail, fanMail, fanSent, fanFaults>>
    BY DEF PublishReturns
<1>2. FanoutTypeOK' /\ fanState'[p] = "returned"
    BY <1>1 DEF FanInv, FanoutTypeOK
<1>3. \A e : Account(p, e)' = Account(p, e) /\ Owed(p, e)' = Owed(p, e)
    BY <1>1 DEF Account, Owed, Waits
<1>4. PublicationFit(p)'
    BY <1>1, <1>2, <1>3 DEF FanInv, PublicationFit
<1>5. Costs(p)
    <2>1. \A h \in Handlers : Lost(p, h)' => Lost(p, h)
        BY <1>1, <1>2, <1>3 DEF Lost
    <2>2. Extra(p)' = Extra(p) /\ Extra(p) \in Nat
        BY <1>1, ExtraIs DEF Extra, FanInv
    <2>3. QED
        BY <1>1, <2>1, <2>2 DEF Costs
<1>6. \A q \in Publications \ {p} : Same(q)
    BY <1>1 DEF Same, FanInv, FanoutTypeOK
<1>7. QED
    BY <1>2, <1>4, <1>5, <1>6 DEF Stepped

LEMMA HandlerSteps ==
    ASSUME FanInv, NEW p \in Publications, NEW h \in Handlers, HandlerStep(p, h)
    PROVE  Stepped(p)
<1> DEFINE s == fanTodo[p][h]
           step == Head(s)
           inline == step = "email-job" /\ ~fanEvent[p].queued
<1>1. /\ fanState[p] = "running" /\ s # <<>> /\ ~Inline(p, h)
      /\ fanEffects' = [fanEffects EXCEPT ![p][step] = @ + 1]
      /\ fanEmail' = IF step # "email-job" THEN fanEmail
                     ELSE [fanEmail EXCEPT ![p] = IF inline THEN Taken(@) ELSE Added(@)]
      /\ fanMail' = IF inline THEN [fanMail EXCEPT ![p] = "send"] ELSE fanMail
      /\ fanTodo' = IF inline THEN fanTodo ELSE [fanTodo EXCEPT ![p][h] = Tail(@)]
      /\ UNCHANGED <<fanEvent, fanState, fanRejected, fanSent, fanFaults>>
    BY DEF HandlerStep, Pending
<1>2. FanoutTypeOK /\ PublicationFit(p)
    BY DEF FanInv
<1>3. /\ StepList(s, h) /\ step \in Effects /\ Owner(step) = h /\ Tally(s, step) >= 1
      /\ step = "email-job" => s = <<"email-job">> /\ Tail(s) = <<>> /\ h = "notification"
      /\ StepList(Tail(s), h) /\ Tail(s) \in Seq(Effects)
      /\ \A e : Tally(Tail(s), e) = Tally(s, e) - (IF step = e THEN 1 ELSE 0)
    <2>1. StepList(s, h)
        BY <1>2 DEF PublicationFit
    <2>2. s # <<>>
        BY <1>1
    <2> HIDE DEF s
    <2>3. /\ step \in Effects /\ Owner(step) = h /\ Tally(s, step) >= 1
          /\ step = "email-job" => s = <<"email-job">> /\ Tail(s) = <<>> /\ h = "notification"
        BY <2>1, <2>2, HeadIs
    <2>4. /\ StepList(Tail(s), h)
          /\ \A e : Tally(Tail(s), e) = Tally(s, e) - (IF step = e THEN 1 ELSE 0)
        BY <2>1, <2>2, TallyTail
    <2>5. Tail(s) \in Seq(Effects)
        BY <2>4 DEF StepList
    <2>6. QED
        BY <2>1, <2>3, <2>4, <2>5
<1>4. /\ fanEvent[p] \in FanEvent /\ fanEmail[p] \in JobRecord /\ fanMail[p] \in {"idle", "send", "record"}
      /\ fanSent[p] \in Nat /\ fanEmail \in [Publications -> JobRecord] /\ fanMail \in [Publications -> {"idle", "send", "record"}]
      /\ fanTodo \in [Publications -> [Handlers -> Seq(Effects)]]
      /\ fanEffects \in [Publications -> [Effects -> 0..2]]
    BY <1>2 DEF FanoutTypeOK
<1> HIDE DEF s, step
<1>5. ASSUME step = "email-job"
      PROVE  fanEmail[p].state = "none" /\ fanEmail[p].attempts = 0 /\ fanSent[p] = 0 /\ fanMail[p] = "idle"
    <2>1. h = "notification" /\ ~(fanEmail[p].state = "active" /\ ~fanEvent[p].queued)
        BY <1>1, <1>3, <1>5 DEF Inline
    <2>2. Tally(fanTodo[p]["notification"], "email-job") # 0
        BY <1>3, <1>5, <2>1 DEF s
    <2>3. QED
        BY <1>2, <1>4, <2>1, <2>2 DEF PublicationFit
<1>6. Waits(p, step) = 0
    BY <1>5 DEF Waits
<1>7. fanEffects[p][step] \in 0..1
    <2>1. Account(p, step) <= Owed(p, step) /\ Owed(p, step) <= 2
        <3>1. Account(p, step) <= Owed(p, step)
            BY <1>1, <1>2, <1>3 DEF PublicationFit
        <3>2. Owed(p, step) <= 2
            BY <1>3, <1>4, StepsAre DEF Owed
        <3>3. QED
            BY <3>1, <3>2
    <2>2. /\ fanEffects[p][step] \in 0..2 /\ Owed(p, step) \in 0..3
          /\ Account(p, step) = fanEffects[p][step] + Tally(s, step) - Waits(p, step)
        BY <1>2, <1>3, AccountType DEF s
    <2>3. Tally(s, step) \in 0..3
        BY TallyType
    <2>4. QED
        BY <1>3, <1>6, <2>1, <2>2, <2>3
<1>8. /\ fanEffects'[p][step] = fanEffects[p][step] + 1
      /\ \A e \in Effects \ {step} : fanEffects'[p][e] = fanEffects[p][e]
      /\ fanEffects' \in [Publications -> [Effects -> 0..2]]
    BY <1>1, <1>3, <1>4, <1>7
<1>9. \A q \in Publications \ {p} : Same(q)
    BY <1>1, <1>4 DEF Same
<1>10. CASE ~inline
    <2>1. /\ fanTodo'[p][h] = Tail(s)
          /\ \A g \in Handlers \ {h} : fanTodo'[p][g] = fanTodo[p][g]
          /\ fanTodo' \in [Publications -> [Handlers -> Seq(Effects)]]
          /\ fanMail' = fanMail
        BY <1>1, <1>3, <1>4, <1>10 DEF s
    <2>2. /\ step # "email-job" => fanEmail'[p] = fanEmail[p]
          /\ step = "email-job" => /\ fanEmail'[p].state = "waiting" /\ fanEmail'[p].attempts = 0
                                   /\ fanEvent[p].queued
          /\ fanEmail' \in [Publications -> JobRecord]
        <3>1. CASE step # "email-job"
            BY <1>1, <1>4, <3>1
        <3>2. CASE step = "email-job"
            <4>1. fanEmail' = [fanEmail EXCEPT ![p] = Added(@)] /\ fanEvent[p].queued
                BY <1>1, <1>10, <3>2
            <4>2. Added(fanEmail[p]) \in JobRecord /\ Added(fanEmail[p]).state = "waiting"
                  /\ Added(fanEmail[p]).attempts = 0
                BY <1>4, <1>5, <3>2 DEF Added, JobRecord, JobStates
            <4>3. QED
                BY <1>4, <3>2, <4>1, <4>2
        <3>3. QED
            BY <3>1, <3>2
    <2>3. FanoutTypeOK'
        BY <1>1, <1>2, <1>8, <2>1, <2>2 DEF FanoutTypeOK
    <2>4. \A e \in Effects : Waits(p, e)' = Waits(p, e)
        BY <1>1, <1>5, <2>2 DEF Waits
    <2>5. ASSUME NEW e \in Effects PROVE Account(p, e)' = Account(p, e) /\ Owed(p, e)' = Owed(p, e)
        <3>1. Owed(p, e)' = Owed(p, e)
            BY <1>1 DEF Owed
        <3>2. Account(p, e) = fanEffects[p][e] + Tally(fanTodo[p][Owner(e)], e) - Waits(p, e)
            BY DEF Account
        <3>3. Account(p, e)' = fanEffects'[p][e] + Tally(fanTodo'[p][Owner(e)], e) - Waits(p, e)
            BY <2>4 DEF Account
        <3>4. fanEffects[p][e] \in Nat /\ Waits(p, e) \in Nat /\ Tally(fanTodo[p][Owner(e)], e) \in Nat
            BY <1>2, AccountType
        <3>5. CASE e = step
            <4>1. Tally(fanTodo'[p][Owner(e)], e) = Tally(fanTodo[p][Owner(e)], e) - 1
                BY <1>3, <2>1, <3>5 DEF s
            <4>2. QED
                BY <1>8, <3>1, <3>2, <3>3, <3>4, <3>5, <4>1
        <3>6. CASE e # step /\ Owner(e) = h
            <4>1. Tally(fanTodo'[p][Owner(e)], e) = Tally(fanTodo[p][Owner(e)], e)
                <5>1. Tally(Tail(s), e) = Tally(s, e) - 0
                    BY <1>3, <3>6
                <5>2. QED
                    BY <2>1, <3>6, <5>1, TallyType DEF s
            <4>2. QED
                BY <1>8, <3>1, <3>2, <3>3, <3>4, <3>6, <4>1
        <3>7. CASE Owner(e) # h
            <4>1. Tally(fanTodo'[p][Owner(e)], e) = Tally(fanTodo[p][Owner(e)], e) /\ e # step
                BY <1>3, <2>1, <3>7, OwnersAre
            <4>2. QED
                BY <1>8, <3>1, <3>2, <3>3, <3>4, <3>7, <4>1
        <3>8. QED
            BY <3>5, <3>6, <3>7
    <2>6. PublicationFit(p)'
        <3>1. \A g \in Handlers : StepList(fanTodo'[p][g], g)
            BY <1>2, <1>3, <2>1 DEF PublicationFit
        <3>2. \A e \in Effects : Account(p, e)' <= Owed(p, e)'
            BY <1>1, <1>2, <2>5 DEF PublicationFit
        <3>3. Tally(fanTodo'[p]["notification"], "email-job") = 0 \/ fanEmail'[p] = fanEmail[p]
            BY <1>3, <2>1, <2>2, TallyType
        <3>4. CASE step = "email-job"
            <4>1. Tally(fanTodo'[p]["notification"], "email-job") = 0
                BY <1>3, <2>1, <3>4, TallyType
            <4>2. 0 < JobAttempts
                BY JobQueueAssumption
            <4>3. QED
                BY <1>1, <1>5, <2>1, <2>2, <3>1, <3>2, <3>4, <4>1, <4>2 DEF PublicationFit
        <3>5. CASE step # "email-job"
            <4>1. /\ Tally(fanTodo[p]["notification"], "email-job") = 0 =>
                        Tally(fanTodo'[p]["notification"], "email-job") = 0
                  /\ fanEmail'[p].state = "active" /\ ~fanEvent'[p].queued =>
                        fanTodo'[p]["notification"] = <<"email-job">>
                <5>1. CASE h = "notification"
                    <6>1. ~(fanEmail'[p].state = "active" /\ ~fanEvent'[p].queued)
                        BY <1>1, <2>2, <3>5, <5>1 DEF Inline
                    <6>2. Tally(Tail(s), "email-job") = Tally(s, "email-job") - 0
                        BY <1>3, <3>5
                    <6>3. QED
                        BY <2>1, <5>1, <6>1, <6>2 DEF s
                <5>2. CASE h # "notification"
                    <6>1. fanTodo'[p]["notification"] = fanTodo[p]["notification"]
                        BY <2>1, <5>2 DEF Handlers
                    <6>2. QED
                        BY <1>1, <1>2, <2>2, <3>5, <6>1 DEF PublicationFit
                <5>3. QED
                    BY <5>1, <5>2
            <4>2. fanEmail'[p] = fanEmail[p]
                BY <2>2, <3>5
            <4>3. QED
                BY <1>1, <1>2, <2>1, <3>1, <3>2, <4>1, <4>2 DEF PublicationFit
        <3>6. QED
            BY <3>4, <3>5
    <2>7. Costs(p)
        <3>1. \A g \in Handlers : Lost(p, g)' => Lost(p, g)
            <4>1. \/ fanEmail'[p].attempts = 0 /\ ~Ended(fanEmail'[p])
                  \/ fanEmail'[p] = fanEmail[p] /\ fanSent'[p] = fanSent[p]
                BY <1>1, <2>2 DEF Ended
            <4>2. QED
                BY <1>1, <2>5, <4>1 DEF Lost
        <3>2. Extra(p)' = Extra(p) /\ Extra(p) \in Nat
            <4>1. Extra(p) \in Nat
                BY <1>2, ExtraIs
            <4>2. Extra(p)' = Extra(p)
                BY <1>1, <1>5, <2>1, <2>2 DEF Extra
            <4>3. QED
                BY <4>1, <4>2
        <3>3. QED
            BY <1>1, <3>1, <3>2 DEF Costs
    <2>8. QED
        BY <1>9, <2>3, <2>6, <2>7 DEF Stepped
<1>11. CASE inline
    <2>1. /\ step = "email-job" /\ h = "notification" /\ s = <<"email-job">> /\ ~fanEvent[p].queued
          /\ fanTodo' = fanTodo /\ fanMail'[p] = "send"
          /\ fanMail' \in [Publications -> {"idle", "send", "record"}]
        BY <1>1, <1>3, <1>4, <1>11
    <2>2. fanEmail'[p].state = "active" /\ fanEmail'[p].attempts = 0 /\ fanEmail' \in [Publications -> JobRecord]
        <3>1. fanEmail' = [fanEmail EXCEPT ![p] = Taken(@)]
            BY <1>1, <1>11, <2>1
        <3>2. /\ Taken(fanEmail[p]) \in JobRecord /\ Taken(fanEmail[p]).state = "active"
              /\ Taken(fanEmail[p]).attempts = 0
            BY <1>4, <1>5, <2>1 DEF Taken, JobRecord, JobStates
        <3>3. QED
            BY <1>4, <3>1, <3>2
    <2>3. FanoutTypeOK'
        BY <1>1, <1>2, <1>8, <2>1, <2>2 DEF FanoutTypeOK
    <2>4. ASSUME NEW e \in Effects PROVE Account(p, e)' = Account(p, e) /\ Owed(p, e)' = Owed(p, e)
        <3>1. Owed(p, e)' = Owed(p, e)
            BY <1>1 DEF Owed
        <3>2. Account(p, e) = fanEffects[p][e] + Tally(fanTodo[p][Owner(e)], e) - Waits(p, e)
            BY DEF Account
        <3>3. Account(p, e)' = fanEffects'[p][e] + Tally(fanTodo[p][Owner(e)], e) - Waits(p, e)'
            BY <2>1 DEF Account
        <3>4. fanEffects[p][e] \in Nat /\ Tally(fanTodo[p][Owner(e)], e) \in Nat
            BY <1>2, AccountType
        <3>5. CASE e = step
            <4>1. Waits(p, e) = 0 /\ Waits(p, e)' = 1
                BY <1>1, <1>6, <2>1, <2>2, <3>5 DEF Waits
            <4>2. QED
                BY <1>8, <3>1, <3>2, <3>3, <3>4, <3>5, <4>1
        <3>6. CASE e # step
            <4>1. Waits(p, e) = 0 /\ Waits(p, e)' = 0
                BY <2>1, <3>6 DEF Waits
            <4>2. QED
                BY <1>8, <3>1, <3>2, <3>3, <3>4, <3>6, <4>1
        <3>7. QED
            BY <3>5, <3>6
    <2>5. PublicationFit(p)'
        <3>1. \A e \in Effects : Account(p, e)' <= Owed(p, e)'
            BY <1>1, <1>2, <2>4 DEF PublicationFit
        <3>2. \A g \in Handlers : StepList(fanTodo'[p][g], g)
            BY <1>2, <2>1 DEF PublicationFit
        <3>3. 0 < JobAttempts
            BY JobQueueAssumption
        <3>4. fanTodo'[p]["notification"] = <<"email-job">>
            BY <2>1 DEF s
        <3>5. QED
            BY <1>1, <1>5, <2>1, <2>2, <3>1, <3>2, <3>3, <3>4 DEF PublicationFit
    <2>6. Costs(p)
        <3>1. \A g \in Handlers : Lost(p, g)' => Lost(p, g)
            BY <1>1, <2>2, <2>4 DEF Lost, Ended
        <3>2. Extra(p)' = 0 /\ Extra(p) = 0
            BY <1>1, <1>5, <2>1, <2>2 DEF Extra
        <3>3. QED
            BY <1>1, <3>1, <3>2 DEF Costs
    <2>7. QED
        BY <1>9, <2>3, <2>5, <2>6 DEF Stepped
<1>12. QED
    BY <1>10, <1>11

\* A step of the email job that leaves the handlers' lists, and whom they wait for.
LEMMA EmailOnly ==
    ASSUME NEW p, UNCHANGED <<fanEvent, fanState, fanTodo, fanEffects>>,
           fanEmail'[p].state = "active" /\ ~fanEvent[p].queued <=>
              fanEmail[p].state = "active" /\ ~fanEvent[p].queued
    PROVE  \A e : Account(p, e)' = Account(p, e) /\ Owed(p, e)' = Owed(p, e)
<1>1. \A e : Waits(p, e)' = Waits(p, e) /\ Owed(p, e)' = Owed(p, e)
    BY DEF Waits, Owed
<1>2. QED
    BY <1>1 DEF Account

LEMMA TakeEmailSteps ==
    ASSUME FanInv, NEW p \in Publications, TakeEmailJob(p)
    PROVE  Stepped(p)
<1>1. /\ fanEmail[p].state = "waiting"
      /\ fanEmail' = [fanEmail EXCEPT ![p] = Taken(@)]
      /\ fanMail' = [fanMail EXCEPT ![p] = "send"]
      /\ UNCHANGED <<fanEvent, fanState, fanTodo, fanRejected, fanEffects, fanSent, fanFaults>>
    BY DEF TakeEmailJob
<1>2. /\ FanoutTypeOK /\ PublicationFit(p) /\ fanEmail \in [Publications -> JobRecord]
      /\ fanMail \in [Publications -> {"idle", "send", "record"}]
    BY DEF FanInv, FanoutTypeOK
<1>3. fanEvent[p].queued /\ fanEmail[p].attempts < JobAttempts /\ fanMail[p] = "idle"
    BY <1>1, <1>2 DEF PublicationFit, FanoutTypeOK
<1>4. fanEmail'[p].state = "active" /\ fanEmail'[p].attempts = fanEmail[p].attempts /\ fanMail'[p] = "send"
    BY <1>1, <1>2 DEF Taken, JobRecord
<1>5. FanoutTypeOK'
    <2>1. Taken(fanEmail[p]) \in JobRecord
        BY <1>2 DEF Taken, JobRecord, JobStates
    <2>2. QED
        BY <1>1, <1>2, <2>1 DEF FanoutTypeOK
<1>6. \A e : Account(p, e)' = Account(p, e) /\ Owed(p, e)' = Owed(p, e)
    BY <1>1, <1>3, EmailOnly
<1>7. PublicationFit(p)'
    BY <1>1, <1>2, <1>3, <1>4, <1>6 DEF PublicationFit
<1>8. Costs(p)
    <2>1. \A h \in Handlers : Lost(p, h)' => Lost(p, h)
        BY <1>1, <1>4, <1>6 DEF Lost, Ended
    <2>2. Extra(p)' = Extra(p) /\ Extra(p) \in Nat
        BY <1>1, <1>2, <1>3, <1>4, ExtraIs DEF Extra
    <2>3. QED
        BY <1>1, <2>1, <2>2 DEF Costs
<1>9. \A q \in Publications \ {p} : Same(q)
    BY <1>1, <1>2 DEF Same
<1>10. QED
    BY <1>5, <1>7, <1>8, <1>9 DEF Stepped

LEMMA SendSteps ==
    ASSUME FanInv, NEW p \in Publications, SendMail(p)
    PROVE  Stepped(p)
<1>1. /\ fanMail[p] = "send"
      /\ fanSent' = [fanSent EXCEPT ![p] = @ + 1]
      /\ fanMail' = [fanMail EXCEPT ![p] = "record"]
      /\ UNCHANGED <<fanEvent, fanState, fanTodo, fanRejected, fanEffects, fanEmail, fanFaults>>
    BY DEF SendMail
<1>2. /\ FanoutTypeOK /\ PublicationFit(p) /\ fanSent \in [Publications -> Nat]
      /\ fanMail \in [Publications -> {"idle", "send", "record"}]
    BY DEF FanInv, FanoutTypeOK
<1>3. fanEmail[p].state = "active"
    BY <1>1, <1>2 DEF PublicationFit
<1>4. fanSent'[p] = fanSent[p] + 1 /\ fanSent[p] \in Nat /\ fanMail'[p] = "record"
    BY <1>1, <1>2
<1>5. FanoutTypeOK'
    BY <1>1, <1>2, <1>4 DEF FanoutTypeOK
<1>6. \A e : Account(p, e)' = Account(p, e) /\ Owed(p, e)' = Owed(p, e)
    BY <1>1, EmailOnly
<1>7. PublicationFit(p)'
    BY <1>1, <1>2, <1>3, <1>4, <1>6 DEF PublicationFit
<1>8. Costs(p)
    <2>1. \A h \in Handlers : Lost(p, h)' => Lost(p, h)
        BY <1>1, <1>4, <1>6 DEF Lost
    <2>2. Extra(p) = fanSent[p]
        BY <1>1, <1>2, <1>3, ExtraIs
    <2>3. Extra(p)' = fanSent'[p] - 1
        BY <1>4 DEF Extra
    <2>4. QED
        BY <1>1, <1>4, <2>1, <2>2, <2>3 DEF Costs
<1>9. \A q \in Publications \ {p} : Same(q)
    BY <1>1, <1>2 DEF Same
<1>10. QED
    BY <1>5, <1>7, <1>8, <1>9 DEF Stepped

LEMMA OneEmailJob ==
    /\ StepList(<<"email-job">>, "notification")
    /\ Tally(<<"email-job">>, "email-job") = 1
    /\ \A e : e # "email-job" => Tally(<<"email-job">>, e) = 0
    /\ \A h : StepList(<<>>, h) /\ \A e : Tally(<<>>, e) = 0
BY DEF StepList, Tally, Effects, Owner

\* The handler that waits gets its answer: the job it has added is off its list.
LEMMA WaitEnds ==
    ASSUME FanoutTypeOK, NEW p \in Publications, ~fanEvent[p].queued, fanEmail[p].state = "active",
           fanTodo[p]["notification"] = <<"email-job">>,
           fanTodo' = [fanTodo EXCEPT ![p]["notification"] = <<>>],
           fanEmail'[p].state # "active",
           UNCHANGED <<fanEvent, fanState, fanEffects>>
    PROVE  /\ \A e \in Effects : Account(p, e)' = Account(p, e) /\ Owed(p, e)' = Owed(p, e)
           /\ fanTodo'[p]["notification"] = <<>>
           /\ \A h \in Handlers \ {"notification"} : fanTodo'[p][h] = fanTodo[p][h]
           /\ fanTodo' \in [Publications -> [Handlers -> Seq(Effects)]]
<1>1. /\ fanTodo'[p]["notification"] = <<>>
      /\ \A h \in Handlers \ {"notification"} : fanTodo'[p][h] = fanTodo[p][h]
      /\ fanTodo' \in [Publications -> [Handlers -> Seq(Effects)]]
    BY DEF FanoutTypeOK, Handlers
<1>2. ASSUME NEW e \in Effects PROVE Account(p, e)' = Account(p, e)
    <2>1. Account(p, e) = fanEffects[p][e] + Tally(fanTodo[p][Owner(e)], e) - Waits(p, e)
        BY DEF Account
    <2>2. Account(p, e)' = fanEffects[p][e] + Tally(fanTodo'[p][Owner(e)], e) - Waits(p, e)'
        BY DEF Account
    <2>3. fanEffects[p][e] \in Nat /\ Tally(fanTodo[p][Owner(e)], e) \in Nat
        BY AccountType
    <2>4. Waits(p, e)' = 0
        BY DEF Waits
    <2>5. CASE e = "email-job"
        <3>1. Owner(e) = "notification" /\ Waits(p, e) = 1
            BY <2>5 DEF Owner, Waits
        <3>2. Tally(fanTodo[p][Owner(e)], e) = 1 /\ Tally(fanTodo'[p][Owner(e)], e) = 0
            BY <1>1, <2>5, <3>1, OneEmailJob
        <3>3. QED
            BY <2>1, <2>2, <2>3, <2>4, <3>1, <3>2
    <2>6. CASE e # "email-job"
        <3>1. Waits(p, e) = 0
            BY <2>6 DEF Waits
        <3>2. Tally(fanTodo'[p][Owner(e)], e) = Tally(fanTodo[p][Owner(e)], e)
            <4>1. CASE Owner(e) = "notification"
                <5>1. Tally(fanTodo[p]["notification"], e) = 0
                    BY <2>6, OneEmailJob
                <5>2. Tally(fanTodo'[p]["notification"], e) = 0
                    BY <1>1, OneEmailJob
                <5>3. QED
                    BY <4>1, <5>1, <5>2
            <4>2. CASE Owner(e) # "notification"
                <5>1. Owner(e) \in Handlers
                    BY OwnersAre
                <5>2. QED
                    BY <1>1, <4>2, <5>1
            <4>3. QED
                BY <4>1, <4>2
        <3>3. QED
            BY <2>1, <2>2, <2>3, <2>4, <3>1, <3>2
    <2>7. QED
        BY <2>5, <2>6
<1>3. \A e \in Effects : Owed(p, e)' = Owed(p, e)
    BY DEF Owed
<1>4. QED
    BY <1>1, <1>2, <1>3

LEMMA RecordSteps ==
    ASSUME FanInv, NEW p \in Publications, RecordMail(p)
    PROVE  Stepped(p)
<1>1. /\ fanMail[p] = "record"
      /\ fanMail' = [fanMail EXCEPT ![p] = "idle"]
      /\ fanEmail' = [fanEmail EXCEPT ![p] = Succeeded(@)]
      /\ fanTodo' = IF fanEvent[p].queued THEN fanTodo ELSE [fanTodo EXCEPT ![p]["notification"] = Tail(@)]
      /\ UNCHANGED <<fanEvent, fanState, fanRejected, fanEffects, fanSent, fanFaults>>
    BY DEF RecordMail
<1>2. /\ FanoutTypeOK /\ PublicationFit(p) /\ fanEmail \in [Publications -> JobRecord]
      /\ fanMail \in [Publications -> {"idle", "send", "record"}]
    BY DEF FanInv, FanoutTypeOK
<1>3. fanEmail[p].state = "active" /\ fanSent[p] > 0
    BY <1>1, <1>2 DEF PublicationFit
<1>4. fanEmail'[p].state = "completed" /\ fanMail'[p] = "idle" /\ fanEmail' \in [Publications -> JobRecord]
    <2>1. Succeeded(fanEmail[p]) \in JobRecord /\ Succeeded(fanEmail[p]).state = "completed"
        BY <1>2 DEF Succeeded, JobRecord, JobStates
    <2>2. QED
        BY <1>1, <1>2, <2>1
<1>5. /\ \A e \in Effects : Account(p, e)' = Account(p, e) /\ Owed(p, e)' = Owed(p, e)
      /\ \A h \in Handlers : StepList(fanTodo'[p][h], h)
      /\ \A h \in Handlers : fanTodo[p][h] = <<>> => fanTodo'[p][h] = <<>>
      /\ Tally(fanTodo'[p]["notification"], "email-job") = 0
      /\ fanTodo' \in [Publications -> [Handlers -> Seq(Effects)]]
    <2>1. CASE fanEvent[p].queued
        <3>1. \A e \in Effects : Account(p, e)' = Account(p, e) /\ Owed(p, e)' = Owed(p, e)
            BY <1>1, <2>1, EmailOnly
        <3>2. QED
            BY <1>1, <1>2, <1>3, <2>1, <3>1 DEF PublicationFit, FanoutTypeOK
    <2>2. CASE ~fanEvent[p].queued
        <3>1. fanTodo[p]["notification"] = <<"email-job">>
            BY <1>2, <1>3, <2>2 DEF PublicationFit
        <3>2. fanTodo' = [fanTodo EXCEPT ![p]["notification"] = <<>>]
            <4>1. Tail(fanTodo[p]["notification"]) = <<>>
                BY <3>1
            <4>2. QED
                BY <1>1, <2>2, <4>1
        <3>3. /\ \A e \in Effects : Account(p, e)' = Account(p, e) /\ Owed(p, e)' = Owed(p, e)
              /\ fanTodo'[p]["notification"] = <<>>
              /\ \A h \in Handlers \ {"notification"} : fanTodo'[p][h] = fanTodo[p][h]
              /\ fanTodo' \in [Publications -> [Handlers -> Seq(Effects)]]
            BY <1>1, <1>2, <1>3, <1>4, <2>2, <3>1, <3>2, WaitEnds
        <3>4. \A h \in Handlers : StepList(fanTodo[p][h], h)
            BY <1>2 DEF PublicationFit
        <3>5. QED
            BY <3>3, <3>4, OneEmailJob
    <2>3. QED
        BY <2>1, <2>2
<1>6. FanoutTypeOK'
    BY <1>1, <1>2, <1>4, <1>5 DEF FanoutTypeOK
<1>7. PublicationFit(p)'
    BY <1>1, <1>2, <1>3, <1>4, <1>5 DEF PublicationFit
<1>8. Costs(p)
    <2>1. \A h \in Handlers : Lost(p, h)' => Lost(p, h)
        BY <1>1, <1>3, <1>5 DEF Lost
    <2>2. Extra(p)' = Extra(p) /\ Extra(p) \in Nat
        BY <1>1, <1>2, <1>4, ExtraIs DEF Extra
    <2>3. QED
        BY <1>1, <2>1, <2>2 DEF Costs
<1>9. \A q \in Publications \ {p} : Same(q)
    BY <1>1, <1>2 DEF Same, FanoutTypeOK
<1>10. QED
    BY <1>6, <1>7, <1>8, <1>9 DEF Stepped

\* A job of which the listener learns, or fails to tell.
LEMMA EndSteps ==
    ASSUME FanInv, NEW p \in Publications, NEW job \in JobRecord,
           fanEmail[p].state = "failed", job.state \in {"dead", "unreported"},
           fanEmail' = [fanEmail EXCEPT ![p] = job],
           fanFaults' \in {fanFaults, fanFaults + 1}, fanFaults' <= MaxFanFaults,
           UNCHANGED <<fanEvent, fanState, fanTodo, fanRejected, fanEffects, fanMail, fanSent>>
    PROVE  Stepped(p)
<1>2. /\ FanoutTypeOK /\ PublicationFit(p) /\ fanEmail \in [Publications -> JobRecord]
      /\ fanEmail'[p] = job
    BY DEF FanInv, FanoutTypeOK
<1>3. fanEvent[p].queued /\ fanEmail[p].attempts > 0 /\ fanMail[p] = "idle"
    BY <1>2 DEF PublicationFit, FanoutTypeOK
<1>4. FanoutTypeOK'
    BY <1>2 DEF FanoutTypeOK
<1>5. \A e : Account(p, e)' = Account(p, e) /\ Owed(p, e)' = Owed(p, e)
    BY <1>3, EmailOnly
<1>6. PublicationFit(p)'
    BY <1>2, <1>3, <1>5 DEF PublicationFit
<1>7. Costs(p)
    <2>1. \A h \in Handlers : Lost(p, h)' => Lost(p, h)
        BY <1>2, <1>3, <1>5 DEF Lost
    <2>2. Extra(p)' = Extra(p) /\ Extra(p) \in Nat
        BY <1>2, <1>3, ExtraIs DEF Extra
    <2>3. QED
        BY <2>1, <2>2 DEF Costs
<1>8. \A q \in Publications \ {p} : Same(q)
    BY <1>2 DEF Same
<1>9. QED
    BY <1>4, <1>6, <1>7, <1>8 DEF Stepped

-----------------------------------------------------------------------------
(* The faults *)

\* A handler that skips a step, or gives up, owes its effects; nobody else does.
LEMMA SkipSteps ==
    ASSUME FanInv, NEW p \in Publications, NEW h \in Handlers, NEW rest, NEW rejected \in SUBSET Handlers,
           fanTodo[p][h] # <<>>, fanState[p] = "running", ~Inline(p, h),
           rest \in {<<>>, Tail(fanTodo[p][h])},
           fanTodo' = [fanTodo EXCEPT ![p][h] = rest],
           fanRejected' = [fanRejected EXCEPT ![p] = rejected],
           fanFaults' = fanFaults + 1, fanFaults < MaxFanFaults,
           UNCHANGED <<fanEvent, fanState, fanEffects, fanEmail, fanMail, fanSent>>
    PROVE  Stepped(p)
<1>1. FanoutTypeOK /\ PublicationFit(p)
    BY DEF FanInv
<1>2. /\ StepList(rest, h) /\ rest \in Seq(Effects)
      /\ \A e : Tally(rest, e) \in 0..3 /\ Tally(rest, e) <= Tally(fanTodo[p][h], e)
    <2> DEFINE s == fanTodo[p][h]
    <2>1. StepList(s, h) /\ s # <<>>
        BY <1>1 DEF PublicationFit
    <2> HIDE DEF s
    <2>2. StepList(Tail(s), h) /\ \A e : Tally(Tail(s), e) = Tally(s, e) - (IF Head(s) = e THEN 1 ELSE 0)
        BY <2>1, TallyTail
    <2>3. ASSUME NEW e PROVE Tally(Tail(s), e) <= Tally(s, e) /\ Tally(<<>>, e) <= Tally(s, e)
        <3>1. Tally(s, e) \in 0..3 /\ Tally(<<>>, e) = 0
            BY TallyType
        <3>2. Tally(Tail(s), e) = Tally(s, e) - 1 \/ Tally(Tail(s), e) = Tally(s, e) - 0
            BY <2>2
        <3>3. QED
            BY <3>1, <3>2
    <2>4. rest \in {<<>>, Tail(s)}
        BY DEF s
    <2>5. StepList(rest, h)
        BY <2>2, <2>4, OneEmailJob
    <2>6. \A e : Tally(rest, e) <= Tally(s, e)
        BY <2>3, <2>4
    <2>7. QED
        BY <2>5, <2>6, TallyType DEF s, StepList
<1>3. /\ fanTodo'[p][h] = rest
      /\ \A g \in Handlers \ {h} : fanTodo'[p][g] = fanTodo[p][g]
      /\ fanTodo' \in [Publications -> [Handlers -> Seq(Effects)]]
    BY <1>1, <1>2 DEF FanoutTypeOK
<1>4. FanoutTypeOK'
    <2>1. fanFaults' \in 0..MaxFanFaults
        BY <1>1, FanoutAssumption DEF FanoutTypeOK
    <2>2. QED
        BY <1>1, <1>3, <2>1 DEF FanoutTypeOK
<1>5. ASSUME NEW e \in Effects
      PROVE  /\ Account(p, e)' \in Int /\ Account(p, e)' <= Account(p, e)
             /\ Owner(e) # h => Account(p, e)' = Account(p, e)
             /\ Owed(p, e)' = Owed(p, e)
    <2>1. Account(p, e) = fanEffects[p][e] + Tally(fanTodo[p][Owner(e)], e) - Waits(p, e)
        BY DEF Account
    <2>2. Waits(p, e)' = Waits(p, e) /\ Owed(p, e)' = Owed(p, e)
        BY DEF Waits, Owed
    <2>3. Account(p, e)' = fanEffects[p][e] + Tally(fanTodo'[p][Owner(e)], e) - Waits(p, e)
        BY <2>2 DEF Account
    <2>4. fanEffects[p][e] \in Nat /\ Tally(fanTodo[p][Owner(e)], e) \in Nat /\ Waits(p, e) \in {0, 1}
        BY <1>1, AccountType
    <2>5. Tally(fanTodo'[p][Owner(e)], e) \in 0..3
        BY TallyType
    <2>6. CASE Owner(e) = h
        <3>1. Tally(fanTodo'[p][Owner(e)], e) <= Tally(fanTodo[p][Owner(e)], e)
            BY <1>2, <1>3, <2>6
        <3>2. QED
            BY <2>1, <2>2, <2>3, <2>4, <2>5, <2>6, <3>1
    <2>7. CASE Owner(e) # h
        <3>1. Tally(fanTodo'[p][Owner(e)], e) = Tally(fanTodo[p][Owner(e)], e)
            BY <1>3, <2>7, OwnersAre
        <3>2. QED
            BY <2>1, <2>2, <2>3, <2>4, <2>5, <2>7, <3>1
    <2>8. QED
        BY <2>6, <2>7
<1>6. PublicationFit(p)'
    <2>1. \A g \in Handlers : StepList(fanTodo'[p][g], g)
        BY <1>1, <1>2, <1>3 DEF PublicationFit
    <2>2. \A e \in Effects : Account(p, e)' <= Owed(p, e)'
        <3> SUFFICES ASSUME NEW e \in Effects PROVE Account(p, e)' <= Owed(p, e)'
            OBVIOUS
        <3>1. Account(p, e) <= Owed(p, e) /\ Account(p, e) \in Int /\ Owed(p, e) \in Int
            BY <1>1, AccountType DEF PublicationFit
        <3>2. QED
            BY <1>5, <3>1
    <2>3. /\ Tally(fanTodo[p]["notification"], "email-job") = 0 =>
                Tally(fanTodo'[p]["notification"], "email-job") = 0
          /\ fanEmail[p].state = "active" /\ ~fanEvent[p].queued =>
                fanTodo'[p]["notification"] = fanTodo[p]["notification"]
        <3>1. CASE h = "notification"
            <4>1. ~(fanEmail[p].state = "active" /\ ~fanEvent[p].queued)
                BY <3>1 DEF Inline
            <4>2. Tally(rest, "email-job") \in 0..3 /\ Tally(rest, "email-job") <= Tally(fanTodo[p][h], "email-job")
                BY <1>2
            <4>3. QED
                BY <1>3, <3>1, <4>1, <4>2
        <3>2. CASE h # "notification"
            BY <1>3, <3>2 DEF Handlers
        <3>3. QED
            BY <3>1, <3>2
    <2>4. QED
        BY <1>1, <2>1, <2>2, <2>3 DEF PublicationFit
<1>7. Costs(p)
    <2>1. \A g \in Handlers \ {h} : Lost(p, g)' => Lost(p, g)
        BY <1>5 DEF Lost
    <2>2. Extra(p)' = Extra(p) /\ Extra(p) \in Nat
        BY <1>1, ExtraIs DEF Extra
    <2>3. QED
        BY <2>1, <2>2 DEF Costs
<1>8. \A q \in Publications \ {p} : Same(q)
    BY <1>1 DEF Same, FanoutTypeOK
<1>9. QED
    BY <1>4, <1>6, <1>7, <1>8 DEF Stepped

LEMMA CallFailsSteps ==
    ASSUME FanInv, NEW p \in Publications, NEW h \in Handlers, HandlerCallFails(p, h)
    PROVE  Stepped(p)
<1>1. fanTodo[p][h] # <<>> /\ fanState[p] = "running" /\ ~Inline(p, h)
    BY DEF HandlerCallFails, Pending
<1>2. /\ fanFaults' = fanFaults + 1 /\ fanFaults < MaxFanFaults
      /\ UNCHANGED <<fanEvent, fanState, fanEffects, fanEmail, fanMail, fanSent>>
    BY DEF HandlerCallFails, FanFault
<1>3. fanRejected[p] \in SUBSET Handlers /\ fanRejected \in [Publications -> SUBSET Handlers]
    BY DEF FanInv, FanoutTypeOK
<1>4. CASE h = "audit-log"
    <2>1. /\ fanTodo' = [fanTodo EXCEPT ![p][h] = Tail(fanTodo[p][h])]
          /\ fanRejected' = [fanRejected EXCEPT ![p] = fanRejected[p]]
        BY <1>3, <1>4 DEF HandlerCallFails, FanInv, FanoutTypeOK
    <2>2. QED
        BY <1>1, <1>2, <1>3, <2>1, SkipSteps
<1>5. CASE h # "audit-log"
    <2>1. /\ fanTodo' = [fanTodo EXCEPT ![p][h] = <<>>]
          /\ fanRejected' = [fanRejected EXCEPT ![p] = fanRejected[p] \cup {h}]
          /\ fanRejected[p] \cup {h} \in SUBSET Handlers
        BY <1>3, <1>5 DEF HandlerCallFails, Reject
    <2>2. QED
        BY <1>1, <1>2, <2>1, SkipSteps
<1>6. QED
    BY <1>4, <1>5

\* An attempt on the email fails, is given back, or ends the handler that waits.
LEMMA AttemptEndsSteps ==
    ASSUME FanInv, NEW p \in Publications, NEW job \in JobRecord, NEW rejected \in SUBSET Handlers,
           fanMail[p] # "idle",
           fanMail' = [fanMail EXCEPT ![p] = "idle"],
           fanEmail' = [fanEmail EXCEPT ![p] = job],
           fanRejected' = [fanRejected EXCEPT ![p] = rejected],
           fanTodo' = IF fanEvent[p].queued THEN fanTodo ELSE [fanTodo EXCEPT ![p]["notification"] = <<>>],
           \/ /\ fanEvent[p].queued /\ job.state \in {"waiting", "failed"}
              /\ job.attempts = fanEmail[p].attempts + 1
              /\ job.state = "waiting" => job.attempts < JobAttempts
           \/ /\ fanEvent[p].queued /\ job.state \in {"waiting", "dropped"}
              /\ job.attempts = fanEmail[p].attempts
           \/ ~fanEvent[p].queued /\ job.state = "dead",
           fanFaults' = fanFaults + 1, fanFaults < MaxFanFaults,
           UNCHANGED <<fanEvent, fanState, fanEffects, fanSent>>
    PROVE  Stepped(p)
<1>1. FanoutTypeOK /\ PublicationFit(p) /\ fanEmail[p] \in JobRecord /\ fanSent[p] \in Nat
    BY DEF FanInv, FanoutTypeOK
<1>2. /\ fanEmail[p].state = "active" /\ fanEmail[p].attempts < JobAttempts
      /\ fanMail[p] \in {"send", "record"}
    BY <1>1 DEF PublicationFit, FanoutTypeOK
<1>3. fanEmail'[p] = job /\ fanMail'[p] = "idle" /\ fanEmail[p].attempts \in Nat /\ job.attempts \in Nat
    BY <1>1 DEF FanoutTypeOK, JobRecord
<1>4. /\ \A e \in Effects : Account(p, e)' = Account(p, e) /\ Owed(p, e)' = Owed(p, e)
      /\ \A h \in Handlers : StepList(fanTodo'[p][h], h)
      /\ \A h \in Handlers : fanTodo[p][h] = <<>> => fanTodo'[p][h] = <<>>
      /\ Tally(fanTodo'[p]["notification"], "email-job") = 0
      /\ fanTodo' \in [Publications -> [Handlers -> Seq(Effects)]]
    <2>1. CASE fanEvent[p].queued
        <3>1. \A e \in Effects : Account(p, e)' = Account(p, e) /\ Owed(p, e)' = Owed(p, e)
            BY <2>1, EmailOnly
        <3>2. QED
            BY <1>1, <1>2, <2>1, <3>1 DEF PublicationFit, FanoutTypeOK
    <2>2. CASE ~fanEvent[p].queued
        <3>1. fanTodo[p]["notification"] = <<"email-job">>
            BY <1>1, <1>2, <2>2 DEF PublicationFit
        <3>2. fanEmail'[p].state # "active" /\ fanTodo' = [fanTodo EXCEPT ![p]["notification"] = <<>>]
            BY <1>3, <2>2
        <3>3. /\ \A e \in Effects : Account(p, e)' = Account(p, e) /\ Owed(p, e)' = Owed(p, e)
              /\ fanTodo'[p]["notification"] = <<>>
              /\ \A h \in Handlers \ {"notification"} : fanTodo'[p][h] = fanTodo[p][h]
              /\ fanTodo' \in [Publications -> [Handlers -> Seq(Effects)]]
            BY <1>1, <1>2, <2>2, <3>1, <3>2, WaitEnds
        <3>4. \A h \in Handlers : StepList(fanTodo[p][h], h)
            BY <1>1 DEF PublicationFit
        <3>5. QED
            BY <3>3, <3>4, OneEmailJob
    <2>3. QED
        BY <2>1, <2>2
<1>5. FanoutTypeOK'
    <2>1. fanFaults' \in 0..MaxFanFaults
        BY <1>1, FanoutAssumption DEF FanoutTypeOK
    <2>2. fanEmail' \in [Publications -> JobRecord] /\ fanRejected' \in [Publications -> SUBSET Handlers]
        BY <1>1 DEF FanoutTypeOK
    <2>3. fanMail' \in [Publications -> {"idle", "send", "record"}]
        BY <1>1 DEF FanoutTypeOK
    <2>4. QED
        BY <1>1, <1>4, <2>1, <2>2, <2>3 DEF FanoutTypeOK
<1>6. PublicationFit(p)'
    BY <1>1, <1>2, <1>3, <1>4 DEF PublicationFit
<1>7. Costs(p)
    <2>1. Extra(p)' = fanSent[p]
        <3>1. ~(fanMail'[p] = "record" \/ fanEmail'[p].state = "completed")
            BY <1>3
        <3>2. QED
            BY <1>1, <3>1 DEF Extra
    <2>2. CASE fanSent[p] = 0
        <3>1. Extra(p) = fanSent[p]
            BY <1>1, <1>2, <2>2, ExtraIs DEF PublicationFit
        <3>2. \A h \in Handlers \ {"notification"} : Lost(p, h)' => Lost(p, h)
            BY <1>4 DEF Lost
        <3>3. QED
            BY <2>1, <2>2, <3>1, <3>2 DEF Costs, Handlers
    <2>3. CASE fanSent[p] # 0
        <3>1. Extra(p)' <= Extra(p) + 1
            BY <1>1, <2>1, ExtraIs
        <3>2. \A h \in Handlers : Lost(p, h)' => Lost(p, h)
            BY <1>4, <2>3 DEF Lost
        <3>3. QED
            BY <3>1, <3>2 DEF Costs
    <2>4. QED
        BY <2>2, <2>3
<1>8. \A q \in Publications \ {p} : Same(q)
    BY <1>1 DEF Same, FanoutTypeOK
<1>9. QED
    BY <1>5, <1>6, <1>7, <1>8 DEF Stepped

LEMMA MailFailsSteps ==
    ASSUME FanInv, NEW p \in Publications, MailFails(p)
    PROVE  Stepped(p)
<1>1. /\ fanMail[p] # "idle" /\ fanFaults' = fanFaults + 1 /\ fanFaults < MaxFanFaults
      /\ fanMail' = [fanMail EXCEPT ![p] = "idle"]
      /\ UNCHANGED <<fanEvent, fanState, fanEffects, fanSent>>
    BY DEF MailFails, FanFault, EmailJobFails
<1>2. /\ fanEmail[p] \in JobRecord /\ fanEmail[p].attempts < JobAttempts
      /\ fanRejected \in [Publications -> SUBSET Handlers]
    BY <1>1 DEF FanInv, FanoutTypeOK, PublicationFit
<1>3. CASE fanEvent[p].queued
    <2> DEFINE job == AttemptFailed(fanEmail[p])
    <2>1. /\ job \in JobRecord /\ job.state \in {"waiting", "failed"}
          /\ job.attempts = fanEmail[p].attempts + 1
          /\ job.state = "waiting" => job.attempts < JobAttempts
        BY <1>2, FailedAttempt
    <2>2. /\ fanEmail' = [fanEmail EXCEPT ![p] = job] /\ fanTodo' = fanTodo
          /\ fanRejected' = [fanRejected EXCEPT ![p] = fanRejected[p]]
          /\ fanRejected[p] \in SUBSET Handlers
        BY <1>2, <1>3 DEF MailFails, EmailJobFails
    <2> HIDE DEF job
    <2>3. QED
        BY <1>1, <1>3, <2>1, <2>2, AttemptEndsSteps
<1>4. CASE ~fanEvent[p].queued
    <2> DEFINE job == DeadLettered(fanEmail[p])
    <2>1. job \in JobRecord /\ job.state = "dead"
        BY <1>2 DEF DeadLettered, JobRecord, JobStates
    <2>2. /\ fanEmail' = [fanEmail EXCEPT ![p] = job]
          /\ fanTodo' = [fanTodo EXCEPT ![p]["notification"] = <<>>]
          /\ fanRejected' = [fanRejected EXCEPT ![p] = fanRejected[p] \cup {"notification"}]
          /\ fanRejected[p] \cup {"notification"} \in SUBSET Handlers
        BY <1>2, <1>4 DEF MailFails, EmailJobFails, Reject, Handlers
    <2> HIDE DEF job
    <2>3. QED
        BY <1>1, <1>4, <2>1, <2>2, AttemptEndsSteps
<1>5. QED
    BY <1>3, <1>4

LEMMA CrashSteps ==
    ASSUME FanInv, NEW p \in Publications, EmailWorkerCrashes(p)
    PROVE  Stepped(p)
<1>1. /\ fanEvent[p].queued /\ fanMail[p] # "idle" /\ fanFaults' = fanFaults + 1 /\ fanFaults < MaxFanFaults
      /\ fanMail' = [fanMail EXCEPT ![p] = "idle"]
      /\ \E job \in Stalled(fanEmail[p]) : fanEmail' = [fanEmail EXCEPT ![p] = job]
      /\ UNCHANGED <<fanEvent, fanState, fanTodo, fanRejected, fanEffects, fanSent>>
    BY DEF EmailWorkerCrashes, FanFault
<1>2. /\ fanEmail[p] \in JobRecord /\ fanEmail[p].attempts < JobAttempts
      /\ fanRejected \in [Publications -> SUBSET Handlers]
    BY <1>1 DEF FanInv, FanoutTypeOK, PublicationFit
<1>3. PICK job \in Stalled(fanEmail[p]) : fanEmail' = [fanEmail EXCEPT ![p] = job]
    BY <1>1
<1>4. /\ job \in JobRecord
      /\ \/ job.state \in {"waiting", "dropped"} /\ job.attempts = fanEmail[p].attempts
         \/ job.state = "failed" /\ job.attempts = fanEmail[p].attempts + 1
    BY <1>2, StalledJob
<1>5. fanRejected' = [fanRejected EXCEPT ![p] = fanRejected[p]] /\ fanRejected[p] \in SUBSET Handlers
    BY <1>1, <1>2
<1>6. QED
    BY <1>1, <1>3, <1>4, <1>5, AttemptEndsSteps

LEMMA ReportSteps ==
    ASSUME FanInv, NEW p \in Publications, ReportDeadEmailJob(p) \/ DeadEmailJobUnreported(p)
    PROVE  Stepped(p)
<1>1. /\ fanEmail[p].state = "failed"
      /\ UNCHANGED <<fanEvent, fanState, fanTodo, fanRejected, fanEffects, fanMail, fanSent>>
    BY DEF ReportDeadEmailJob, DeadEmailJobUnreported
<1>2. fanFaults' \in {fanFaults, fanFaults + 1} /\ fanFaults' <= MaxFanFaults
    <2>1. fanFaults \in 0..MaxFanFaults
        BY DEF FanInv, FanoutTypeOK
    <2>2. fanFaults' = fanFaults \/ (fanFaults' = fanFaults + 1 /\ fanFaults < MaxFanFaults)
        BY DEF ReportDeadEmailJob, DeadEmailJobUnreported, FanFault
    <2>3. QED
        BY <2>1, <2>2, FanoutAssumption
<1>3. fanEmail[p] \in JobRecord /\ fanEmail \in [Publications -> JobRecord]
    BY DEF FanInv, FanoutTypeOK
<1>4. PICK job \in JobRecord : job.state \in {"dead", "unreported"} /\ fanEmail' = [fanEmail EXCEPT ![p] = job]
    <2>1. CASE ReportDeadEmailJob(p)
        <3>1. DeadLettered(fanEmail[p]) \in JobRecord /\ DeadLettered(fanEmail[p]).state = "dead"
            BY <1>3 DEF DeadLettered, JobRecord, JobStates
        <3>2. QED
            BY <2>1, <3>1 DEF ReportDeadEmailJob
    <2>2. CASE DeadEmailJobUnreported(p)
        <3> DEFINE job == [fanEmail[p] EXCEPT !.state = "unreported"]
        <3>1. job \in JobRecord /\ job.state = "unreported"
            BY <1>3 DEF JobRecord, JobStates
        <3>2. fanEmail' = [fanEmail EXCEPT ![p] = job]
            BY <1>3, <2>2 DEF DeadEmailJobUnreported
        <3>3. QED
            BY <3>1, <3>2
    <2>3. QED
        BY <2>1, <2>2
<1>5. QED
    BY <1>1, <1>2, <1>4, EndSteps

-----------------------------------------------------------------------------
(* The invariant *)

LEMMA FanStarts == FanoutInit => FanInv
<1> SUFFICES ASSUME FanoutInit PROVE FanInv
    OBVIOUS
<1>1. FanoutTypeOK
    BY FanoutAssumption, JobQueueAssumption
    DEF FanoutInit, FanoutTypeOK, NoEffects, NoJob, JobRecord, JobStates
<1>2. ASSUME NEW p \in Publications PROVE PublicationFit(p)
    <2>1. /\ fanState[p] = "new" /\ \A h \in Handlers : fanTodo[p][h] = <<>>
          /\ fanEffects[p] = NoEffects /\ fanEmail[p].state = "none" /\ fanEmail[p].attempts = 0
          /\ fanMail[p] = "idle" /\ fanSent[p] = 0
        BY DEF FanoutInit, NoJob
    <2>2. \A h \in Handlers : StepList(fanTodo[p][h], h)
        BY <2>1, OneEmailJob
    <2>3. QED
        BY <2>1, <2>2 DEF PublicationFit
<1>3. LostHandlers = {}
    BY DEF FanoutInit, LostHandlers, Lost, NoJob, Ended
<1>4. ExtraMails = {}
    <2>1. \A p \in Publications : Extra(p) = 0
        BY DEF FanoutInit, Extra, NoJob
    <2>2. QED
        BY <2>1 DEF ExtraMails
<1>5. CostsExplained
    BY <1>3, <1>4, FS_EmptySet DEF CostsExplained, FanoutInit
<1>6. QED
    BY <1>1, <1>2, <1>5 DEF FanInv

LEMMA FanSteps == FanInv /\ [FanoutNext]_fanVars => FanInv'
<1> SUFFICES ASSUME FanInv, [FanoutNext]_fanVars PROVE FanInv'
    OBVIOUS
<1>1. CASE UNCHANGED fanVars
    <2>1. \A q \in Publications :
              PublicationFit(q)' /\ (\A h : Lost(q, h)' <=> Lost(q, h)) /\ Extra(q)' = Extra(q)
        BY <1>1, SameStays DEF FanInv, Same, fanVars
    <2>2. FanoutTypeOK' /\ LostHandlers' = LostHandlers /\ ExtraMails' = ExtraMails
        BY <1>1, <2>1 DEF FanInv, FanoutTypeOK, fanVars, LostHandlers, ExtraMails
    <2>3. QED
        BY <1>1, <2>1, <2>2 DEF FanInv, CostsExplained, fanVars
<1>2. ASSUME NEW p \in Publications,
             \/ PublishEvent(p) \/ PublishReturns(p) \/ EmailStep(p)
             \/ \E h \in Handlers : HandlerStep(p, h) \/ HandlerCallFails(p, h)
             \/ MailFails(p) \/ DeadEmailJobUnreported(p) \/ EmailWorkerCrashes(p)
      PROVE  FanInv'
    <2>1. Stepped(p)
        BY <1>2, PublishStep, ReturnStep, TakeEmailSteps, SendSteps, RecordSteps, ReportSteps, HandlerSteps,
           CallFailsSteps, MailFailsSteps, CrashSteps
        DEF EmailStep
    <2>2. QED
        BY <2>1, SteppedKeeps
<1>3. QED
    BY <1>1, <1>2 DEF FanoutNext

\* Every variable of the fan-out keeps its type; in particular no handler causes
\* an effect more often than its list says.
THEOREM FanoutTypeCorrect == FanoutSpec => []FanoutTypeOK
<1>1. FanInv => FanoutTypeOK
    BY DEF FanInv
<1>2. QED
    BY <1>1, FanStarts, FanSteps, PTL DEF FanoutSpec

\* The effects of a handler's list are its own.
LEMMA NamesItsOwn ==
    ASSUME NEW event \in FanEvent, NEW h \in Handlers, NEW e, Tally(StepsOf(event)[h], e) > 0
    PROVE  Owner(e) = h
<1> DEFINE s == StepsOf(event)[h]
<1>1. StepList(s, h)
    BY StepsAre
<1>2. Tally(s, e) # 0
    OBVIOUS
<1> HIDE DEF s
<1>3. s \in Seq(Effects) /\ Len(s) \in Nat /\ DOMAIN s = 1..Len(s)
    BY <1>1, LenProperties DEF StepList
<1>4. \E i \in {1, 2, 3} : Len(s) >= i /\ s[i] = e
    BY <1>2 DEF Tally
<1>5. QED
    BY <1>1, <1>3, <1>4 DEF StepList

LEMMA FansTell == FanInv => OneFaultOneHandler
<1> SUFFICES ASSUME FanInv PROVE OneFaultOneHandler
    OBVIOUS
<1> DEFINE missing == {x \in Publications \X Handlers : fanState[x[1]] = "returned" /\ Missing(x[1], x[2])}
<1>1. FanoutTypeOK /\ CostsExplained /\ \A p \in Publications : PublicationFit(p)
    BY DEF FanInv
<1>2. ASSUME NEW p \in Publications, NEW h \in Handlers, fanState[p] = "returned", Missing(p, h)
      PROVE  Lost(p, h)
    <2>1. \A g \in Handlers : fanTodo[p][g] = <<>>
        BY <1>1, <1>2 DEF PublicationFit
    <2>2. \A e \in Effects : Promised(p, h)[e] = Tally(StepsOf(fanEvent[p])[h], e)
        <3>1. StepList(StepsOf(fanEvent[p])[h], h)
            BY <1>1, StepsAre DEF FanoutTypeOK
        <3> DEFINE s == StepsOf(fanEvent[p])[h]
        <3> HIDE DEF s
        <3>2. \A e : Cardinality({i \in DOMAIN s : s[i] = e}) = Tally(s, e)
            BY <3>1, TallyCounts DEF s
        <3>3. QED
            BY <3>2 DEF Promised, s
    <2>3. CASE \E e \in Effects : Promised(p, h)[e] > 0 /\ fanEffects[p][e] < Promised(p, h)[e]
        <3>1. PICK e \in Effects : Promised(p, h)[e] > 0 /\ fanEffects[p][e] < Promised(p, h)[e]
            BY <2>3
        <3>2. Owner(e) = h
            BY <1>1, <2>2, <3>1, NamesItsOwn DEF FanoutTypeOK
        <3>3. Owed(p, e) = Promised(p, h)[e]
            BY <2>2, <3>2 DEF Owed
        <3>4. Account(p, e) <= fanEffects[p][e]
            <4>1. Tally(fanTodo[p][Owner(e)], e) = 0
                BY <2>1, <3>2, TallyType
            <4>2. QED
                BY <1>1, <4>1, AccountType
        <3>5. Account(p, e) < Owed(p, e)
            BY <1>1, <3>1, <3>3, <3>4, AccountType
        <3>6. QED
            BY <1>2, <3>2, <3>5 DEF Lost
    <2>4. CASE Promised(p, h)["email-job"] > 0 /\ Ended(fanEmail[p]) /\ fanSent[p] = 0
        <3>1. Owner("email-job") = h
            BY <1>1, <2>2, <2>4, NamesItsOwn DEF FanoutTypeOK, Effects
        <3>2. h = "notification"
            BY <3>1 DEF Owner
        <3>3. QED
            BY <2>4, <3>2 DEF Lost
    <2>5. QED
        BY <1>2, <2>3, <2>4 DEF Missing
<1>3. missing \subseteq LostHandlers
    BY <1>2 DEF LostHandlers
<1>4. SentAgain \subseteq ExtraMails
    <2>1. ASSUME NEW p \in Publications, NEW i \in 1..(fanSent[p] - 1) PROVE <<p, i>> \in ExtraMails
        <3>1. fanSent[p] \in Nat /\ fanSent[p] - 1 <= Extra(p) /\ Extra(p) \in Nat
            BY <1>1, ExtraIs
        <3>2. i \in Nat /\ i \in 1..Extra(p)
            BY <2>1, <3>1
        <3>3. QED
            BY <3>2 DEF ExtraMails
    <2>2. QED
        BY <2>1 DEF SentAgain
<1> HIDE DEF missing
<1>5. /\ Cardinality(missing) <= Cardinality(LostHandlers)
      /\ Cardinality(SentAgain) <= Cardinality(ExtraMails)
      /\ Cardinality(missing) \in Nat /\ Cardinality(SentAgain) \in Nat
      /\ Cardinality(LostHandlers) \in Nat /\ Cardinality(ExtraMails) \in Nat
    BY <1>1, <1>3, <1>4, FS_Subset, FS_CardinalityType DEF CostsExplained
<1>6. Cardinality(missing) + Cardinality(SentAgain) <= fanFaults
    BY <1>1, <1>5 DEF CostsExplained, FanoutTypeOK
<1>7. \A p \in Publications : fanState[p] = "returned" => \A h \in Handlers : fanTodo[p][h] = <<>>
    BY <1>1 DEF PublicationFit
<1>8. QED
    BY <1>6, <1>7 DEF OneFaultOneHandler, missing

\* Whatever is missing after a publication has returned, and whatever mail came
\* again, has a failure of its own, for any number of publications and failures.
THEOREM OneFaultOneHandlerCorrect == FanoutSpec => []OneFaultOneHandler
BY FansTell, FanStarts, FanSteps, PTL DEF FanoutSpec

-----------------------------------------------------------------------------
(* The automation engine *)

Busy == {"rule", "skip", "action", "statement", "refresh", "rescue"}

InExecution == {"action", "statement", "refresh", "rescue"}

\* A change of the row is followed by its history entry.
PlanFit(s) ==
    /\ s \in Seq(Statements)
    /\ \A i \in DOMAIN s : s[i].kind = "row" => i + 1 \in DOMAIN s /\ s[i + 1].kind = "history"

\* The processor runs while its job is active, and has at hand what its step needs;
\* no rule is twice in its list.
RunFit ==
    /\ autoRun.pc # "idle" <=> autoJob.state = "active"
    /\ autoJob.state \in {"none", "waiting", "active"} => autoJob.attempts < JobAttempts
    /\ autoRun.pc \in Busy => autoRun.rules # <<>>
    /\ \A i, j \in DOMAIN autoRun.rules : i # j => autoRun.rules[i].rule # autoRun.rules[j].rule
    /\ autoRun.pc \in {"statement", "refresh"} => autoRun.actions # <<>>
    /\ autoRun.pc = "statement" => autoRun.todo # <<>> /\ PlanFit(autoRun.todo)

Attempted == autoJob.attempts + Faults("crash")

\* A rule is begun once in an attempt at most, and not yet if it is still in the list.
BegunFit ==
    /\ \A r \in Rules : autoBegun[r] <= 1 + Attempted
    /\ autoJob.state \in {"none", "waiting"} \/ autoRun.pc = "load" =>
          \A r \in Rules : autoBegun[r] <= Attempted
    /\ autoRun.pc \in Busy =>
          \A i \in DOMAIN autoRun.rules :
              i > 1 \/ autoRun.pc \in {"rule", "skip"} => autoBegun[autoRun.rules[i].rule] <= Attempted

\* An execution that is being rescued has met one fault already.
Rescuing == IF autoRun.pc = "rescue" /\ ~RuleDeleted THEN 1 ELSE 0

BooksFit ==
    /\ IsFiniteSet(UnrecordedExecutions)
    /\ 2 * Cardinality(UnrecordedExecutions) + Rescuing <= Faults("statement") + 2 * Faults("crash")

Owing == IF autoRun.pc = "statement" /\ Head(autoRun.todo).kind = "history" THEN 1 ELSE 0

EntriesFit == autoWrites - autoEntries - Owing <= Faults("statement") + Faults("crash")

AutoInv == AutomationTypeOK /\ RunFit /\ BegunFit /\ BooksFit /\ EntriesFit

LEMMA FaultsType ==
    ASSUME AutomationTypeOK, NEW k
    PROVE  Faults(k) \in Nat
<1>1. autoFaults \in [AutoFaultKinds -> 0..MaxAutoFaults] /\ MaxAutoFaults \in Nat
    BY AutomationAssumption DEF AutomationTypeOK
<1>2. QED
    BY <1>1 DEF Faults

LEMMA FaultCounts ==
    ASSUME AutomationTypeOK, NEW kind, AutoFault(kind)
    PROVE  /\ autoFaults' \in [AutoFaultKinds -> 0..MaxAutoFaults]
           /\ Faults(kind)' = Faults(kind) + 1
           /\ \A k : k # kind => Faults(k)' = Faults(k)
<1>1. /\ kind \in AutoFaultKinds /\ kind \in {"statement", "listener", "crash"}
      /\ autoFaults' = [autoFaults EXCEPT ![kind] = @ + 1]
      /\ autoFaults \in [AutoFaultKinds -> 0..MaxAutoFaults] /\ MaxAutoFaults \in Nat
    BY AutomationAssumption DEF AutoFault, AutomationTypeOK
<1>2. Faults(kind) = autoFaults[kind] /\ Faults("statement") \in Nat /\ Faults("crash") \in Nat
    BY <1>1, FaultsType DEF Faults
<1>3. autoFaults[kind] < MaxAutoFaults
    <2>1. CASE kind = "listener"
        BY <1>2, <2>1 DEF AutoFault
    <2>2. CASE kind # "listener"
        <3>1. Faults("statement") + Faults("crash") < MaxAutoFaults
            BY <2>2 DEF AutoFault
        <3>2. kind = "statement" \/ kind = "crash"
            BY <1>1, <2>2
        <3>3. QED
            BY <1>1, <1>2, <3>1, <3>2
    <2>3. QED
        BY <2>1, <2>2
<1>4. autoFaults' \in [AutoFaultKinds -> 0..MaxAutoFaults] /\ autoFaults'[kind] = autoFaults[kind] + 1
    BY <1>1, <1>3
<1>5. \A k \in AutoFaultKinds : k # kind => autoFaults'[k] = autoFaults[k]
    BY <1>1
<1>6. QED
    BY <1>1, <1>2, <1>4, <1>5 DEF Faults

-----------------------------------------------------------------------------
(* Plans *)

LEMMA WithHistoryFits ==
    ASSUME NEW field, NEW value,
           \/ field = "status" /\ value \in Status
           \/ field = "priority" /\ value \in Priorities
           \/ field = "assignee" /\ value \in Assignees
    PROVE  PlanFit(WithHistory(field, value)) /\ Len(WithHistory(field, value)) = 2
<1> DEFINE row == [kind |-> "row", field |-> field, value |-> value]
           entry == [kind |-> "history", field |-> field, value |-> value]
<1>1. row \in Statements /\ entry \in Statements /\ row.kind = "row" /\ entry.kind = "history"
    BY DEF Statements
<1>2. WithHistory(field, value) = <<row, entry>>
    BY DEF WithHistory
<1> HIDE DEF row, entry
<1>3. QED
    BY <1>1, <1>2 DEF PlanFit

LEMMA PlansFollow ==
    ASSUME NEW s, NEW t, PlanFit(s), PlanFit(t)
    PROVE  PlanFit(s \o t)
<1>1. /\ s \in Seq(Statements) /\ t \in Seq(Statements) /\ s \o t \in Seq(Statements)
      /\ Len(s) \in Nat /\ Len(t) \in Nat /\ DOMAIN s = 1..Len(s) /\ DOMAIN t = 1..Len(t)
      /\ DOMAIN (s \o t) = 1..(Len(s) + Len(t))
      /\ \A i \in 1..(Len(s) + Len(t)) : (s \o t)[i] = IF i <= Len(s) THEN s[i] ELSE t[i - Len(s)]
    <2>1. s \in Seq(Statements) /\ t \in Seq(Statements)
        BY DEF PlanFit
    <2>2. Len(s) \in Nat /\ Len(t) \in Nat /\ DOMAIN s = 1..Len(s) /\ DOMAIN t = 1..Len(t)
        BY <2>1, LenProperties
    <2>3. /\ s \o t \in Seq(Statements) /\ Len(s \o t) = Len(s) + Len(t)
          /\ \A i \in 1..(Len(s) + Len(t)) : (s \o t)[i] = IF i <= Len(s) THEN s[i] ELSE t[i - Len(s)]
        BY <2>1, ConcatProperties
    <2>4. DOMAIN (s \o t) = 1..Len(s \o t)
        BY <2>3, LenProperties
    <2>5. QED
        BY <2>1, <2>2, <2>3, <2>4
<1> DEFINE u == s \o t
<1>2. ASSUME NEW i \in DOMAIN u, u[i].kind = "row"
      PROVE  i + 1 \in DOMAIN u /\ u[i + 1].kind = "history"
    <2>1. CASE i <= Len(s)
        <3>1. i \in DOMAIN s /\ s[i].kind = "row"
            BY <1>1, <1>2, <2>1
        <3>2. i + 1 \in DOMAIN s /\ s[i + 1].kind = "history"
            BY <3>1 DEF PlanFit
        <3>3. QED
            BY <1>1, <3>2
    <2>2. CASE ~(i <= Len(s))
        <3>1. i - Len(s) \in DOMAIN t /\ t[i - Len(s)].kind = "row"
            BY <1>1, <1>2, <2>2
        <3>2. i - Len(s) + 1 \in DOMAIN t /\ t[i - Len(s) + 1].kind = "history"
            BY <3>1 DEF PlanFit
        <3>3. i + 1 \in 1..(Len(s) + Len(t)) /\ ~(i + 1 <= Len(s)) /\ (i + 1) - Len(s) = i - Len(s) + 1
            BY <1>1, <2>2, <3>2
        <3>4. QED
            BY <1>1, <3>2, <3>3
    <2>3. QED
        BY <2>1, <2>2
<1>3. QED
    BY <1>1, <1>2 DEF PlanFit

LEMMA EmptyFits == PlanFit(<<>>)
BY DEF PlanFit

LEMMA AssignFits ==
    ASSUME NEW agent, NEW ticket, NEW plan \in AssignAgent(agent, ticket), plan # Failure
    PROVE  PlanFit(plan)
BY EmptyFits, WithHistoryFits DEF AssignAgent, Fails

LEMMA PlansFit ==
    ASSUME NEW action \in RuleActions, NEW ticket \in AutoTicket, NEW plan \in Plans(action, ticket),
           plan # Failure
    PROVE  PlanFit(plan)
<1>1. /\ action.type \in ActionTypes
      /\ action.type = "CHANGE_PRIORITY" => action.priority \in Priorities
    BY AutomationAssumption
<1>2. CASE action.type = "ASSIGN_AGENT"
    <2>1. plan \in AssignAgent(action.agent, ticket)
        BY <1>2 DEF Plans
    <2>2. QED
        BY <2>1, AssignFits
<1>3. CASE action.type = "ASSIGN_TEAM"
    <2>1. plan \in AssignTeam(action.team, ticket)
        BY <1>3 DEF Plans
    <2>2. \E a : plan \in AssignAgent(a, ticket)
        BY <2>1 DEF AssignTeam, Fails
    <2>3. QED
        BY <2>2, AssignFits
<1>4. CASE action.type = "CHANGE_PRIORITY"
    <2>1. plan \in ChangePriority(action.priority, ticket)
        BY <1>4 DEF Plans
    <2>2. plan = <<>> \/ plan = WithHistory("priority", action.priority)
        BY <2>1 DEF ChangePriority
    <2>3. QED
        BY <1>1, <1>4, <2>2, EmptyFits, WithHistoryFits
<1>5. CASE action.type = "SEND_NOTIFICATION"
    <2>1. plan \in SendNotification(ticket)
        BY <1>5 DEF Plans
    <2>2. plan = <<[kind |-> "notification"], [kind |-> "side-effect"]>>
        BY <2>1 DEF SendNotification, Fails
    <2>3. PlanFit(<<[kind |-> "notification"], [kind |-> "side-effect"]>>)
        <3>1. [kind |-> "notification"] \in Statements /\ [kind |-> "side-effect"] \in Statements
            BY DEF Statements
        <3> DEFINE one == [kind |-> "notification"]
                   two == [kind |-> "side-effect"]
        <3>2. one.kind = "notification" /\ two.kind = "side-effect" /\ one \in Statements /\ two \in Statements
            BY <3>1
        <3> HIDE DEF one, two
        <3>3. PlanFit(<<one, two>>)
            BY <3>2 DEF PlanFit
        <3>4. QED
            BY <3>3 DEF one, two
    <2>4. QED
        BY <2>2, <2>3
<1>6. CASE action.type = "CLOSE_TICKET"
    <2>1. plan \in CloseTicket(ticket)
        BY <1>6 DEF Plans
    <2>2. \/ plan = <<>>
          \/ plan = WithHistory("status", "CLOSED")
          \/ plan = WithHistory("status", "RESOLVED") \o WithHistory("status", "CLOSED")
        <3>1. CASE ticket.status = "CLOSED"
            BY <2>1, <3>1 DEF CloseTicket
        <3>2. CASE ticket.status = "RESOLVED"
            BY <2>1, <3>2 DEF CloseTicket
        <3>3. CASE ticket.status \notin {"CLOSED", "RESOLVED"} /\ CanTransition(ticket.status, "RESOLVED")
            BY <2>1, <3>3, Zenon DEF CloseTicket
        <3>4. CASE ticket.status \notin {"CLOSED", "RESOLVED"} /\ ~CanTransition(ticket.status, "RESOLVED")
            BY <2>1, <3>4 DEF CloseTicket, Fails
        <3>5. QED
            BY <3>1, <3>2, <3>3, <3>4
    <2>3. PlanFit(WithHistory("status", "CLOSED")) /\ PlanFit(WithHistory("status", "RESOLVED"))
        BY WithHistoryFits DEF Status
    <2>4. QED
        BY <2>2, <2>3, EmptyFits, PlansFollow
<1>7. QED
    BY <1>1, <1>2, <1>3, <1>4, <1>5, <1>6 DEF ActionTypes

LEMMA TailFits ==
    ASSUME NEW s, PlanFit(s), s # <<>>
    PROVE  /\ PlanFit(Tail(s)) /\ Head(s) \in Statements
           /\ Head(s).kind = "row" => Tail(s) # <<>> /\ Head(Tail(s)).kind = "history"
<1>1. /\ s \in Seq(Statements) /\ Len(s) \in Nat \ {0} /\ DOMAIN s = 1..Len(s)
      /\ Head(s) = s[1] /\ Head(s) \in Statements
      /\ Tail(s) \in Seq(Statements) /\ Len(Tail(s)) = Len(s) - 1 /\ DOMAIN Tail(s) = 1..(Len(s) - 1)
      /\ \A i \in 1..(Len(s) - 1) : Tail(s)[i] = s[i + 1]
    <2>1. s \in Seq(Statements)
        BY DEF PlanFit
    <2>2. Len(s) \in Nat /\ Len(s) # 0 /\ DOMAIN s = 1..Len(s)
        BY <2>1, LenProperties, EmptySeq
    <2>3. /\ Head(s) = s[1] /\ Head(s) \in Statements
          /\ Tail(s) \in Seq(Statements) /\ Len(Tail(s)) = Len(s) - 1
          /\ \A i \in 1..(Len(s) - 1) : Tail(s)[i] = s[i + 1]
        BY <2>1, HeadTailProperties
    <2>4. DOMAIN Tail(s) = 1..Len(Tail(s))
        BY <2>3, LenProperties
    <2>5. QED
        BY <2>1, <2>2, <2>3, <2>4
<1>2. PlanFit(Tail(s))
    <2> SUFFICES ASSUME NEW i \in DOMAIN Tail(s), Tail(s)[i].kind = "row"
                 PROVE  i + 1 \in DOMAIN Tail(s) /\ Tail(s)[i + 1].kind = "history"
        BY <1>1 DEF PlanFit
    <2>1. i + 1 \in DOMAIN s /\ s[i + 1].kind = "row"
        BY <1>1
    <2>2. i + 1 + 1 \in DOMAIN s /\ s[i + 1 + 1].kind = "history"
        BY <2>1 DEF PlanFit
    <2>3. i + 1 \in 1..(Len(s) - 1)
        BY <1>1, <2>1, <2>2
    <2>4. QED
        BY <1>1, <2>2, <2>3
<1>3. ASSUME Head(s).kind = "row" PROVE Tail(s) # <<>> /\ Head(Tail(s)).kind = "history"
    <2>1. 2 \in DOMAIN s /\ s[2].kind = "history"
        <3>1. 1 \in DOMAIN s /\ s[1].kind = "row"
            BY <1>1, <1>3
        <3>2. QED
            BY <3>1 DEF PlanFit
    <2>2. Tail(s) # <<>> /\ Tail(s)[1] = s[2]
        BY <1>1, <2>1
    <2>3. Head(Tail(s)) = Tail(s)[1]
        BY <1>1, <2>2
    <2>4. QED
        BY <2>1, <2>2, <2>3
<1>4. QED
    BY <1>1, <1>2, <1>3

-----------------------------------------------------------------------------
(* Types *)

LEMMA RestIsRun ==
    ASSUME NEW ticket \in AutoTicket
    PROVE  /\ AtRest(ticket) \in AutoRun /\ AtRest(ticket).pc = "idle"
           /\ \A at \in {"load", "rule"} : \A rules \in Seq([rule : Rules, content : RuleContents]) :
                 [AtRest(ticket) EXCEPT !.pc = at, !.rules = rules] \in AutoRun
           /\ [AtRest(ticket) EXCEPT !.pc = "load"] \in AutoRun
<1>1. /\ <<>> \in Seq([rule : Rules, content : RuleContents])
      /\ <<>> \in Seq(RuleActions) /\ <<>> \in Seq(Statements)
    OBVIOUS
<1>2. QED
    BY <1>1 DEF AtRest, AutoRun

LEMMA RunIs ==
    ASSUME AutomationTypeOK
    PROVE  /\ autoRun.pc \in {"idle", "load", "rule", "skip", "action", "statement", "refresh", "rescue"}
           /\ autoRun.rules \in Seq([rule : Rules, content : RuleContents])
           /\ autoRun.event \in AutoTicket /\ autoRun.seen \in AutoTicket
           /\ autoRun.actions \in Seq(RuleActions) /\ autoRun.todo \in Seq(Statements)
           /\ autoRun.failed \in BOOLEAN
<1>1. autoRun \in AutoRun
    BY DEF AutomationTypeOK
<1>2. /\ autoRun.rules \in Seq([rule : Rules, content : RuleContents])
      /\ autoRun.event \in AutoTicket /\ autoRun.seen \in AutoTicket
      /\ autoRun.actions \in Seq(RuleActions) /\ autoRun.todo \in Seq(Statements)
      /\ autoRun.failed \in BOOLEAN
    BY <1>1 DEF AutoRun
<1>3. autoRun.pc \in {"idle", "load", "rule", "skip", "action", "statement", "refresh", "rescue"}
    BY <1>1 DEF AutoRun
<1>4. QED
    BY <1>2, <1>3

\* The list of rules, its head and its tail.
LEMMA CurrentIs ==
    ASSUME AutomationTypeOK, RunFit, autoRun.pc \in Busy
    PROVE  /\ Current \in Rules /\ Current = autoRun.rules[1].rule /\ 1 \in DOMAIN autoRun.rules
           /\ Head(autoRun.rules).content \in RuleContents
           /\ Tail(autoRun.rules) \in Seq([rule : Rules, content : RuleContents])
           /\ \A i \in DOMAIN Tail(autoRun.rules) :
                 i + 1 \in DOMAIN autoRun.rules /\ i + 1 > 1 /\ Tail(autoRun.rules)[i] = autoRun.rules[i + 1]
<1> DEFINE list == autoRun.rules
           entries == [rule : Rules, content : RuleContents]
<1>1. list \in Seq(entries) /\ list # <<>>
    BY RunIs DEF RunFit
<1> HIDE DEF list
<1> HIDE DEF entries
<1>2. Len(list) \in Nat /\ Len(list) # 0 /\ DOMAIN list = 1..Len(list)
    BY <1>1, LenProperties, EmptySeq
<1>3. /\ Head(list) = list[1] /\ Head(list) \in entries
      /\ Tail(list) \in Seq(entries) /\ Len(Tail(list)) = Len(list) - 1
      /\ \A i \in 1..(Len(list) - 1) : Tail(list)[i] = list[i + 1]
    BY <1>1, HeadTailProperties
<1>4. DOMAIN Tail(list) = 1..Len(Tail(list))
    BY <1>3, LenProperties
<1>5. Head(list).rule \in Rules /\ Head(list).content \in RuleContents
    BY <1>3 DEF entries
<1>6. \A i \in DOMAIN Tail(list) : i + 1 \in DOMAIN list /\ i + 1 > 1 /\ Tail(list)[i] = list[i + 1]
    BY <1>2, <1>3, <1>4
<1>7. 1 \in DOMAIN list
    BY <1>2
<1>8. QED
    BY <1>3, <1>5, <1>6, <1>7 DEF Current, list, entries

LEMMA JobSteps ==
    ASSUME NEW job \in JobRecord
    PROVE  /\ job.attempts \in Nat /\ job.attempts <= JobAttempts /\ job.state \in JobStates
           /\ Added(job) \in JobRecord /\ Added(job).state = "waiting" /\ Added(job).attempts = job.attempts
           /\ Taken(job) \in JobRecord /\ Taken(job).state = "active" /\ Taken(job).attempts = job.attempts
           /\ Succeeded(job) \in JobRecord /\ Succeeded(job).state = "completed"
           /\ Succeeded(job).attempts = job.attempts
           /\ DeadLettered(job) \in JobRecord /\ DeadLettered(job).state = "dead"
           /\ DeadLettered(job).attempts = job.attempts
           /\ [job EXCEPT !.state = "unreported"] \in JobRecord
           /\ [job EXCEPT !.state = "unreported"].state = "unreported"
           /\ [job EXCEPT !.state = "unreported"].attempts = job.attempts
           /\ AttemptFailed(job).attempts = job.attempts + 1
           /\ AttemptFailed(job).state \in {"waiting", "failed"}
           /\ job.attempts < JobAttempts => AttemptFailed(job) \in JobRecord
           /\ AttemptFailed(job).state = "waiting" => AttemptFailed(job).attempts < JobAttempts
<1>1. AttemptFailed(job).attempts = job.attempts + 1 /\ AttemptFailed(job).state \in {"waiting", "failed"}
    BY DEF AttemptFailed, JobRecord
<1>2. AttemptFailed(job).state = "waiting" => AttemptFailed(job).attempts < JobAttempts
    BY DEF AttemptFailed, JobRecord
<1>3. job.attempts \in Nat /\ job.attempts <= JobAttempts /\ job.state \in JobStates
    BY JobQueueAssumption DEF JobRecord
<1>4. QED
    BY <1>1, <1>2, <1>3, FailedAttempt DEF JobRecord, JobStates, Added, Taken, Succeeded, DeadLettered

\* A completed or failed run leaves the processor at rest.
LEMMA JobEnds ==
    ASSUME AutomationTypeOK, RunFit, autoRun.pc # "idle",
           CompleteAutomationJob \/ AutomationJobThrows
    PROVE  /\ autoJob' \in JobRecord /\ autoRun' \in AutoRun
           /\ autoRun' = AtRest(autoRun.event) /\ autoRun'.pc = "idle" /\ autoRun'.rules = <<>>
           /\ autoJob'.state \in {"completed", "waiting", "failed"}
           /\ autoJob'.state = "waiting" => autoJob'.attempts < JobAttempts
           /\ \/ autoJob'.state = "completed" /\ autoJob'.attempts = autoJob.attempts
              \/ autoJob'.attempts = autoJob.attempts + 1
<1>1. autoJob \in JobRecord /\ autoJob.attempts < JobAttempts
    BY DEF AutomationTypeOK, RunFit
<1>2. autoRun' = AtRest(autoRun.event) /\ autoRun.event \in AutoTicket
    BY RunIs DEF CompleteAutomationJob, AutomationJobThrows
<1>3. autoRun' \in AutoRun /\ autoRun'.pc = "idle" /\ autoRun'.rules = <<>>
    BY <1>2, RestIsRun DEF AtRest
<1>4. autoJob' = Succeeded(autoJob) \/ autoJob' = AttemptFailed(autoJob)
    BY DEF CompleteAutomationJob, AutomationJobThrows
<1>5. CASE autoJob' = Succeeded(autoJob)
    BY <1>1, <1>2, <1>3, <1>5, JobSteps
<1>6. CASE autoJob' = AttemptFailed(autoJob)
    <2>1. /\ autoJob' \in JobRecord /\ autoJob'.state \in {"waiting", "failed"}
          /\ autoJob'.attempts = autoJob.attempts + 1
          /\ autoJob'.state = "waiting" => autoJob'.attempts < JobAttempts
        BY <1>1, <1>6, JobSteps
    <2>2. QED
        BY <1>2, <1>3, <2>1
<1>7. QED
    BY <1>4, <1>5, <1>6

\* What NextRule leaves behind.
LEMMA NextRuleGoesOn ==
    ASSUME AutomationTypeOK, RunFit, autoRun.pc \in Busy, NextRule
    PROVE  /\ autoJob' \in JobRecord /\ autoRun' \in AutoRun
           /\ autoRun'.event = autoRun.event
           /\ \/ /\ autoRun'.pc = "rule" /\ autoRun'.rules = Tail(autoRun.rules) /\ autoRun'.rules # <<>>
                 /\ autoJob' = autoJob
              \/ /\ autoRun'.pc = "idle" /\ autoRun'.rules = <<>> /\ autoJob'.state = "completed"
                 /\ autoJob'.attempts = autoJob.attempts
<1>1. /\ autoRun.event \in AutoTicket /\ autoJob \in JobRecord
      /\ Tail(autoRun.rules) \in Seq([rule : Rules, content : RuleContents])
    BY RunIs, CurrentIs DEF AutomationTypeOK
<1>2. CASE Tail(autoRun.rules) = <<>>
    <2>1. CompleteAutomationJob
        BY <1>2 DEF NextRule
    <2>2. autoRun' = AtRest(autoRun.event) /\ autoJob' = Succeeded(autoJob)
        BY <2>1 DEF CompleteAutomationJob
    <2>3. AtRest(autoRun.event).event = autoRun.event /\ AtRest(autoRun.event).rules = <<>>
        BY DEF AtRest
    <2>4. QED
        BY <1>1, <2>2, <2>3, JobSteps, RestIsRun
<1>3. CASE Tail(autoRun.rules) # <<>>
    <2> DEFINE run == [AtRest(autoRun.event) EXCEPT !.pc = "rule", !.rules = Tail(autoRun.rules)]
    <2>1. autoRun' = run /\ autoJob' = autoJob
        BY <1>3 DEF NextRule
    <2>2. run.pc = "rule" /\ run.rules = Tail(autoRun.rules) /\ run.event = autoRun.event
        BY DEF AtRest
    <2>3. run \in AutoRun
        BY <1>1, RestIsRun
    <2> HIDE DEF run
    <2>4. QED
        BY <1>1, <1>3, <2>1, <2>2, <2>3
<1>4. QED
    BY <1>2, <1>3

\* The rules that a run is given: active ones, each once.
LEMMA ListIs ==
    ASSUME AutomationTypeOK, NEW rules \in ActiveRules
    PROVE  /\ rules \in Seq([rule : Rules, content : RuleContents])
           /\ \A i, j \in DOMAIN rules : i # j => rules[i].rule # rules[j].rule
           /\ \A i \in DOMAIN rules : /\ rules[i].rule \in Rules /\ autoRule[rules[i].rule].state = "active"
                                      /\ rules[i].content = autoRule[rules[i].rule].content
<1> DEFINE active == {r \in Rules : autoRule[r].state = "active"}
           n == Cardinality(active)
<1>1. IsFiniteSet(active) /\ n \in Nat
    <2>1. IsFiniteSet(Rules)
        BY FS_Interval, AutomationAssumption DEF Rules
    <2>2. active \subseteq Rules
        OBVIOUS
    <2>3. QED
        BY <2>1, <2>2, FS_Subset, FS_CardinalityType
<1>2. PICK o \in [1..n -> active] :
          /\ \A i, j \in DOMAIN o : i < j => o[i] < o[j]
          /\ rules = [i \in DOMAIN o |-> [rule |-> o[i], content |-> autoRule[o[i]].content]]
    BY DEF ActiveRules
<1> HIDE DEF n
<1>3. \A i \in 1..n : o[i] \in Rules /\ o[i] \in Int /\ autoRule[o[i]].state = "active"
    BY AutomationAssumption DEF Rules
<1>4. DOMAIN rules = 1..n /\ \A i \in 1..n : rules[i] = [rule |-> o[i], content |-> autoRule[o[i]].content]
    BY <1>2
<1>5. \A r \in Rules : autoRule[r].content \in RuleContents
    BY DEF AutomationTypeOK
<1>6. rules \in [1..n -> [rule : Rules, content : RuleContents]]
    BY <1>2, <1>3, <1>5
<1>7. rules \in Seq([rule : Rules, content : RuleContents])
    <2> DEFINE entries == [rule : Rules, content : RuleContents]
    <2>1. rules \in [1..n -> entries]
        BY <1>6
    <2> HIDE DEF entries
    <2>2. rules \in Seq(entries)
        BY <1>1, <2>1
    <2>3. QED
        BY <2>2 DEF entries
<1>8. ASSUME NEW i \in DOMAIN rules, NEW j \in DOMAIN rules, i # j PROVE rules[i].rule # rules[j].rule
    <2>1. i \in 1..n /\ j \in 1..n /\ (i < j \/ j < i)
        BY <1>1, <1>4, <1>8
    <2>2. o[i] < o[j] \/ o[j] < o[i]
        BY <1>2, <2>1
    <2>3. o[i] # o[j]
        BY <1>3, <2>1, <2>2
    <2>4. QED
        BY <1>4, <2>1, <2>3
<1>9. QED
    BY <1>3, <1>4, <1>7, <1>8

LEMMA TypeSteps ==
    ASSUME AutoInv, AutomationNext
    PROVE  AutomationTypeOK'
<1>1. AutomationTypeOK /\ RunFit
    BY DEF AutoInv
<1>2. /\ autoRule \in [Rules -> [state : {"absent", "active", "inactive", "deleted"}, content : RuleContents]]
      /\ autoTicket \in AutoTicket /\ autoJob \in JobRecord /\ autoRun \in AutoRun
      /\ autoRecords \in [Rules -> [ExecutionStatus -> Nat]]
      /\ autoBegun \in [Rules -> Nat] /\ autoNotified \in [Rules -> Nat]
      /\ autoWrites \in Nat /\ autoEntries \in Nat /\ autoChanges \in 0..MaxAutoChanges
      /\ autoFaults \in [AutoFaultKinds -> 0..MaxAutoFaults]
      /\ MaxAutoChanges \in Nat
    BY <1>1, AutomationAssumption DEF AutomationTypeOK
<1>3. UserChanges => autoChanges' \in 0..MaxAutoChanges
    BY <1>2 DEF UserChanges
<1>4. ASSUME NEW r \in Rules, CreateRule(r) \/ UpdateRule(r) \/ DeleteRule(r) PROVE AutomationTypeOK'
    <2>1. CASE CreateRule(r)
        BY <1>2, <1>3, <2>1 DEF CreateRule, AutomationTypeOK
    <2>2. CASE UpdateRule(r)
        BY <1>2, <1>3, <2>2 DEF UpdateRule, AutomationTypeOK
    <2>3. CASE DeleteRule(r)
        <3>1. autoRule' \in [Rules -> [state : {"absent", "active", "inactive", "deleted"}, content : RuleContents]]
            BY <1>2, <2>3 DEF DeleteRule
        <3>2. autoRecords' \in [Rules -> [ExecutionStatus -> Nat]]
            BY <1>2, <2>3 DEF DeleteRule
        <3>3. QED
            BY <1>2, <1>3, <2>3, <3>1, <3>2 DEF DeleteRule, AutomationTypeOK
    <2>4. QED
        BY <1>4, <2>1, <2>2, <2>3
<1>5. CASE UserChangesTicket
    <2>1. autoTicket' \in AutoTicket
        <3>1. AllowedTransitions[autoTicket.status] \subseteq Status
            BY <1>2 DEF AutoTicket, Status, AllowedTransitions
        <3>2. QED
            BY <1>2, <1>5, <3>1 DEF UserChangesTicket, AutoTicket
    <2>2. QED
        BY <1>2, <1>3, <1>5, <2>1 DEF UserChangesTicket, AutomationTypeOK
<1>6. CASE ProcessEvent
    <2>1. autoJob' \in JobRecord
        BY <1>2, <1>6, JobSteps DEF ProcessEvent
    <2>2. QED
        BY <1>2, <1>6, <2>1 DEF ProcessEvent, AutomationTypeOK
<1>7. CASE TakeAutomationJob
    <2>1. autoJob' \in JobRecord /\ autoRun' \in AutoRun
        BY <1>1, <1>2, <1>7, JobSteps, RestIsRun, RunIs DEF TakeAutomationJob
    <2>2. QED
        BY <1>2, <1>7, <2>1 DEF TakeAutomationJob, AutomationTypeOK
<1>8. CASE LoadTicketAndRules
    <2>1. autoJob' \in JobRecord /\ autoRun' \in AutoRun
        <3>1. PICK enabled \in BOOLEAN, rules \in ActiveRules :
                  IF enabled /\ rules # <<>>
                  THEN /\ autoRun' = [AtRest(autoTicket) EXCEPT !.pc = "rule", !.rules = rules]
                       /\ UNCHANGED autoJob
                  ELSE CompleteAutomationJob
            BY <1>8 DEF LoadTicketAndRules
        <3>2. CASE enabled /\ rules # <<>>
            <4>1. rules \in Seq([rule : Rules, content : RuleContents])
                BY <1>1, ListIs
            <4>2. [AtRest(autoTicket) EXCEPT !.pc = "rule", !.rules = rules] \in AutoRun
                BY <1>2, <4>1, RestIsRun
            <4>3. QED
                BY <1>2, <3>1, <3>2, <4>2
        <3>3. CASE ~(enabled /\ rules # <<>>)
            BY <1>1, <1>8, <3>1, <3>3, JobEnds DEF LoadTicketAndRules
        <3>4. QED
            BY <3>2, <3>3
    <2>2. QED
        BY <1>2, <1>8, <2>1 DEF LoadTicketAndRules, AutomationTypeOK
<1>9. CASE EvaluateRule
    <2>1. Current \in Rules /\ Head(autoRun.rules).content \in RuleContents
        BY <1>1, <1>9, CurrentIs DEF EvaluateRule, Busy
    <2>2. Head(autoRun.rules).content.actions \in Seq(RuleActions)
        BY <2>1, AutomationAssumption
    <2>3. /\ \/ autoRun' = [autoRun EXCEPT !.pc = "action", !.seen = autoRun.event,
                                           !.actions = Head(autoRun.rules).content.actions, !.failed = FALSE]
             \/ autoRun' = [autoRun EXCEPT !.pc = "skip"]
          /\ autoBegun' \in {autoBegun, [autoBegun EXCEPT ![Current] = @ + 1]}
          /\ UNCHANGED <<autoRule, autoTicket, autoJob, autoRecords, autoNotified,
                         autoWrites, autoEntries, autoChanges, autoFaults>>
        BY <1>9 DEF EvaluateRule
    <2>4. autoRun' \in AutoRun
        BY <1>2, <2>2, <2>3 DEF AutoRun
    <2>5. autoBegun' \in [Rules -> Nat]
        BY <1>2, <2>1, <2>3
    <2>6. QED
        BY <1>2, <2>3, <2>4, <2>5 DEF AutomationTypeOK
<1>10. CASE BeginAction
    <2>1. PICK plan \in Plans(Head(autoRun.actions), autoRun.seen) :
              autoRun' = CASE plan = Failure -> [autoRun EXCEPT !.pc = "refresh", !.failed = TRUE]
                           [] plan = <<>> -> [autoRun EXCEPT !.pc = "refresh"]
                           [] OTHER -> [autoRun EXCEPT !.pc = "statement", !.todo = plan]
        BY <1>10 DEF BeginAction
    <2>2. Head(autoRun.actions) \in RuleActions /\ autoRun.seen \in AutoTicket
        <3>1. autoRun.actions \in Seq(RuleActions) /\ autoRun.actions # <<>> /\ autoRun.seen \in AutoTicket
            BY <1>1, <1>10, RunIs DEF BeginAction
        <3>2. QED
            BY <3>1, HeadTailProperties
    <2>3. plan # Failure => plan \in Seq(Statements)
        BY <2>2, PlansFit DEF PlanFit
    <2>4. autoRun' \in AutoRun
        <3>1. CASE plan = Failure
            BY <1>2, <2>1, <3>1 DEF AutoRun
        <3>2. CASE plan # Failure /\ plan = <<>>
            BY <1>2, <2>1, <3>2 DEF AutoRun
        <3>3. CASE plan # Failure /\ plan # <<>>
            BY <1>2, <2>1, <2>3, <3>3 DEF AutoRun
        <3>4. QED
            BY <3>1, <3>2, <3>3
    <2>5. QED
        BY <1>2, <1>10, <2>4 DEF BeginAction, AutomationTypeOK
<1>11. CASE ExecuteStatement
    <2> DEFINE statement == Head(autoRun.todo)
    <2>1. /\ autoRun.pc = "statement"
          /\ autoTicket' = IF statement.kind = "row"
                           THEN [autoTicket EXCEPT ![statement.field] = statement.value]
                           ELSE autoTicket
          /\ autoWrites' = autoWrites + (IF statement.kind = "row" THEN 1 ELSE 0)
          /\ autoEntries' = autoEntries + (IF statement.kind = "history" THEN 1 ELSE 0)
          /\ autoNotified' = [autoNotified EXCEPT ![Current] = @ + (IF statement.kind = "notification" THEN 1 ELSE 0)]
          /\ autoRun' = [autoRun EXCEPT !.todo = Tail(@),
                              !.pc = IF Tail(autoRun.todo) = <<>> THEN "refresh" ELSE "statement"]
          /\ UNCHANGED <<autoRule, autoJob, autoRecords, autoBegun, autoChanges, autoFaults>>
        BY <1>11 DEF ExecuteStatement
    <2>2. statement \in Statements /\ Tail(autoRun.todo) \in Seq(Statements)
        BY <1>1, <2>1, TailFits DEF RunFit, PlanFit
    <2>3. Current \in Rules
        BY <1>1, <2>1, CurrentIs DEF Busy
    <2>4. autoRun' \in AutoRun
        BY <1>2, <2>1, <2>2 DEF AutoRun
    <2> HIDE DEF statement
    <2>5. autoTicket' \in AutoTicket
        <3>1. CASE statement.kind # "row"
            BY <1>2, <2>1, <3>1
        <3>2. CASE statement.kind = "row" /\ statement.field = "status"
            <4>1. statement.value \in Status
                BY <2>2, <3>2 DEF Statements
            <4>2. autoTicket' = [autoTicket EXCEPT !["status"] = statement.value]
                BY <2>1, <3>2
            <4>3. QED
                BY <1>2, <4>1, <4>2 DEF AutoTicket
        <3>3. CASE statement.kind = "row" /\ statement.field = "priority"
            <4>1. statement.value \in Priorities
                BY <2>2, <3>3 DEF Statements
            <4>2. autoTicket' = [autoTicket EXCEPT !["priority"] = statement.value]
                BY <2>1, <3>3
            <4>3. QED
                BY <1>2, <4>1, <4>2 DEF AutoTicket
        <3>4. CASE statement.kind = "row" /\ statement.field = "assignee"
            <4>1. statement.value \in Assignees
                BY <2>2, <3>4 DEF Statements
            <4>2. autoTicket' = [autoTicket EXCEPT !["assignee"] = statement.value]
                BY <2>1, <3>4
            <4>3. QED
                BY <1>2, <4>1, <4>2 DEF AutoTicket
        <3>5. statement.kind = "row" => statement.field \in {"status", "priority", "assignee"}
            BY <2>2 DEF Statements
        <3>6. QED
            BY <3>1, <3>2, <3>3, <3>4, <3>5
    <2>6. autoWrites' \in Nat /\ autoEntries' \in Nat
        BY <1>2, <2>1
    <2>7. autoNotified' \in [Rules -> Nat]
        <3>1. autoNotified[Current] + (IF statement.kind = "notification" THEN 1 ELSE 0) \in Nat
            BY <1>2, <2>3
        <3>2. QED
            BY <1>2, <2>1, <3>1
    <2>8. QED
        BY <1>2, <2>1, <2>4, <2>5, <2>6, <2>7 DEF AutomationTypeOK
<1>12. CASE RefreshTicket
    <2>1. Tail(autoRun.actions) \in Seq(RuleActions)
        <3>1. autoRun.actions \in Seq(RuleActions) /\ autoRun.actions # <<>>
            BY <1>1, <1>12, RunIs DEF RefreshTicket, RunFit
        <3>2. QED
            BY <3>1, HeadTailProperties
    <2>2. autoRun' \in AutoRun
        BY <1>2, <1>12, <2>1 DEF RefreshTicket, AutoRun
    <2>3. QED
        BY <1>2, <1>12, <2>2 DEF RefreshTicket, AutomationTypeOK
<1>13. ASSUME NEW status \in ExecutionStatus, CreateExecution(status), autoRun.pc \in Busy
       PROVE  autoRecords' \in [Rules -> [ExecutionStatus -> Nat]]
    <2>1. Current \in Rules
        BY <1>1, <1>13, CurrentIs
    <2>2. QED
        BY <1>2, <1>13, <2>1 DEF CreateExecution
<1>14. CASE RecordSkip
    <2>1. autoRun.pc \in Busy /\ "SKIPPED" \in ExecutionStatus /\ autoRun.pc # "idle"
        BY <1>14 DEF RecordSkip, Busy, ExecutionStatus
    <2>2. autoJob' \in JobRecord /\ autoRun' \in AutoRun /\ autoRecords' \in [Rules -> [ExecutionStatus -> Nat]]
        <3>1. CASE RuleDeleted
            BY <1>1, <1>2, <1>14, <2>1, <3>1, JobEnds DEF RecordSkip
        <3>2. CASE ~RuleDeleted
            BY <1>1, <1>13, <1>14, <2>1, <3>2, NextRuleGoesOn DEF RecordSkip
        <3>3. QED
            BY <3>1, <3>2
    <2>3. QED
        BY <1>2, <1>14, <2>2 DEF RecordSkip, AutomationTypeOK
<1>15. CASE RecordExecution
    <2>1. autoRun.pc \in Busy /\ {"COMPLETED", "FAILED"} \subseteq ExecutionStatus
        BY <1>15 DEF RecordExecution, Busy, ExecutionStatus
    <2>2. autoJob' \in JobRecord /\ autoRun' \in AutoRun /\ autoRecords' \in [Rules -> [ExecutionStatus -> Nat]]
        <3>1. CASE RuleDeleted
            BY <1>2, <1>15, <3>1 DEF RecordExecution, AutoRun
        <3>2. CASE ~RuleDeleted
            <4>1. NextRule /\ \E status \in ExecutionStatus : CreateExecution(status)
                BY <1>15, <2>1, <3>2 DEF RecordExecution
            <4>2. QED
                BY <1>1, <1>13, <2>1, <4>1, NextRuleGoesOn
        <3>3. QED
            BY <3>1, <3>2
    <2>3. QED
        BY <1>2, <1>15, <2>2 DEF RecordExecution, AutomationTypeOK
<1>16. CASE RescueExecution
    <2>1. autoRun.pc \in Busy /\ "FAILED" \in ExecutionStatus /\ autoRun.pc # "idle"
        BY <1>16 DEF RescueExecution, Busy, ExecutionStatus
    <2>2. autoJob' \in JobRecord /\ autoRun' \in AutoRun
        BY <1>1, <1>16, <2>1, JobEnds DEF RescueExecution
    <2>3. autoRecords' \in [Rules -> [ExecutionStatus -> Nat]]
        BY <1>2, <1>13, <1>16, <2>1 DEF RescueExecution
    <2>4. QED
        BY <1>2, <1>16, <2>2, <2>3 DEF RescueExecution, AutomationTypeOK
<1>17. CASE ReportDeadAutomationJob
    <2>1. autoJob' \in JobRecord
        BY <1>2, <1>17, JobSteps DEF ReportDeadAutomationJob
    <2>2. QED
        BY <1>2, <1>17, <2>1 DEF ReportDeadAutomationJob, AutomationTypeOK
<1>18. CASE AutoStatementFails
    <2>1. autoFaults' \in [AutoFaultKinds -> 0..MaxAutoFaults]
        BY <1>1, <1>18, FaultCounts DEF AutoStatementFails
    <2>2. autoJob' \in JobRecord /\ autoRun' \in AutoRun
        <3>1. CASE /\ autoRun' = [autoRun EXCEPT !.pc = "refresh", !.failed = TRUE, !.todo = <<>>]
                   /\ UNCHANGED autoJob
            <4>1. <<>> \in Seq(Statements)
                OBVIOUS
            <4>2. QED
                BY <1>2, <3>1, <4>1 DEF AutoRun
        <3>2. CASE autoRun' = [autoRun EXCEPT !.pc = "rescue"] /\ UNCHANGED autoJob
            BY <1>2, <3>2 DEF AutoRun
        <3>3. CASE AutomationJobThrows /\ autoRun.pc # "idle"
            BY <1>1, <3>3, JobEnds
        <3>4. QED
            BY <1>18, <3>1, <3>2, <3>3 DEF AutoStatementFails
    <2>3. QED
        BY <1>2, <1>18, <2>1, <2>2 DEF AutoStatementFails, AutomationTypeOK
<1>19. CASE DeadAutomationJobUnreported
    <2>1. autoJob' \in JobRecord /\ autoFaults' \in [AutoFaultKinds -> 0..MaxAutoFaults]
        BY <1>1, <1>2, <1>19, JobSteps, FaultCounts DEF DeadAutomationJobUnreported
    <2>2. QED
        BY <1>2, <1>19, <2>1 DEF DeadAutomationJobUnreported, AutomationTypeOK
<1>20. CASE AutoCrash
    <2>1. /\ autoJob' \in JobRecord /\ autoFaults' \in [AutoFaultKinds -> 0..MaxAutoFaults]
          /\ autoRun' \in AutoRun
        BY <1>1, <1>2, <1>20, StalledJob, FaultCounts, RestIsRun, RunIs DEF AutoCrash, RunFit
    <2>2. QED
        BY <1>2, <1>20, <2>1 DEF AutoCrash, AutomationTypeOK
<1>21. QED
    BY <1>4, <1>5, <1>6, <1>7, <1>8, <1>9, <1>10, <1>11, <1>12, <1>14, <1>15, <1>16, <1>17, <1>18, <1>19, <1>20
    DEF AutomationNext, AutomationStep

-----------------------------------------------------------------------------
(* Where the processor stands *)

\* Steps that leave the rules of the run, and whether it executes one.
LEMMA SameRules ==
    ASSUME RunFit, autoRun'.rules = autoRun.rules, autoRun'.pc \in Busy, autoRun.pc \in Busy,
           UNCHANGED autoJob,
           autoRun'.pc \in {"statement", "refresh"} => autoRun'.actions # <<>>,
           autoRun'.pc = "statement" => autoRun'.todo # <<>> /\ PlanFit(autoRun'.todo)
    PROVE  RunFit'
BY DEF RunFit, Busy

\* Steps after which the processor is idle.
LEMMA IdleFits ==
    ASSUME autoRun'.pc = "idle", autoRun'.rules = <<>>, autoJob'.state # "active",
           autoJob'.state \in {"none", "waiting"} => autoJob'.attempts < JobAttempts
    PROVE  RunFit'
BY DEF RunFit, Busy

LEMMA RunSteps ==
    ASSUME AutoInv, AutomationNext
    PROVE  RunFit'
<1>1. AutomationTypeOK /\ RunFit
    BY DEF AutoInv
<1>2. autoJob \in JobRecord /\ autoRun \in AutoRun
    BY <1>1 DEF AutomationTypeOK
<1>3. UNCHANGED <<autoRun, autoJob>> => RunFit'
    BY <1>1 DEF RunFit
<1>4. (\E r \in Rules : CreateRule(r) \/ UpdateRule(r) \/ DeleteRule(r)) \/ UserChangesTicket
         => UNCHANGED <<autoRun, autoJob>>
    BY DEF CreateRule, UpdateRule, DeleteRule, UserChangesTicket
<1>5. ASSUME autoRun.pc = "idle", UNCHANGED autoRun, autoJob'.state # "active",
             autoJob'.state \in {"none", "waiting"} => autoJob'.attempts < JobAttempts
      PROVE  RunFit'
    BY <1>1, <1>5 DEF RunFit, Busy
<1>6. CASE ProcessEvent
    <2>1. autoRun.pc = "idle" /\ autoJob.state = "none"
        BY <1>1, <1>6 DEF ProcessEvent, RunFit, NoJob
    <2>2. autoJob'.state = "waiting" /\ autoJob'.attempts < JobAttempts
        BY <1>1, <1>2, <1>6, <2>1, JobSteps DEF ProcessEvent, RunFit
    <2>3. QED
        BY <1>5, <1>6, <2>1, <2>2 DEF ProcessEvent
<1>7. CASE TakeAutomationJob
    <2>1. /\ autoRun' = [AtRest(autoRun.event) EXCEPT !.pc = "load"]
          /\ autoJob'.state = "active" /\ autoJob'.attempts < JobAttempts
        BY <1>1, <1>2, <1>7, JobSteps DEF TakeAutomationJob, RunFit
    <2>2. autoRun'.pc = "load" /\ autoRun'.rules = <<>>
        BY <2>1 DEF AtRest
    <2>3. QED
        BY <2>1, <2>2 DEF RunFit, Busy
<1>8. CASE LoadTicketAndRules
    <2>1. PICK enabled \in BOOLEAN, rules \in ActiveRules :
              IF enabled /\ rules # <<>>
              THEN /\ autoRun' = [AtRest(autoTicket) EXCEPT !.pc = "rule", !.rules = rules]
                   /\ UNCHANGED autoJob
              ELSE CompleteAutomationJob
        BY <1>8 DEF LoadTicketAndRules
    <2>2. CASE enabled /\ rules # <<>>
        <3>1. autoRun'.pc = "rule" /\ autoRun'.rules = rules /\ autoJob' = autoJob
            BY <2>1, <2>2 DEF AtRest
        <3>2. \A i, j \in DOMAIN rules : i # j => rules[i].rule # rules[j].rule
            BY <1>1, ListIs
        <3>3. autoJob.state = "active" /\ autoJob.attempts < JobAttempts
            BY <1>1, <1>8 DEF LoadTicketAndRules, RunFit
        <3>4. QED
            BY <2>2, <3>1, <3>2, <3>3 DEF RunFit
    <2>3. CASE ~(enabled /\ rules # <<>>)
        <3>1. CompleteAutomationJob /\ autoRun.pc # "idle"
            BY <1>8, <2>1, <2>3 DEF LoadTicketAndRules
        <3>2. QED
            BY <1>1, <3>1, JobEnds, IdleFits
    <2>4. QED
        BY <2>2, <2>3
<1>9. CASE EvaluateRule
    <2>1. /\ autoRun.pc = "rule" /\ autoJob' = autoJob
          /\ \/ autoRun' = [autoRun EXCEPT !.pc = "action", !.seen = autoRun.event,
                                           !.actions = Head(autoRun.rules).content.actions, !.failed = FALSE]
             \/ autoRun' = [autoRun EXCEPT !.pc = "skip"]
        BY <1>9 DEF EvaluateRule
    <2>2. autoRun'.pc \in {"action", "skip"} /\ autoRun'.rules = autoRun.rules
        BY <1>2, <2>1 DEF AutoRun
    <2>3. QED
        BY <1>1, <2>1, <2>2, SameRules DEF Busy
<1>10. CASE BeginAction
    <2>1. PICK plan \in Plans(Head(autoRun.actions), autoRun.seen) :
              autoRun' = CASE plan = Failure -> [autoRun EXCEPT !.pc = "refresh", !.failed = TRUE]
                           [] plan = <<>> -> [autoRun EXCEPT !.pc = "refresh"]
                           [] OTHER -> [autoRun EXCEPT !.pc = "statement", !.todo = plan]
        BY <1>10 DEF BeginAction
    <2>2. autoRun.pc = "action" /\ autoRun.actions # <<>> /\ autoJob' = autoJob
        BY <1>10 DEF BeginAction
    <2>3. Head(autoRun.actions) \in RuleActions /\ autoRun.seen \in AutoTicket
        <3>1. autoRun.actions \in Seq(RuleActions) /\ autoRun.seen \in AutoTicket
            BY <1>1, RunIs
        <3>2. QED
            BY <2>2, <3>1, HeadTailProperties
    <2>4. CASE plan = Failure \/ plan = <<>>
        <3>1. \/ autoRun' = [autoRun EXCEPT !.pc = "refresh", !.failed = TRUE]
              \/ autoRun' = [autoRun EXCEPT !.pc = "refresh"]
            BY <2>1, <2>4
        <3>2. autoRun'.pc = "refresh" /\ autoRun'.rules = autoRun.rules /\ autoRun'.actions = autoRun.actions
            BY <1>2, <3>1 DEF AutoRun
        <3>3. QED
            BY <1>1, <2>2, <3>2, SameRules DEF Busy
    <2>5. CASE plan # Failure /\ plan # <<>>
        <3>1. autoRun' = [autoRun EXCEPT !.pc = "statement", !.todo = plan]
            BY <2>1, <2>5
        <3>2. /\ autoRun'.pc = "statement" /\ autoRun'.rules = autoRun.rules
              /\ autoRun'.actions = autoRun.actions /\ autoRun'.todo = plan
            BY <1>2, <3>1 DEF AutoRun
        <3>3. PlanFit(plan)
            BY <2>3, <2>5, PlansFit
        <3>4. QED
            BY <1>1, <2>2, <2>5, <3>2, <3>3, SameRules DEF Busy
    <2>6. QED
        BY <2>4, <2>5
<1>11. CASE ExecuteStatement
    <2>1. /\ autoRun.pc = "statement" /\ autoJob' = autoJob
          /\ autoRun' = [autoRun EXCEPT !.todo = Tail(@),
                              !.pc = IF Tail(autoRun.todo) = <<>> THEN "refresh" ELSE "statement"]
        BY <1>11 DEF ExecuteStatement
    <2>2. /\ autoRun'.todo = Tail(autoRun.todo) /\ autoRun'.rules = autoRun.rules
          /\ autoRun'.actions = autoRun.actions
          /\ autoRun'.pc \in {"refresh", "statement"}
          /\ autoRun'.pc = "statement" => Tail(autoRun.todo) # <<>>
        BY <1>2, <2>1 DEF AutoRun
    <2>3. PlanFit(Tail(autoRun.todo)) /\ autoRun.actions # <<>>
        BY <1>1, <2>1, TailFits DEF RunFit
    <2>4. QED
        BY <1>1, <2>1, <2>2, <2>3, SameRules DEF Busy
<1>12. CASE RefreshTicket
    <2>1. autoRun.pc = "refresh" /\ autoJob' = autoJob /\ autoRun'.pc = "action" /\ autoRun'.rules = autoRun.rules
        BY <1>2, <1>12 DEF RefreshTicket, AutoRun
    <2>2. QED
        BY <1>1, <2>1, SameRules DEF Busy
<1>13. ASSUME NextRule, autoRun.pc \in Busy PROVE RunFit'
    <2>1. \/ /\ autoRun'.pc = "rule" /\ autoRun'.rules = Tail(autoRun.rules) /\ autoRun'.rules # <<>>
             /\ autoJob' = autoJob
          \/ /\ autoRun'.pc = "idle" /\ autoRun'.rules = <<>> /\ autoJob'.state = "completed"
        BY <1>1, <1>13, NextRuleGoesOn
    <2>2. CASE /\ autoRun'.pc = "rule" /\ autoRun'.rules = Tail(autoRun.rules) /\ autoRun'.rules # <<>>
               /\ autoJob' = autoJob
        <3>1. autoJob.state = "active" /\ autoJob.attempts < JobAttempts
            BY <1>1, <1>13 DEF RunFit, Busy
        <3>2. ASSUME NEW i \in DOMAIN autoRun'.rules, NEW j \in DOMAIN autoRun'.rules, i # j
              PROVE  autoRun'.rules[i].rule # autoRun'.rules[j].rule
            <4>1. /\ i + 1 \in DOMAIN autoRun.rules /\ autoRun'.rules[i] = autoRun.rules[i + 1]
                  /\ j + 1 \in DOMAIN autoRun.rules /\ autoRun'.rules[j] = autoRun.rules[j + 1]
                BY <1>1, <1>13, <2>2, <3>2, CurrentIs
            <4>2. i \in Int /\ j \in Int
                <5>1. Tail(autoRun.rules) \in Seq([rule : Rules, content : RuleContents])
                    BY <1>1, <1>13, CurrentIs
                <5>2. DOMAIN Tail(autoRun.rules) = 1..Len(Tail(autoRun.rules))
                    BY <5>1, LenProperties
                <5>3. QED
                    BY <2>2, <3>2, <5>2
            <4>3. i + 1 # j + 1
                BY <3>2, <4>2
            <4>4. QED
                BY <1>1, <4>1, <4>3 DEF RunFit
        <3>3. QED
            BY <2>2, <3>1, <3>2 DEF RunFit
    <2>3. CASE autoRun'.pc = "idle" /\ autoRun'.rules = <<>> /\ autoJob'.state = "completed"
        BY <2>3, IdleFits
    <2>4. QED
        BY <2>1, <2>2, <2>3
<1>14. ASSUME AutomationJobThrows, autoRun.pc # "idle" PROVE RunFit'
    BY <1>1, <1>14, JobEnds, IdleFits
<1>15. CASE RecordSkip
    BY <1>13, <1>14, <1>15 DEF RecordSkip, Busy
<1>16. ASSUME autoRun' = [autoRun EXCEPT !.pc = "rescue"], UNCHANGED autoJob, autoRun.pc \in Busy PROVE RunFit'
    <2>1. autoRun'.pc = "rescue" /\ autoRun'.rules = autoRun.rules
        BY <1>2, <1>16 DEF AutoRun
    <2>2. QED
        BY <1>1, <1>16, <2>1, SameRules DEF Busy
<1>17. CASE RecordExecution
    BY <1>13, <1>16, <1>17 DEF RecordExecution, Busy
<1>18. CASE RescueExecution
    BY <1>14, <1>18 DEF RescueExecution
<1>19. CASE ReportDeadAutomationJob \/ DeadAutomationJobUnreported
    <2>1. autoRun.pc = "idle" /\ autoRun' = autoRun
        BY <1>1, <1>19 DEF ReportDeadAutomationJob, DeadAutomationJobUnreported, RunFit
    <2>2. autoJob'.state \in {"dead", "unreported"}
        <3>1. CASE ReportDeadAutomationJob
            BY <1>2, <3>1, JobSteps DEF ReportDeadAutomationJob
        <3>2. CASE DeadAutomationJobUnreported
            BY <1>2, <3>2, JobSteps DEF DeadAutomationJobUnreported
        <3>3. QED
            BY <1>19, <3>1, <3>2
    <2>3. QED
        BY <1>5, <2>1, <2>2
<1>20. CASE AutoStatementFails
    <2>1. CASE /\ autoRun.pc = "statement" \/ (autoRun.pc = "action" /\ autoRun.actions # <<>>)
               /\ autoRun' = [autoRun EXCEPT !.pc = "refresh", !.failed = TRUE, !.todo = <<>>]
               /\ UNCHANGED autoJob
        <3>1. /\ autoRun'.pc = "refresh" /\ autoRun'.rules = autoRun.rules
              /\ autoRun'.actions = autoRun.actions
            BY <1>2, <2>1 DEF AutoRun
        <3>2. autoRun.actions # <<>> /\ autoRun.pc \in Busy
            BY <1>1, <2>1 DEF RunFit, Busy
        <3>3. QED
            BY <1>1, <2>1, <3>1, <3>2, SameRules DEF Busy
    <2>2. CASE /\ autoRun.pc = "refresh" \/ (autoRun.pc = "action" /\ autoRun.actions = <<>>)
               /\ autoRun' = [autoRun EXCEPT !.pc = "rescue"]
               /\ UNCHANGED autoJob
        BY <1>16, <2>2 DEF Busy
    <2>3. CASE autoRun.pc \in {"load", "skip", "rescue"} /\ AutomationJobThrows
        BY <1>14, <2>3
    <2>4. QED
        BY <1>20, <2>1, <2>2, <2>3 DEF AutoStatementFails
<1>21. CASE AutoCrash
    <2>1. autoRun' = AtRest(autoRun.event) /\ autoJob' \in Stalled(autoJob) /\ autoRun.pc # "idle"
        BY <1>21 DEF AutoCrash
    <2>2. autoRun'.pc = "idle" /\ autoRun'.rules = <<>>
        BY <2>1 DEF AtRest
    <2>3. /\ autoJob'.state \in {"waiting", "dropped", "failed"}
          /\ autoJob'.state = "waiting" => autoJob'.attempts < JobAttempts
        BY <1>1, <1>2, <2>1, StalledJob DEF RunFit
    <2>4. QED
        BY <2>2, <2>3, IdleFits
<1>22. QED
    BY <1>3, <1>4, <1>6, <1>7, <1>8, <1>9, <1>10, <1>11, <1>12, <1>15, <1>17, <1>18, <1>19, <1>20, <1>21
    DEF AutomationNext, AutomationStep

-----------------------------------------------------------------------------
(* How often a rule was begun *)

LEMMA AttemptedType ==
    ASSUME AutomationTypeOK
    PROVE  /\ Attempted \in Nat /\ autoJob.attempts \in Nat
           /\ Faults("statement") \in Nat /\ Faults("crash") \in Nat
<1>1. autoJob \in JobRecord
    BY DEF AutomationTypeOK
<1>2. autoJob.attempts \in Nat /\ Faults("statement") \in Nat /\ Faults("crash") \in Nat
    BY <1>1, JobSteps, FaultsType
<1>3. QED
    BY <1>2 DEF Attempted

LEMMA BegunSteps ==
    ASSUME AutoInv, AutomationNext
    PROVE  BegunFit'
<1>1. AutomationTypeOK /\ RunFit /\ BegunFit /\ AutomationTypeOK'
    BY TypeSteps DEF AutoInv
<1>2. /\ autoJob \in JobRecord /\ autoRun \in AutoRun /\ autoBegun \in [Rules -> Nat]
      /\ Attempted \in Nat
    BY <1>1, AttemptedType DEF AutomationTypeOK
<1>3. UNCHANGED autoFaults => \A k : Faults(k)' = Faults(k)
    BY DEF Faults
<1>4. UNCHANGED <<autoFaults, autoJob>> => Attempted' = Attempted
    BY <1>3 DEF Attempted
<1>5. ASSUME UNCHANGED <<autoBegun, autoJob>>, Attempted' = Attempted, autoRun'.rules = autoRun.rules,
             autoRun.pc \in Busy, autoRun'.pc \in Busy,
             autoRun'.pc \in {"rule", "skip"} => autoRun.pc \in {"rule", "skip"}
      PROVE  BegunFit'
    <2>1. autoRun'.pc # "load" /\ autoJob.state = "active"
        BY <1>1, <1>5 DEF RunFit, Busy
    <2>2. QED
        BY <1>1, <1>5, <2>1 DEF BegunFit
\* The processor is idle and no attempt is to come.
<1>6. ASSUME UNCHANGED autoBegun, Attempted' = Attempted, autoRun'.pc = "idle",
             autoJob'.state \notin {"none", "waiting"}
      PROVE  BegunFit'
    BY <1>1, <1>6 DEF BegunFit, Busy
\* An attempt is over, and one more attempt allows one more execution; a crash
\* that BullMQ counts as an attempt is counted twice.
<1>7. ASSUME UNCHANGED autoBegun, Attempted' \in {Attempted + 1, Attempted + 2}, autoRun'.pc = "idle"
      PROVE  BegunFit'
    <2>1. \A r \in Rules : autoBegun[r] \in Nat /\ autoBegun[r] <= 1 + Attempted
        BY <1>1, <1>2 DEF BegunFit
    <2>2. \A r \in Rules : autoBegun'[r] <= Attempted' /\ autoBegun'[r] <= 1 + Attempted'
        BY <1>2, <1>7, <2>1
    <2>3. autoRun'.pc \notin Busy
        BY <1>7 DEF Busy
    <2>4. QED
        BY <2>2, <2>3 DEF BegunFit
<1>8. ASSUME UNCHANGED autoFaults, AutomationJobThrows, UNCHANGED autoBegun, autoRun.pc # "idle" PROVE BegunFit'
    <2>1. autoRun'.pc = "idle" /\ autoJob'.attempts = autoJob.attempts + 1
        BY <1>1, <1>2, <1>8, JobEnds, JobSteps DEF AutomationJobThrows
    <2>2. Attempted' = Attempted + 1
        BY <1>1, <1>3, <1>8, <2>1, AttemptedType DEF Attempted
    <2>3. QED
        BY <1>7, <1>8, <2>1, <2>2
<1>9. ASSUME UNCHANGED <<autoBegun, autoFaults>>, NextRule, autoRun.pc \in Busy PROVE BegunFit'
    <2>1. \/ /\ autoRun'.pc = "rule" /\ autoRun'.rules = Tail(autoRun.rules) /\ autoJob' = autoJob
          \/ /\ autoRun'.pc = "idle" /\ autoJob'.state = "completed" /\ autoJob'.attempts = autoJob.attempts
        BY <1>1, <1>9, NextRuleGoesOn
    <2>2. CASE autoRun'.pc = "rule" /\ autoRun'.rules = Tail(autoRun.rules) /\ autoJob' = autoJob
        <3>1. Attempted' = Attempted /\ autoJob.state = "active"
            BY <1>1, <1>4, <1>9, <2>2 DEF RunFit, Busy
        <3>2. ASSUME NEW i \in DOMAIN autoRun'.rules PROVE autoBegun[autoRun'.rules[i].rule] <= Attempted
            <4>1. i + 1 \in DOMAIN autoRun.rules /\ i + 1 > 1 /\ autoRun'.rules[i] = autoRun.rules[i + 1]
                BY <1>1, <1>9, <2>2, <3>2, CurrentIs
            <4>2. QED
                BY <1>1, <1>9, <4>1 DEF BegunFit
        <3>3. QED
            BY <1>1, <1>9, <2>2, <3>1, <3>2 DEF BegunFit
    <2>3. CASE autoRun'.pc = "idle" /\ autoJob'.state = "completed" /\ autoJob'.attempts = autoJob.attempts
        <3>1. Attempted' = Attempted
            BY <1>3, <1>9, <2>3 DEF Attempted
        <3>2. QED
            BY <1>6, <1>9, <2>3, <3>1
    <2>4. QED
        BY <2>1, <2>2, <2>3
<1>10. CASE (\E r \in Rules : CreateRule(r) \/ UpdateRule(r) \/ DeleteRule(r)) \/ UserChangesTicket
    <2>1. UNCHANGED <<autoRun, autoJob, autoBegun, autoFaults>>
        BY <1>10 DEF CreateRule, UpdateRule, DeleteRule, UserChangesTicket
    <2>2. Attempted' = Attempted
        BY <1>4, <2>1
    <2>3. QED
        BY <1>1, <2>1, <2>2 DEF BegunFit
<1>11. CASE ProcessEvent
    <2>1. /\ autoRun.pc = "idle" /\ autoJob.state = "none" /\ UNCHANGED <<autoRun, autoBegun, autoFaults>>
          /\ autoJob'.attempts = autoJob.attempts
        BY <1>1, <1>2, <1>11, JobSteps DEF ProcessEvent, RunFit, NoJob
    <2>2. Attempted' = Attempted
        BY <1>3, <2>1 DEF Attempted
    <2>3. QED
        BY <1>1, <2>1, <2>2 DEF BegunFit, Busy
<1>12. CASE TakeAutomationJob
    <2>1. /\ autoJob.state = "waiting" /\ UNCHANGED <<autoBegun, autoFaults>>
          /\ autoJob'.attempts = autoJob.attempts /\ autoRun' = [AtRest(autoRun.event) EXCEPT !.pc = "load"]
        BY <1>2, <1>12, JobSteps DEF TakeAutomationJob
    <2>2. autoRun'.pc = "load" /\ Attempted' = Attempted
        BY <1>3, <2>1 DEF AtRest, Attempted
    <2>3. QED
        BY <1>1, <2>1, <2>2 DEF BegunFit, Busy
<1>13. CASE LoadTicketAndRules
    <2>1. PICK enabled \in BOOLEAN, rules \in ActiveRules :
              IF enabled /\ rules # <<>>
              THEN /\ autoRun' = [AtRest(autoTicket) EXCEPT !.pc = "rule", !.rules = rules]
                   /\ UNCHANGED autoJob
              ELSE CompleteAutomationJob
        BY <1>13 DEF LoadTicketAndRules
    <2>2. autoRun.pc = "load" /\ UNCHANGED <<autoBegun, autoFaults>>
        BY <1>13 DEF LoadTicketAndRules
    <2>3. \A r \in Rules : autoBegun[r] <= Attempted
        BY <1>1, <2>2 DEF BegunFit
    <2>4. CASE enabled /\ rules # <<>>
        <3>1. autoRun'.pc = "rule" /\ autoRun'.rules = rules /\ autoJob' = autoJob /\ Attempted' = Attempted
            BY <1>4, <2>1, <2>2, <2>4 DEF AtRest
        <3>2. \A i \in DOMAIN rules : rules[i].rule \in Rules
            BY <1>1, ListIs
        <3>3. autoJob.state = "active"
            BY <1>1, <2>2 DEF RunFit
        <3>4. QED
            BY <1>1, <2>2, <2>3, <3>1, <3>2, <3>3 DEF BegunFit
    <2>5. CASE ~(enabled /\ rules # <<>>)
        <3>1. autoRun' = AtRest(autoRun.event) /\ autoJob' = Succeeded(autoJob)
            BY <2>1, <2>5 DEF CompleteAutomationJob
        <3>2. autoRun'.pc = "idle" /\ autoJob'.state = "completed" /\ autoJob'.attempts = autoJob.attempts
            BY <1>2, <3>1, JobSteps DEF AtRest
        <3>3. Attempted' = Attempted
            BY <1>3, <2>2, <3>2 DEF Attempted
        <3>4. QED
            BY <1>6, <2>2, <3>2, <3>3
    <2>6. QED
        BY <2>4, <2>5
<1>14. CASE EvaluateRule
    <2>1. /\ autoRun.pc = "rule" /\ UNCHANGED <<autoJob, autoFaults>>
          /\ \/ /\ autoRun' = [autoRun EXCEPT !.pc = "action", !.seen = autoRun.event,
                                              !.actions = Head(autoRun.rules).content.actions, !.failed = FALSE]
                /\ autoBegun' = [autoBegun EXCEPT ![Current] = @ + 1]
             \/ autoRun' = [autoRun EXCEPT !.pc = "skip"] /\ UNCHANGED autoBegun
        BY <1>14 DEF EvaluateRule
    <2>2. Attempted' = Attempted /\ autoJob.state = "active"
        BY <1>1, <1>4, <2>1 DEF RunFit
    <2>3. CASE autoRun' = [autoRun EXCEPT !.pc = "skip"] /\ UNCHANGED autoBegun
        <3>1. autoRun'.pc = "skip" /\ autoRun'.rules = autoRun.rules
            BY <1>2, <2>3 DEF AutoRun
        <3>2. QED
            BY <1>5, <2>1, <2>2, <2>3, <3>1 DEF Busy
    <2>4. CASE /\ autoRun' = [autoRun EXCEPT !.pc = "action", !.seen = autoRun.event,
                                             !.actions = Head(autoRun.rules).content.actions, !.failed = FALSE]
               /\ autoBegun' = [autoBegun EXCEPT ![Current] = @ + 1]
        <3>1. autoRun'.pc = "action" /\ autoRun'.rules = autoRun.rules
            BY <1>2, <2>4 DEF AutoRun
        <3>2. Current \in Rules /\ Current = autoRun.rules[1].rule /\ 1 \in DOMAIN autoRun.rules
            BY <1>1, <2>1, CurrentIs DEF Busy
        <3>3. \A i \in DOMAIN autoRun.rules : autoBegun[autoRun.rules[i].rule] <= Attempted
            BY <1>1, <2>1 DEF BegunFit, Busy
        <3>4. autoBegun[Current] <= Attempted
            BY <3>2, <3>3
        <3>5. \A r \in Rules : autoBegun'[r] <= 1 + Attempted
            BY <1>1, <1>2, <2>4, <3>2, <3>4 DEF BegunFit
        <3>6. ASSUME NEW i \in DOMAIN autoRun.rules, i > 1 PROVE autoBegun'[autoRun.rules[i].rule] <= Attempted
            <4>1. autoRun.rules[i].rule # Current
                BY <1>1, <3>2, <3>6 DEF RunFit
            <4>2. autoRun.rules[i].rule \in Rules
                <5>1. autoRun.rules \in Seq([rule : Rules, content : RuleContents])
                    BY <1>1, RunIs
                <5>2. autoRun.rules[i] \in [rule : Rules, content : RuleContents]
                    <6> DEFINE entries == [rule : Rules, content : RuleContents]
                    <6>1. autoRun.rules \in Seq(entries) /\ i \in DOMAIN autoRun.rules
                        BY <3>6, <5>1
                    <6> HIDE DEF entries
                    <6>2. DOMAIN autoRun.rules = 1..Len(autoRun.rules)
                        BY <6>1, LenProperties
                    <6>3. autoRun.rules[i] \in entries
                        BY <6>1, <6>2, ElementOfSeq
                    <6>4. QED
                        BY <6>3 DEF entries
                <5>3. QED
                    BY <5>2
            <4>3. autoBegun'[autoRun.rules[i].rule] = autoBegun[autoRun.rules[i].rule]
                BY <1>2, <2>4, <4>1, <4>2
            <4>4. QED
                BY <3>3, <3>6, <4>3
        <3>7. QED
            BY <2>1, <2>2, <3>1, <3>5, <3>6 DEF BegunFit
    <2>5. QED
        BY <2>1, <2>3, <2>4
<1>15. CASE BeginAction \/ ExecuteStatement \/ RefreshTicket
    <2>1. /\ autoRun.pc \in InExecution /\ UNCHANGED <<autoBegun, autoJob, autoFaults>>
          /\ autoRun'.pc \in InExecution /\ autoRun'.rules = autoRun.rules
        <3>1. CASE BeginAction
            BY <1>2, <3>1 DEF BeginAction, AutoRun, InExecution
        <3>2. CASE ExecuteStatement
            BY <1>2, <3>2 DEF ExecuteStatement, AutoRun, InExecution
        <3>3. CASE RefreshTicket
            BY <1>2, <3>3 DEF RefreshTicket, AutoRun, InExecution
        <3>4. QED
            BY <1>15, <3>1, <3>2, <3>3
    <2>2. QED
        BY <1>4, <1>5, <2>1 DEF InExecution, Busy
<1>16. ASSUME autoRun' = [autoRun EXCEPT !.pc = "rescue"], Attempted' = Attempted,
              UNCHANGED <<autoJob, autoBegun>>, autoRun.pc \in Busy
       PROVE  BegunFit'
    <2>1. autoRun'.pc = "rescue" /\ autoRun'.rules = autoRun.rules
        BY <1>2, <1>16 DEF AutoRun
    <2>2. QED
        BY <1>5, <1>16, <2>1 DEF Busy
<1>17. CASE RecordSkip
    BY <1>8, <1>9, <1>17 DEF RecordSkip, Busy
<1>18. CASE RecordExecution
    BY <1>4, <1>9, <1>16, <1>18 DEF RecordExecution, Busy
<1>19. CASE RescueExecution
    BY <1>8, <1>19 DEF RescueExecution
<1>20. CASE ReportDeadAutomationJob \/ DeadAutomationJobUnreported
    <2>1. /\ autoRun.pc = "idle" /\ autoRun' = autoRun /\ UNCHANGED autoBegun
          /\ Faults("crash")' = Faults("crash")
        <3>1. CASE ReportDeadAutomationJob
            BY <1>1, <1>3, <3>1 DEF ReportDeadAutomationJob, RunFit
        <3>2. CASE DeadAutomationJobUnreported
            BY <1>1, <3>2, FaultCounts DEF DeadAutomationJobUnreported, RunFit
        <3>3. QED
            BY <1>20, <3>1, <3>2
    <2>2. autoJob'.state \in {"dead", "unreported"} /\ autoJob'.attempts = autoJob.attempts
        <3>1. CASE ReportDeadAutomationJob
            BY <1>2, <3>1, JobSteps DEF ReportDeadAutomationJob
        <3>2. CASE DeadAutomationJobUnreported
            BY <1>2, <3>2, JobSteps DEF DeadAutomationJobUnreported
        <3>3. QED
            BY <1>20, <3>1, <3>2
    <2>3. Attempted' = Attempted
        BY <2>1, <2>2 DEF Attempted
    <2>4. QED
        BY <1>6, <2>1, <2>2, <2>3
<1>21. CASE AutoStatementFails
    <2>1. Faults("crash")' = Faults("crash") /\ UNCHANGED autoBegun
        BY <1>1, <1>21, FaultCounts DEF AutoStatementFails
    <2>2. autoJob' = autoJob => Attempted' = Attempted
        BY <2>1 DEF Attempted
    <2>3. CASE /\ autoRun.pc = "statement" \/ (autoRun.pc = "action" /\ autoRun.actions # <<>>)
               /\ autoRun' = [autoRun EXCEPT !.pc = "refresh", !.failed = TRUE, !.todo = <<>>]
               /\ UNCHANGED autoJob
        <3>1. autoRun'.pc = "refresh" /\ autoRun'.rules = autoRun.rules
            BY <1>2, <2>3 DEF AutoRun
        <3>2. QED
            BY <1>5, <2>1, <2>2, <2>3, <3>1 DEF Busy
    <2>4. CASE /\ autoRun.pc = "refresh" \/ (autoRun.pc = "action" /\ autoRun.actions = <<>>)
               /\ autoRun' = [autoRun EXCEPT !.pc = "rescue"]
               /\ UNCHANGED autoJob
        BY <1>16, <2>1, <2>2, <2>4 DEF Busy
    <2>5. CASE autoRun.pc \in {"load", "skip", "rescue"} /\ AutomationJobThrows
        <3>1. autoRun'.pc = "idle" /\ autoJob'.attempts = autoJob.attempts + 1
            BY <1>1, <1>2, <2>5, JobEnds, JobSteps DEF AutomationJobThrows
        <3>2. Attempted' = Attempted + 1
            BY <1>1, <2>1, <3>1, AttemptedType DEF Attempted
        <3>3. QED
            BY <1>7, <2>1, <3>1, <3>2
    <2>6. QED
        BY <1>21, <2>3, <2>4, <2>5 DEF AutoStatementFails
<1>22. CASE AutoCrash
    <2>1. Faults("crash")' = Faults("crash") + 1 /\ UNCHANGED autoBegun
        BY <1>1, <1>22, FaultCounts DEF AutoCrash
    <2>2. autoRun'.pc = "idle" /\ autoJob'.attempts \in {autoJob.attempts, autoJob.attempts + 1}
        BY <1>1, <1>2, <1>22, StalledJob DEF AutoCrash, AtRest, RunFit
    <2>3. Attempted' \in {Attempted + 1, Attempted + 2}
        BY <1>1, <2>1, <2>2, AttemptedType DEF Attempted
    <2>4. QED
        BY <1>7, <2>1, <2>2, <2>3
<1>23. QED
    BY <1>10, <1>11, <1>12, <1>13, <1>14, <1>15, <1>17, <1>18, <1>19, <1>20, <1>21, <1>22
    DEF AutomationNext, AutomationStep

-----------------------------------------------------------------------------
(* Executions that no record tells *)

LEMMA UnrecordedType ==
    ASSUME AutomationTypeOK, NEW r \in Rules
    PROVE  /\ Unrecorded(r) \in Int /\ autoBegun[r] \in Nat
           /\ \A s \in ExecutionStatus : autoRecords[r][s] \in Nat
<1>1. autoBegun[r] \in Nat /\ \A s \in ExecutionStatus : autoRecords[r][s] \in Nat
    BY DEF AutomationTypeOK
<1>2. autoRecords[r]["COMPLETED"] \in Nat /\ autoRecords[r]["FAILED"] \in Nat
    BY <1>1 DEF ExecutionStatus
<1>3. CASE Executing(r)
    <2>1. Unrecorded(r) = autoBegun[r] - 1 - (autoRecords[r]["COMPLETED"] + autoRecords[r]["FAILED"])
        BY <1>3 DEF Unrecorded
    <2>2. QED
        BY <1>1, <1>2, <2>1
<1>4. CASE ~Executing(r)
    <2>1. Unrecorded(r) = autoBegun[r] - 0 - (autoRecords[r]["COMPLETED"] + autoRecords[r]["FAILED"])
        BY <1>4 DEF Unrecorded
    <2>2. QED
        BY <1>1, <1>2, <2>1
<1>5. QED
    BY <1>1, <1>3, <1>4

LEMMA UnrecordedTypeNext ==
    ASSUME AutomationTypeOK', NEW r \in Rules
    PROVE  Unrecorded(r)' \in Int
<1>1. autoBegun'[r] \in Nat /\ \A s \in ExecutionStatus : autoRecords'[r][s] \in Nat
    BY DEF AutomationTypeOK
<1>2. autoRecords'[r]["COMPLETED"] \in Nat /\ autoRecords'[r]["FAILED"] \in Nat
    BY <1>1 DEF ExecutionStatus
<1>3. CASE Executing(r)'
    <2>1. Unrecorded(r)' = autoBegun'[r] - 1 - (autoRecords'[r]["COMPLETED"] + autoRecords'[r]["FAILED"])
        BY <1>3 DEF Unrecorded
    <2>2. QED
        BY <1>1, <1>2, <2>1
<1>4. CASE ~Executing(r)'
    <2>1. Unrecorded(r)' = autoBegun'[r] - 0 - (autoRecords'[r]["COMPLETED"] + autoRecords'[r]["FAILED"])
        BY <1>4 DEF Unrecorded
    <2>2. QED
        BY <1>1, <1>2, <2>1
<1>5. QED
    BY <1>3, <1>4

\* No rule gains an execution without a record.
LEMMA NoneMore ==
    ASSUME AutomationTypeOK, AutomationTypeOK', IsFiniteSet(UnrecordedExecutions),
           KeptRules' \subseteq KeptRules,
           \A r \in Rules : r \in KeptRules' => Unrecorded(r)' <= Unrecorded(r)
    PROVE  /\ IsFiniteSet(UnrecordedExecutions')
           /\ Cardinality(UnrecordedExecutions') \in Nat /\ Cardinality(UnrecordedExecutions) \in Nat
           /\ Cardinality(UnrecordedExecutions') <= Cardinality(UnrecordedExecutions)
<1>1. ASSUME NEW r \in Rules, r \in KeptRules', NEW i \in 1..(Unrecorded(r)') PROVE i \in 1..Unrecorded(r)
    <2>1. Unrecorded(r) \in Int /\ Unrecorded(r)' \in Int /\ Unrecorded(r)' <= Unrecorded(r)
        BY <1>1, UnrecordedType, UnrecordedTypeNext
    <2>2. QED
        BY <1>1, <2>1
<1>2. KeptRules' \subseteq Rules
    BY DEF KeptRules
<1>3. UnrecordedExecutions' \subseteq UnrecordedExecutions
    <2> SUFFICES ASSUME NEW e, e \in UnrecordedExecutions' PROVE e \in UnrecordedExecutions
        OBVIOUS
    <2>1. PICK r \in KeptRules' : e \in {<<r, i>> : i \in 1..(Unrecorded(r)')}
        BY DEF UnrecordedExecutions
    <2>2. PICK i \in 1..(Unrecorded(r)') : e = <<r, i>>
        BY <2>1
    <2>3. i \in 1..Unrecorded(r) /\ r \in KeptRules
        BY <1>1, <1>2, <2>1, <2>2
    <2>4. QED
        BY <2>2, <2>3 DEF UnrecordedExecutions
<1>4. QED
    BY <1>3, FS_Subset, FS_CardinalityType

\* One rule gains one.
LEMMA OneUnrecorded ==
    ASSUME AutomationTypeOK, AutomationTypeOK', IsFiniteSet(UnrecordedExecutions),
           KeptRules' \subseteq KeptRules, NEW cur \in Rules,
           \A r \in Rules : r \in KeptRules' => Unrecorded(r)' <= Unrecorded(r) + (IF r = cur THEN 1 ELSE 0)
    PROVE  /\ IsFiniteSet(UnrecordedExecutions')
           /\ Cardinality(UnrecordedExecutions') \in Nat /\ Cardinality(UnrecordedExecutions) \in Nat
           /\ Cardinality(UnrecordedExecutions') <= Cardinality(UnrecordedExecutions) + 1
<1> DEFINE more == <<cur, Unrecorded(cur) + 1>>
<1>1. ASSUME NEW r \in Rules, r \in KeptRules', NEW i \in 1..(Unrecorded(r)')
      PROVE  i \in 1..Unrecorded(r) \/ (r = cur /\ i = Unrecorded(cur) + 1)
    <2>1. Unrecorded(r) \in Int /\ Unrecorded(r)' \in Int
        BY UnrecordedType, UnrecordedTypeNext
    <2>2. CASE r = cur
        <3>1. Unrecorded(r)' <= Unrecorded(r) + 1
            BY <1>1, <2>2
        <3>2. QED
            BY <1>1, <2>1, <2>2, <3>1
    <2>3. CASE r # cur
        <3>1. Unrecorded(r)' <= Unrecorded(r) + 0
            BY <1>1, <2>3
        <3>2. QED
            BY <1>1, <2>1, <3>1
    <2>4. QED
        BY <2>2, <2>3
<1>2. KeptRules' \subseteq Rules
    BY DEF KeptRules
<1>3. UnrecordedExecutions' \subseteq UnrecordedExecutions \cup {more}
    <2> SUFFICES ASSUME NEW e, e \in UnrecordedExecutions' PROVE e \in UnrecordedExecutions \/ e = more
        OBVIOUS
    <2>1. PICK r \in KeptRules' : e \in {<<r, i>> : i \in 1..(Unrecorded(r)')}
        BY DEF UnrecordedExecutions
    <2>2. PICK i \in 1..(Unrecorded(r)') : e = <<r, i>>
        BY <2>1
    <2>3. r \in KeptRules /\ (i \in 1..Unrecorded(r) \/ (r = cur /\ i = Unrecorded(cur) + 1))
        BY <1>1, <1>2, <2>1, <2>2
    <2>4. QED
        BY <2>2, <2>3 DEF UnrecordedExecutions
<1> HIDE DEF more
<1>4. /\ IsFiniteSet(UnrecordedExecutions \cup {more})
      /\ Cardinality(UnrecordedExecutions \cup {more}) <= Cardinality(UnrecordedExecutions) + 1
      /\ Cardinality(UnrecordedExecutions \cup {more}) \in Nat
    BY OneMore
<1>5. /\ IsFiniteSet(UnrecordedExecutions')
      /\ Cardinality(UnrecordedExecutions') <= Cardinality(UnrecordedExecutions \cup {more})
    BY <1>3, <1>4, FS_Subset
<1>6. Cardinality(UnrecordedExecutions') \in Nat /\ Cardinality(UnrecordedExecutions) \in Nat
    BY <1>5, FS_CardinalityType
<1>7. QED
    BY <1>4, <1>5, <1>6

\* A rule that is executed as before has as many executions without a record as before.
LEMMA SameUnrecorded ==
    ASSUME NEW r, autoBegun'[r] = autoBegun[r], autoRecords'[r]["COMPLETED"] = autoRecords[r]["COMPLETED"],
           autoRecords'[r]["FAILED"] = autoRecords[r]["FAILED"], Executing(r)' <=> Executing(r)
    PROVE  Unrecorded(r)' = Unrecorded(r)
<1>1. CASE Executing(r)
    BY <1>1 DEF Unrecorded
<1>2. CASE ~Executing(r)
    BY <1>2 DEF Unrecorded
<1>3. QED
    BY <1>1, <1>2

\* The execution of the current rule is over, and a record tells of it.
LEMMA EndRecorded ==
    ASSUME AutomationTypeOK, RunFit, autoRun.pc \in InExecution, autoRun'.pc \notin InExecution,
           UNCHANGED autoBegun, NEW status \in {"COMPLETED", "FAILED"}, CreateExecution(status),
           NEW r \in Rules
    PROVE  Unrecorded(r)' = Unrecorded(r)
<1>1. ~Executing(r)' /\ (Executing(r) <=> r = Current)
    BY DEF Executing, InExecution
<1>2. autoRecords \in [Rules -> [ExecutionStatus -> Nat]] /\ autoBegun[r] \in Nat
    BY DEF AutomationTypeOK
<1>3. Current \in Rules
    BY CurrentIs DEF InExecution, Busy
<1>4. CASE r # Current
    <2>1. autoRecords'[r] = autoRecords[r]
        BY <1>2, <1>3, <1>4 DEF CreateExecution
    <2>2. QED
        BY <1>1, <1>4, <2>1, SameUnrecorded
<1>5. CASE r = Current
    <2>1. /\ autoRecords'[r]["COMPLETED"] + autoRecords'[r]["FAILED"]
                 = autoRecords[r]["COMPLETED"] + autoRecords[r]["FAILED"] + 1
          /\ autoRecords[r]["COMPLETED"] \in Nat /\ autoRecords[r]["FAILED"] \in Nat
        BY <1>2, <1>5 DEF CreateExecution, ExecutionStatus
    <2>2. Unrecorded(r)' = autoBegun[r] - 0 - (autoRecords'[r]["COMPLETED"] + autoRecords'[r]["FAILED"])
        BY <1>1 DEF Unrecorded
    <2>3. Unrecorded(r) = autoBegun[r] - 1 - (autoRecords[r]["COMPLETED"] + autoRecords[r]["FAILED"])
        BY <1>1, <1>5 DEF Unrecorded
    <2>4. QED
        BY <1>2, <2>1, <2>2, <2>3
<1>6. QED
    BY <1>4, <1>5

\* The execution is over, and no record tells of it.
LEMMA EndUnrecorded ==
    ASSUME AutomationTypeOK, RunFit, autoRun.pc # "idle", autoRun'.pc \notin InExecution,
           UNCHANGED <<autoBegun, autoRecords>>, NEW r \in Rules
    PROVE  /\ Unrecorded(r)' <= Unrecorded(r) + (IF r = Current THEN 1 ELSE 0)
           /\ autoRun.pc \notin InExecution => Unrecorded(r)' = Unrecorded(r)
<1>1. ~Executing(r)' /\ (Executing(r) <=> autoRun.pc \in InExecution /\ r = Current)
    BY DEF Executing, InExecution
<1>2. autoBegun[r] \in Nat /\ autoRecords[r]["COMPLETED"] \in Nat /\ autoRecords[r]["FAILED"] \in Nat
    BY UnrecordedType DEF ExecutionStatus
<1>3. CASE ~Executing(r)
    <2>1. Unrecorded(r)' = Unrecorded(r) /\ Unrecorded(r) \in Int
        BY <1>1, <1>3, SameUnrecorded, UnrecordedType
    <2>2. QED
        BY <2>1
<1>4. CASE Executing(r)
    <2>1. Unrecorded(r)' = autoBegun[r] - 0 - (autoRecords[r]["COMPLETED"] + autoRecords[r]["FAILED"])
        BY <1>1 DEF Unrecorded
    <2>2. Unrecorded(r) = autoBegun[r] - 1 - (autoRecords[r]["COMPLETED"] + autoRecords[r]["FAILED"])
        BY <1>4 DEF Unrecorded
    <2>3. QED
        BY <1>1, <1>2, <1>4, <2>1, <2>2
<1>5. QED
    BY <1>3, <1>4

\* What the faults so far may have cost.
Toll == Faults("statement") + 2 * Faults("crash")

\* The sums of BooksFit.
LEMMA NoneCovered ==
    ASSUME NEW n, NEW m, NEW p, NEW q, NEW t, NEW u, n \in Nat, m \in Nat, p \in 0..1, q \in 0..1, t \in Nat, u \in Nat,
           2 * n + p <= t, m <= n, q + t <= p + u
    PROVE  2 * m + q <= u
OBVIOUS

LEMMA OneCovered ==
    ASSUME NEW n, NEW m, NEW p, NEW q, NEW t, NEW u, n \in Nat, m \in Nat, p \in 0..1, q \in 0..1, t \in Nat, u \in Nat,
           2 * n + p <= t, m <= n + 1, 2 + q + t <= p + u
    PROVE  2 * m + q <= u
OBVIOUS

LEMMA FaultCovers ==
    ASSUME NEW p, NEW q, NEW t, NEW u, p \in 0..1, q \in 0..1, t \in Nat, u \in Nat,
           u = t + 1 \/ (u = t /\ q <= p)
    PROVE  q + t <= p + u
OBVIOUS

LEMMA BooksSteps ==
    ASSUME AutoInv, AutomationNext
    PROVE  BooksFit'
<1>1. AutomationTypeOK /\ RunFit /\ BooksFit /\ AutomationTypeOK'
    BY TypeSteps DEF AutoInv
<1>2. autoJob \in JobRecord /\ autoRun \in AutoRun
    BY <1>1 DEF AutomationTypeOK
<1>3. Toll \in Nat
    BY <1>1, AttemptedType DEF Toll
<1>4. /\ Rescuing \in {0, 1} /\ Rescuing' \in {0, 1}
      /\ Rescuing \in 0..1 /\ Rescuing' \in 0..1
    BY DEF Rescuing
<1>5. Toll' \in Nat
    <2>1. autoFaults' \in [AutoFaultKinds -> 0..MaxAutoFaults] /\ MaxAutoFaults \in Nat
        BY <1>1, AutomationAssumption DEF AutomationTypeOK
    <2>2. Faults("statement")' \in Nat /\ Faults("crash")' \in Nat
        BY <2>1 DEF Faults
    <2>3. QED
        BY <2>2 DEF Toll
<1>6. UNCHANGED autoFaults => Toll' = Toll
    BY DEF Faults, Toll
<1>7. BooksFit <=> IsFiniteSet(UnrecordedExecutions) /\ 2 * Cardinality(UnrecordedExecutions) + Rescuing <= Toll
    BY DEF BooksFit, Toll
<1>8. BooksFit' <=> /\ IsFiniteSet(UnrecordedExecutions')
                    /\ 2 * Cardinality(UnrecordedExecutions') + Rescuing' <= Toll'
    BY DEF BooksFit, Toll
<1>9. ASSUME KeptRules' \subseteq KeptRules,
             \A r \in Rules : r \in KeptRules' => Unrecorded(r)' <= Unrecorded(r),
             Rescuing' + Toll <= Rescuing + Toll'
      PROVE  BooksFit'
    <2>1. /\ IsFiniteSet(UnrecordedExecutions')
          /\ Cardinality(UnrecordedExecutions') \in Nat /\ Cardinality(UnrecordedExecutions) \in Nat
          /\ Cardinality(UnrecordedExecutions') <= Cardinality(UnrecordedExecutions)
        BY <1>1, <1>7, <1>9, NoneMore
    <2>2. 2 * Cardinality(UnrecordedExecutions) + Rescuing <= Toll
        BY <1>1, <1>7
    <2>3. 2 * Cardinality(UnrecordedExecutions') + Rescuing' <= Toll'
        BY <1>3, <1>4, <1>5, <1>9, <2>1, <2>2, NoneCovered
    <2>4. QED
        BY <1>8, <2>1, <2>3
<1>10. ASSUME KeptRules' \subseteq KeptRules, NEW cur \in Rules,
              \A r \in Rules : r \in KeptRules' => Unrecorded(r)' <= Unrecorded(r) + (IF r = cur THEN 1 ELSE 0),
              2 + Rescuing' + Toll <= Rescuing + Toll'
       PROVE  BooksFit'
    <2>1. /\ IsFiniteSet(UnrecordedExecutions')
          /\ Cardinality(UnrecordedExecutions') \in Nat /\ Cardinality(UnrecordedExecutions) \in Nat
          /\ Cardinality(UnrecordedExecutions') <= Cardinality(UnrecordedExecutions) + 1
        BY <1>1, <1>7, <1>10, OneUnrecorded
    <2>2. 2 * Cardinality(UnrecordedExecutions) + Rescuing <= Toll
        BY <1>1, <1>7
    <2>3. 2 * Cardinality(UnrecordedExecutions') + Rescuing' <= Toll'
        BY <1>3, <1>4, <1>5, <1>10, <2>1, <2>2, OneCovered
    <2>4. QED
        BY <1>8, <2>1, <2>3
<1>11. \A r \in Rules : Unrecorded(r) \in Int
    BY <1>1, UnrecordedType
\* Nothing that is counted changes.
<1>12. ASSUME UNCHANGED <<autoRule, autoRecords, autoBegun, autoFaults>>, autoRun'.pc # "rescue",
              \A r \in Rules : Executing(r)' <=> Executing(r)
       PROVE  BooksFit'
    <2>1. \A r \in Rules : Unrecorded(r)' = Unrecorded(r)
        BY <1>12, SameUnrecorded
    <2>2. Rescuing' = 0 /\ Toll' = Toll
        BY <1>6, <1>12 DEF Rescuing
    <2>3. KeptRules' = KeptRules
        BY <1>12 DEF KeptRules
    <2>4. QED
        BY <1>3, <1>4, <1>9, <1>11, <2>1, <2>2, <2>3
<1>13. ASSUME UNCHANGED <<autoRule, autoRecords, autoBegun, autoFaults>>,
              autoRun.pc \notin InExecution, autoRun'.pc \notin InExecution
       PROVE  BooksFit'
    BY <1>12, <1>13 DEF Executing, InExecution
<1>14. ASSUME NEW r \in Rules, CreateRule(r) \/ UpdateRule(r) \/ DeleteRule(r) PROVE BooksFit'
    <2>1. /\ UNCHANGED <<autoRun, autoBegun, autoFaults>>
          /\ autoRule \in [Rules -> [state : {"absent", "active", "inactive", "deleted"}, content : RuleContents]]
        BY <1>1, <1>14 DEF CreateRule, UpdateRule, DeleteRule, AutomationTypeOK
    <2>2. /\ \A q \in Rules : q # r => autoRule'[q] = autoRule[q]
          /\ autoRule[r].state # "deleted"
          /\ \A q \in Rules : autoRule'[q].state # "deleted" =>
                autoRule[q].state # "deleted" /\ autoRecords'[q] = autoRecords[q]
        <3>1. CASE CreateRule(r)
            BY <2>1, <3>1 DEF CreateRule
        <3>2. CASE UpdateRule(r)
            BY <2>1, <3>2 DEF UpdateRule
        <3>3. CASE DeleteRule(r)
            <4>1. autoRecords \in [Rules -> [ExecutionStatus -> Nat]]
                BY <1>1 DEF AutomationTypeOK
            <4>2. autoRule' = [autoRule EXCEPT ![r].state = "deleted"] /\ autoRule[r].state # "deleted"
                BY <3>3 DEF DeleteRule
            <4>3. autoRule'[r].state = "deleted" /\ \A q \in Rules : q # r => autoRule'[q] = autoRule[q]
                BY <2>1, <4>2
            <4>4. \A q \in Rules : q # r => autoRecords'[q] = autoRecords[q]
                BY <3>3, <4>1 DEF DeleteRule
            <4>5. QED
                BY <4>2, <4>3, <4>4
        <3>4. QED
            BY <1>14, <3>1, <3>2, <3>3
    <2>3. KeptRules' \subseteq KeptRules
        BY <2>2 DEF KeptRules
    <2>4. ASSUME NEW q \in Rules, q \in KeptRules' PROVE Unrecorded(q)' <= Unrecorded(q)
        <3>1. autoRecords'[q] = autoRecords[q]
            BY <2>2, <2>4 DEF KeptRules
        <3>2. Executing(q)' <=> Executing(q)
            BY <2>1 DEF Executing, Current
        <3>3. QED
            BY <1>11, <2>1, <3>1, <3>2, SameUnrecorded
    <2>5. Rescuing' <= Rescuing
        <3>1. CASE Rescuing' = 1
            <4>1. autoRun.pc = "rescue" /\ autoRule'[Current].state # "deleted"
                BY <2>1, <3>1 DEF Rescuing, RuleDeleted, Current
            <4>2. Current \in Rules
                BY <1>1, <4>1, CurrentIs DEF Busy
            <4>3. ~RuleDeleted
                BY <2>2, <4>1, <4>2 DEF RuleDeleted
            <4>4. Rescuing = 1
                BY <4>1, <4>3 DEF Rescuing
            <4>5. QED
                BY <3>1, <4>4
        <3>2. QED
            BY <1>4, <3>1
    <2>6. Toll' = Toll
        BY <1>6, <2>1
    <2>7. Rescuing' + Toll <= Rescuing + Toll'
        BY <1>3, <1>4, <1>5, <2>5, <2>6, FaultCovers
    <2>8. QED
        BY <1>9, <2>3, <2>4, <2>7
<1>15. CASE UserChangesTicket \/ ProcessEvent \/ ReportDeadAutomationJob
    <2>1. UNCHANGED <<autoRule, autoRecords, autoBegun, autoFaults, autoRun>>
        BY <1>15 DEF UserChangesTicket, ProcessEvent, ReportDeadAutomationJob
    <2>2. UnrecordedExecutions' = UnrecordedExecutions
        BY <2>1 DEF UnrecordedExecutions, KeptRules, Unrecorded, Executing, Current
    <2>3. Rescuing' = Rescuing /\ Toll' = Toll
        BY <1>6, <2>1 DEF Rescuing, RuleDeleted, Current
    <2>4. QED
        BY <1>1, <1>7, <1>8, <2>2, <2>3
<1>16. CASE TakeAutomationJob
    <2>1. UNCHANGED <<autoRule, autoRecords, autoBegun, autoFaults>> /\ autoJob.state = "waiting"
        BY <1>16 DEF TakeAutomationJob
    <2>2. autoRun.pc = "idle" /\ autoRun'.pc = "load"
        BY <1>1, <1>16, <2>1 DEF TakeAutomationJob, RunFit, AtRest
    <2>3. QED
        BY <1>13, <2>1, <2>2 DEF InExecution
<1>17. CASE LoadTicketAndRules
    <2>1. UNCHANGED <<autoRule, autoRecords, autoBegun, autoFaults>> /\ autoRun.pc = "load"
        BY <1>17 DEF LoadTicketAndRules
    <2>2. autoRun'.pc \in {"rule", "idle"}
        <3>1. PICK rules \in ActiveRules : \/ autoRun' = [AtRest(autoTicket) EXCEPT !.pc = "rule", !.rules = rules]
                                          \/ CompleteAutomationJob
            BY <1>17 DEF LoadTicketAndRules
        <3>2. [AtRest(autoTicket) EXCEPT !.pc = "rule", !.rules = rules].pc = "rule"
            BY DEF AtRest
        <3>3. CompleteAutomationJob => autoRun'.pc = "idle"
            BY DEF CompleteAutomationJob, AtRest
        <3>4. QED
            BY <3>1, <3>2, <3>3
    <2>3. QED
        BY <1>13, <2>1, <2>2 DEF InExecution
<1>18. CASE EvaluateRule
    <2>1. /\ autoRun.pc = "rule" /\ UNCHANGED <<autoRule, autoRecords, autoFaults>>
          /\ \/ /\ autoRun' = [autoRun EXCEPT !.pc = "action", !.seen = autoRun.event,
                                              !.actions = Head(autoRun.rules).content.actions, !.failed = FALSE]
                /\ autoBegun' = [autoBegun EXCEPT ![Current] = @ + 1]
             \/ autoRun' = [autoRun EXCEPT !.pc = "skip"] /\ UNCHANGED autoBegun
        BY <1>18 DEF EvaluateRule
    <2>2. CASE autoRun' = [autoRun EXCEPT !.pc = "skip"] /\ UNCHANGED autoBegun
        <3>1. autoRun'.pc = "skip"
            BY <1>2, <2>2 DEF AutoRun
        <3>2. QED
            BY <1>13, <2>1, <2>2, <3>1 DEF InExecution
    <2>3. CASE /\ autoRun' = [autoRun EXCEPT !.pc = "action", !.seen = autoRun.event,
                                             !.actions = Head(autoRun.rules).content.actions, !.failed = FALSE]
               /\ autoBegun' = [autoBegun EXCEPT ![Current] = @ + 1]
        <3>1. autoRun'.pc = "action" /\ autoRun'.rules = autoRun.rules
            BY <1>2, <2>3 DEF AutoRun
        <3>2. Current \in Rules
            BY <1>1, <2>1, CurrentIs DEF Busy
        <3>3. \A r : ~Executing(r) /\ (Executing(r)' <=> r = Current)
            BY <2>1, <3>1 DEF Executing, Current
        <3>4. ASSUME NEW r \in Rules PROVE Unrecorded(r)' <= Unrecorded(r)
            <4>1. /\ autoBegun[r] \in Nat /\ Unrecorded(r) \in Int
                  /\ autoRecords[r]["COMPLETED"] \in Nat /\ autoRecords[r]["FAILED"] \in Nat
                BY <1>1, UnrecordedType DEF ExecutionStatus
            <4>2. Unrecorded(r) = autoBegun[r] - 0 - (autoRecords[r]["COMPLETED"] + autoRecords[r]["FAILED"])
                BY <3>3 DEF Unrecorded
            <4>3. CASE r = Current
                <5>1. Unrecorded(r)' = autoBegun'[r] - 1 - (autoRecords[r]["COMPLETED"] + autoRecords[r]["FAILED"])
                    BY <2>1, <3>3, <4>3 DEF Unrecorded
                <5>2. autoBegun'[r] = autoBegun[r] + 1
                    BY <1>1, <2>3, <4>3 DEF AutomationTypeOK
                <5>3. QED
                    BY <4>1, <4>2, <5>1, <5>2
            <4>4. CASE r # Current
                <5>1. Unrecorded(r)' = autoBegun'[r] - 0 - (autoRecords[r]["COMPLETED"] + autoRecords[r]["FAILED"])
                    BY <2>1, <3>3, <4>4 DEF Unrecorded
                <5>2. autoBegun'[r] = autoBegun[r]
                    BY <1>1, <2>3, <4>4 DEF AutomationTypeOK
                <5>3. QED
                    BY <4>1, <4>2, <5>1, <5>2
            <4>5. QED
                BY <4>3, <4>4
        <3>5. KeptRules' = KeptRules
            BY <2>1 DEF KeptRules
        <3>6. Rescuing' = 0 /\ Toll' = Toll
            BY <1>6, <2>1, <3>1 DEF Rescuing
        <3>7. QED
            BY <1>3, <1>4, <1>9, <3>4, <3>5, <3>6
    <2>4. QED
        BY <2>1, <2>2, <2>3
<1>19. CASE BeginAction \/ ExecuteStatement \/ RefreshTicket
    <2>1. /\ autoRun.pc \in InExecution /\ UNCHANGED <<autoRule, autoRecords, autoBegun, autoFaults>>
          /\ autoRun'.pc \in InExecution /\ autoRun'.rules = autoRun.rules /\ autoRun'.pc # "rescue"
        <3>1. CASE BeginAction
            BY <1>2, <3>1 DEF BeginAction, AutoRun, InExecution
        <3>2. CASE ExecuteStatement
            BY <1>2, <3>2 DEF ExecuteStatement, AutoRun, InExecution
        <3>3. CASE RefreshTicket
            BY <1>2, <3>3 DEF RefreshTicket, AutoRun, InExecution
        <3>4. QED
            BY <1>19, <3>1, <3>2, <3>3
    <2>2. \A r \in Rules : Executing(r)' <=> Executing(r)
        BY <2>1 DEF Executing, Current, InExecution
    <2>3. QED
        BY <1>12, <2>1, <2>2
<1>20. CASE RecordSkip
    <2>1. autoRun.pc = "skip" /\ autoRun.pc \in Busy /\ UNCHANGED <<autoRule, autoBegun, autoFaults>>
        BY <1>20 DEF RecordSkip, Busy
    <2>2. autoRun'.pc \in {"rule", "idle"}
        BY <1>1, <1>20, <2>1, JobEnds, NextRuleGoesOn DEF RecordSkip
    <2>3. ASSUME NEW r \in Rules PROVE Unrecorded(r)' = Unrecorded(r)
        <3>1. /\ autoRecords'[r]["COMPLETED"] = autoRecords[r]["COMPLETED"]
              /\ autoRecords'[r]["FAILED"] = autoRecords[r]["FAILED"]
            BY <1>1, <1>20 DEF RecordSkip, CreateExecution, AutomationTypeOK, ExecutionStatus
        <3>2. Executing(r)' <=> Executing(r)
            BY <2>1, <2>2 DEF Executing
        <3>3. QED
            BY <2>1, <3>1, <3>2, SameUnrecorded
    <2>4. Rescuing' = 0 /\ Toll' = Toll /\ KeptRules' = KeptRules
        BY <1>6, <2>1, <2>2 DEF Rescuing, KeptRules
    <2>5. QED
        BY <1>3, <1>4, <1>9, <1>11, <2>3, <2>4
<1>21. ASSUME autoRun.pc \in InExecution, autoRun'.pc \notin InExecution, UNCHANGED <<autoRule, autoBegun, autoFaults>>,
              NEW status \in {"COMPLETED", "FAILED"}, CreateExecution(status)
       PROVE  BooksFit'
    <2>1. \A r \in Rules : Unrecorded(r)' = Unrecorded(r)
        BY <1>1, <1>21, EndRecorded
    <2>2. Rescuing' = 0 /\ Toll' = Toll /\ KeptRules' = KeptRules
        BY <1>6, <1>21 DEF Rescuing, KeptRules, InExecution
    <2>3. QED
        BY <1>3, <1>4, <1>9, <1>11, <2>1, <2>2
<1>22. CASE RecordExecution
    <2>1. autoRun.pc = "action" /\ UNCHANGED <<autoRule, autoBegun, autoFaults>>
        BY <1>22 DEF RecordExecution
    <2>2. CASE RuleDeleted
        <3>1. autoRun' = [autoRun EXCEPT !.pc = "rescue"] /\ UNCHANGED autoRecords
            BY <1>22, <2>2 DEF RecordExecution
        <3>2. autoRun'.pc = "rescue" /\ autoRun'.rules = autoRun.rules
            BY <1>2, <3>1 DEF AutoRun
        <3>3. \A r \in Rules : Executing(r)' <=> Executing(r)
            BY <2>1, <3>2 DEF Executing, Current
        <3>4. \A r \in Rules : Unrecorded(r)' = Unrecorded(r)
            BY <2>1, <3>1, <3>3, SameUnrecorded
        <3>5. Rescuing' = 0 /\ Toll' = Toll /\ KeptRules' = KeptRules
            BY <1>6, <2>1, <2>2, <3>2 DEF Rescuing, RuleDeleted, Current, KeptRules
        <3>6. QED
            BY <1>3, <1>4, <1>9, <1>11, <3>4, <3>5
    <2>3. CASE ~RuleDeleted
        <3>1. /\ NextRule /\ \E status \in {"COMPLETED", "FAILED"} : CreateExecution(status)
            BY <1>22, <2>3 DEF RecordExecution
        <3>2. autoRun'.pc \in {"rule", "idle"}
            BY <1>1, <2>1, <3>1, NextRuleGoesOn DEF Busy
        <3>3. QED
            BY <1>21, <2>1, <3>1, <3>2 DEF InExecution
    <2>4. QED
        BY <2>2, <2>3
<1>23. CASE RescueExecution
    <2>1. autoRun.pc = "rescue" /\ UNCHANGED <<autoRule, autoBegun, autoFaults>> /\ autoRun'.pc = "idle"
        BY <1>1, <1>23, JobEnds DEF RescueExecution
    <2>2. CASE ~RuleDeleted
        <3>1. CreateExecution("FAILED")
            BY <1>23, <2>2 DEF RescueExecution
        <3>2. QED
            BY <1>21, <2>1, <3>1 DEF InExecution
    <2>3. CASE RuleDeleted
        <3>1. UNCHANGED autoRecords /\ KeptRules' = KeptRules /\ Current \notin KeptRules
            BY <1>23, <2>1, <2>3 DEF RescueExecution, RuleDeleted, KeptRules
        <3>2. ASSUME NEW r \in Rules, r \in KeptRules' PROVE Unrecorded(r)' <= Unrecorded(r)
            <4>1. r # Current
                BY <3>1, <3>2
            <4>2. Executing(r)' <=> Executing(r)
                BY <2>1, <4>1 DEF Executing
            <4>3. QED
                BY <1>11, <2>1, <3>1, <4>2, SameUnrecorded
        <3>3. Rescuing' = 0 /\ Toll' = Toll
            BY <1>6, <2>1 DEF Rescuing
        <3>4. QED
            BY <1>3, <1>4, <1>9, <3>1, <3>2, <3>3
    <2>4. QED
        BY <2>2, <2>3
<1>24. CASE DeadAutomationJobUnreported
    <2>1. UNCHANGED <<autoRule, autoRecords, autoBegun, autoRun>>
        BY <1>24 DEF DeadAutomationJobUnreported
    <2>2. UnrecordedExecutions' = UnrecordedExecutions
        BY <2>1 DEF UnrecordedExecutions, KeptRules, Unrecorded, Executing, Current
    <2>3. Rescuing' = Rescuing
        BY <2>1 DEF Rescuing, RuleDeleted, Current
    <2>4. Toll' = Toll
        BY <1>1, <1>24, FaultCounts DEF DeadAutomationJobUnreported, Toll
    <2>5. QED
        BY <1>1, <1>7, <1>8, <2>2, <2>3, <2>4
<1>25. CASE AutoStatementFails
    <2>1. UNCHANGED <<autoRule, autoRecords, autoBegun>> /\ KeptRules' = KeptRules
        BY <1>25 DEF AutoStatementFails, KeptRules
    <2>2. Toll' = Toll + 1
        BY <1>1, <1>25, FaultCounts, AttemptedType DEF AutoStatementFails, Toll
    <2>3. CASE /\ autoRun.pc = "statement" \/ (autoRun.pc = "action" /\ autoRun.actions # <<>>)
               /\ autoRun' = [autoRun EXCEPT !.pc = "refresh", !.failed = TRUE, !.todo = <<>>]
        <3>1. autoRun'.pc = "refresh" /\ autoRun'.rules = autoRun.rules
            BY <1>2, <2>3 DEF AutoRun
        <3>2. \A r \in Rules : Executing(r)' <=> Executing(r)
            BY <2>3, <3>1 DEF Executing, Current
        <3>3. \A r \in Rules : Unrecorded(r)' = Unrecorded(r)
            BY <2>1, <3>2, SameUnrecorded
        <3>4. Rescuing' = 0
            BY <3>1 DEF Rescuing
        <3>5. QED
            BY <1>3, <1>4, <1>9, <1>11, <2>1, <2>2, <3>3, <3>4
    <2>4. CASE /\ autoRun.pc = "refresh" \/ (autoRun.pc = "action" /\ autoRun.actions = <<>>)
               /\ autoRun' = [autoRun EXCEPT !.pc = "rescue"]
        <3>1. autoRun'.pc = "rescue" /\ autoRun'.rules = autoRun.rules
            BY <1>2, <2>4 DEF AutoRun
        <3>2. \A r \in Rules : Executing(r)' <=> Executing(r)
            BY <2>4, <3>1 DEF Executing, Current
        <3>3. \A r \in Rules : Unrecorded(r)' = Unrecorded(r)
            BY <2>1, <3>2, SameUnrecorded
        <3>4. Rescuing' + Toll <= Rescuing + Toll'
            BY <1>3, <1>4, <1>5, <2>2, FaultCovers
        <3>5. QED
            BY <1>9, <1>11, <2>1, <3>3, <3>4
    <2>5. CASE autoRun.pc \in {"load", "skip", "rescue"} /\ AutomationJobThrows
        <3>1. autoRun'.pc = "idle" /\ autoRun.pc # "idle"
            BY <1>1, <2>5, JobEnds
        <3>2. Rescuing' = 0 /\ autoRun'.pc \notin InExecution
            BY <3>1 DEF Rescuing, InExecution
        <3>3. CASE autoRun.pc # "rescue"
            <4>1. \A r \in Rules : Unrecorded(r)' = Unrecorded(r)
                BY <1>1, <2>1, <2>5, <3>1, <3>2, <3>3, EndUnrecorded DEF InExecution
            <4>2. QED
                BY <1>3, <1>4, <1>9, <1>11, <2>1, <2>2, <3>2, <4>1
        <3>4. CASE autoRun.pc = "rescue" /\ ~RuleDeleted
            <4>1. Rescuing = 1 /\ Current \in Rules
                BY <1>1, <3>4, CurrentIs DEF Rescuing, Busy
            <4>2. \A r \in Rules : Unrecorded(r)' <= Unrecorded(r) + (IF r = Current THEN 1 ELSE 0)
                BY <1>1, <2>1, <3>1, <3>2, EndUnrecorded
            <4>3. 2 + Rescuing' + Toll <= Rescuing + Toll'
                BY <1>3, <2>2, <3>2, <4>1
            <4>4. QED
                BY <1>10, <2>1, <4>1, <4>2, <4>3
        <3>5. CASE autoRun.pc = "rescue" /\ RuleDeleted
            <4>1. ASSUME NEW r \in Rules, r \in KeptRules' PROVE Unrecorded(r)' <= Unrecorded(r)
                <5>1. r # Current
                    BY <2>1, <3>5, <4>1 DEF KeptRules, RuleDeleted
                <5>2. Executing(r)' <=> Executing(r)
                    BY <3>1, <5>1 DEF Executing
                <5>3. QED
                    BY <1>11, <2>1, <5>2, SameUnrecorded
            <4>2. QED
                BY <1>3, <1>4, <1>9, <2>1, <2>2, <3>2, <4>1
        <3>6. QED
            BY <3>3, <3>4, <3>5
    <2>6. QED
        BY <1>25, <2>3, <2>4, <2>5 DEF AutoStatementFails
<1>26. CASE AutoCrash
    <2>1. UNCHANGED <<autoRule, autoRecords, autoBegun>> /\ KeptRules' = KeptRules
        BY <1>26 DEF AutoCrash, KeptRules
    <2>2. Toll' = Toll + 2
        BY <1>1, <1>26, FaultCounts, AttemptedType DEF AutoCrash, Toll
    <2>3. autoRun.pc # "idle" /\ autoRun'.pc = "idle"
        BY <1>26 DEF AutoCrash, AtRest
    <2>4. Rescuing' = 0 /\ autoRun'.pc \notin InExecution
        BY <2>3 DEF Rescuing, InExecution
    <2>5. CASE autoRun.pc \in InExecution
        <3>1. Current \in Rules
            BY <1>1, <2>5, CurrentIs DEF Busy, InExecution
        <3>2. \A r \in Rules : Unrecorded(r)' <= Unrecorded(r) + (IF r = Current THEN 1 ELSE 0)
            BY <1>1, <2>1, <2>3, <2>4, EndUnrecorded
        <3>3. 2 + Rescuing' + Toll <= Rescuing + Toll'
            BY <1>3, <1>4, <2>2, <2>4
        <3>4. QED
            BY <1>10, <2>1, <3>1, <3>2, <3>3
    <2>6. CASE autoRun.pc \notin InExecution
        <3>1. \A r \in Rules : Unrecorded(r)' = Unrecorded(r)
            BY <1>1, <2>1, <2>3, <2>4, <2>6, EndUnrecorded
        <3>2. QED
            BY <1>3, <1>4, <1>9, <1>11, <2>1, <2>2, <2>4, <3>1
    <2>7. QED
        BY <2>5, <2>6
<1>27. QED
    BY <1>14, <1>15, <1>16, <1>17, <1>18, <1>19, <1>20, <1>22, <1>23, <1>24, <1>25, <1>26
    DEF AutomationNext, AutomationStep

-----------------------------------------------------------------------------
(* Changes and history entries *)

\* Nothing is written, and nothing is owed less unless a fault paid for it.
LEMMA OweNoLess ==
    ASSUME NEW w, NEW e, NEW o, NEW p, NEW t, NEW u, w \in Nat, e \in Nat, o \in 0..1, p \in 0..1, t \in Nat, u \in Nat,
           w - e - o <= t, (u = t /\ p >= o) \/ u = t + 1
    PROVE  w - e - p <= u
OBVIOUS

LEMMA EntriesSteps ==
    ASSUME AutoInv, AutomationNext
    PROVE  EntriesFit'
<1>1. AutomationTypeOK /\ RunFit /\ EntriesFit
    BY DEF AutoInv
<1>2. /\ autoWrites \in Nat /\ autoEntries \in Nat /\ autoRun \in AutoRun
      /\ Faults("statement") \in Nat /\ Faults("crash") \in Nat
    BY <1>1, AttemptedType DEF AutomationTypeOK
<1>3. Owing \in 0..1 /\ Owing' \in 0..1
    BY DEF Owing
<1>4. UNCHANGED autoFaults => \A k : Faults(k)' = Faults(k)
    BY DEF Faults
<1>5. ASSUME UNCHANGED <<autoWrites, autoEntries>>,
             \/ Faults("statement")' + Faults("crash")' = Faults("statement") + Faults("crash") /\ Owing' >= Owing
             \/ Faults("statement")' + Faults("crash")' = Faults("statement") + Faults("crash") + 1
      PROVE  EntriesFit'
    <2>1. Faults("statement") + Faults("crash") \in Nat /\ Faults("statement")' + Faults("crash")' \in Nat
        BY <1>2, <1>5
    <2>2. autoWrites - autoEntries - Owing <= Faults("statement") + Faults("crash")
        BY <1>1 DEF EntriesFit
    <2>3. autoWrites - autoEntries - Owing' <= Faults("statement")' + Faults("crash")'
        BY <1>2, <1>3, <1>5, <2>1, <2>2, OweNoLess
    <2>4. QED
        BY <1>5, <2>3 DEF EntriesFit
<1>6. CASE ExecuteStatement
    <2> DEFINE statement == Head(autoRun.todo)
    <2>1. /\ autoRun.pc = "statement" /\ UNCHANGED autoFaults
          /\ autoWrites' = autoWrites + (IF statement.kind = "row" THEN 1 ELSE 0)
          /\ autoEntries' = autoEntries + (IF statement.kind = "history" THEN 1 ELSE 0)
          /\ autoRun' = [autoRun EXCEPT !.todo = Tail(@),
                              !.pc = IF Tail(autoRun.todo) = <<>> THEN "refresh" ELSE "statement"]
        BY <1>6 DEF ExecuteStatement
    <2>2. /\ autoRun'.todo = Tail(autoRun.todo)
          /\ Tail(autoRun.todo) # <<>> => autoRun'.pc = "statement"
        BY <1>2, <2>1 DEF AutoRun
    <2>3. statement.kind = "row" => Tail(autoRun.todo) # <<>> /\ Head(Tail(autoRun.todo)).kind = "history"
        BY <1>1, <2>1, TailFits DEF RunFit
    <2>4. Owing = IF statement.kind = "history" THEN 1 ELSE 0
        BY <2>1 DEF Owing
    <2>5. statement.kind = "row" => Owing' = 1
        BY <2>2, <2>3 DEF Owing
    <2> HIDE DEF statement
    <2>6. autoWrites - autoEntries - Owing <= Faults("statement") + Faults("crash")
        BY <1>1 DEF EntriesFit
    <2>7. autoWrites' - autoEntries' - Owing' <= Faults("statement") + Faults("crash")
        <3>1. CASE statement.kind = "row"
            <4>1. autoWrites' = autoWrites + 1 /\ autoEntries' = autoEntries + 0 /\ Owing = 0 /\ Owing' = 1
                BY <2>1, <2>4, <2>5, <3>1
            <4>2. QED
                BY <1>2, <2>6, <4>1
        <3>2. CASE statement.kind = "history"
            <4>1. autoWrites' = autoWrites + 0 /\ autoEntries' = autoEntries + 1 /\ Owing = 1
                BY <2>1, <2>4, <3>2
            <4>2. CASE Owing' = 0
                BY <1>2, <2>6, <4>1, <4>2
            <4>3. CASE Owing' = 1
                BY <1>2, <2>6, <4>1, <4>3
            <4>4. QED
                BY <1>3, <4>2, <4>3
        <3>3. CASE statement.kind \notin {"row", "history"}
            <4>1. autoWrites' = autoWrites + 0 /\ autoEntries' = autoEntries + 0 /\ Owing = 0
                BY <2>1, <2>4, <3>3
            <4>2. CASE Owing' = 0
                BY <1>2, <2>6, <4>1, <4>2
            <4>3. CASE Owing' = 1
                BY <1>2, <2>6, <4>1, <4>3
            <4>4. QED
                BY <1>3, <4>2, <4>3
        <3>4. QED
            BY <3>1, <3>2, <3>3
    <2>8. QED
        BY <1>4, <2>1, <2>7 DEF EntriesFit
<1>7. ASSUME UNCHANGED <<autoWrites, autoEntries, autoFaults>>, Owing' >= Owing PROVE EntriesFit'
    BY <1>4, <1>5, <1>7
<1>8. ASSUME UNCHANGED <<autoWrites, autoEntries, autoFaults>>, autoRun.pc # "statement" \/ UNCHANGED autoRun
      PROVE  EntriesFit'
    <2>1. CASE UNCHANGED autoRun
        <3>1. Owing' = Owing
            BY <2>1 DEF Owing
        <3>2. QED
            BY <1>3, <1>7, <1>8, <3>1
    <2>2. CASE autoRun.pc # "statement"
        <3>1. Owing = 0
            BY <2>2 DEF Owing
        <3>2. Owing' >= Owing
            BY <1>3, <3>1
        <3>3. QED
            BY <1>7, <1>8, <3>2
    <2>3. QED
        BY <1>8, <2>1, <2>2
<1>9. CASE (\E r \in Rules : CreateRule(r) \/ UpdateRule(r) \/ DeleteRule(r)) \/ UserChangesTicket
    BY <1>8, <1>9 DEF CreateRule, UpdateRule, DeleteRule, UserChangesTicket
<1>10. CASE ProcessEvent \/ ReportDeadAutomationJob
    BY <1>8, <1>10 DEF ProcessEvent, ReportDeadAutomationJob
<1>11. CASE TakeAutomationJob
    <2>1. autoRun.pc # "statement"
        BY <1>1, <1>11 DEF TakeAutomationJob, RunFit
    <2>2. QED
        BY <1>8, <1>11, <2>1 DEF TakeAutomationJob
<1>12. CASE LoadTicketAndRules
    BY <1>8, <1>12 DEF LoadTicketAndRules
<1>13. CASE EvaluateRule
    BY <1>8, <1>13 DEF EvaluateRule
<1>14. CASE BeginAction
    BY <1>8, <1>14 DEF BeginAction
<1>15. CASE RefreshTicket
    BY <1>8, <1>15 DEF RefreshTicket
<1>16. CASE RecordSkip
    BY <1>8, <1>16 DEF RecordSkip
<1>17. CASE RecordExecution
    BY <1>8, <1>17 DEF RecordExecution
<1>18. CASE RescueExecution
    BY <1>8, <1>18 DEF RescueExecution
<1>19. CASE AutoStatementFails \/ AutoCrash
    <2>1. UNCHANGED <<autoWrites, autoEntries>>
        BY <1>19 DEF AutoStatementFails, AutoCrash
    <2>2. Faults("statement")' + Faults("crash")' = Faults("statement") + Faults("crash") + 1
        <3>1. CASE AutoStatementFails
            BY <1>1, <1>2, <3>1, FaultCounts DEF AutoStatementFails
        <3>2. CASE AutoCrash
            BY <1>1, <1>2, <3>2, FaultCounts DEF AutoCrash
        <3>3. QED
            BY <1>19, <3>1, <3>2
    <2>3. QED
        BY <1>5, <2>1, <2>2
<1>20. CASE DeadAutomationJobUnreported
    <2>1. UNCHANGED <<autoWrites, autoEntries, autoRun>>
        BY <1>20 DEF DeadAutomationJobUnreported
    <2>2. Faults("statement")' + Faults("crash")' = Faults("statement") + Faults("crash")
        BY <1>1, <1>20, FaultCounts DEF DeadAutomationJobUnreported
    <2>3. Owing' = Owing
        BY <2>1 DEF Owing
    <2>4. Owing' >= Owing
        BY <1>3, <2>3
    <2>5. QED
        BY <1>5, <2>1, <2>2, <2>4
<1>21. QED
    BY <1>6, <1>9, <1>10, <1>11, <1>12, <1>13, <1>14, <1>15, <1>16, <1>17, <1>18, <1>19, <1>20
    DEF AutomationNext, AutomationStep

-----------------------------------------------------------------------------
(* The theorems of the automation engine *)

LEMMA AutoStarts == AutomationInit => AutoInv
<1> SUFFICES ASSUME AutomationInit PROVE AutoInv
    OBVIOUS
<1>1. AutomationTypeOK
    <2>1. NoRule \in [state : {"absent", "active", "inactive", "deleted"}, content : RuleContents]
        BY AutomationAssumption DEF NoRule
    <2>2. autoRule \in [Rules -> [state : {"absent", "active", "inactive", "deleted"}, content : RuleContents]]
        BY <2>1 DEF AutomationInit
    <2>3. autoTicket \in AutoTicket
        BY DEF AutomationInit, AutoTicket, Status, Priorities
    <2>4. autoRun \in AutoRun
        BY <2>3, RestIsRun DEF AutomationInit
    <2>5. autoJob \in JobRecord
        BY JobQueueAssumption DEF AutomationInit, NoJob, JobRecord, JobStates
    <2>6. autoFaults \in [AutoFaultKinds -> 0..MaxAutoFaults] /\ autoChanges \in 0..MaxAutoChanges
        BY AutomationAssumption DEF AutomationInit
    <2>7. QED
        BY <2>2, <2>3, <2>4, <2>5, <2>6 DEF AutomationInit, AutomationTypeOK
<1>2. /\ autoRun.pc = "idle" /\ autoRun.rules = <<>> /\ autoJob.state = "none" /\ autoJob.attempts = 0
      /\ \A r \in Rules : autoBegun[r] = 0 /\ \A s \in ExecutionStatus : autoRecords[r][s] = 0
      /\ autoWrites = 0 /\ autoEntries = 0 /\ \A k : Faults(k) = 0
    BY DEF AutomationInit, AtRest, NoJob, Faults
<1>3. RunFit
    BY <1>2, JobQueueAssumption DEF RunFit, Busy
<1>4. BegunFit
    <2>1. Attempted = 0
        BY <1>2 DEF Attempted
    <2>2. QED
        BY <1>2, <2>1 DEF BegunFit, Busy
<1>5. BooksFit
    <2>1. ASSUME NEW r \in Rules PROVE Unrecorded(r) = 0
        <3>1. ~Executing(r)
            BY <1>2 DEF Executing
        <3>2. autoBegun[r] = 0 /\ autoRecords[r]["COMPLETED"] = 0 /\ autoRecords[r]["FAILED"] = 0
            BY <1>2 DEF ExecutionStatus
        <3>3. Unrecorded(r) = autoBegun[r] - 0 - (autoRecords[r]["COMPLETED"] + autoRecords[r]["FAILED"])
            BY <3>1 DEF Unrecorded
        <3>4. QED
            BY <3>2, <3>3
    <2>2. \A r \in KeptRules : 1..Unrecorded(r) = {}
        BY <2>1 DEF KeptRules
    <2>3. UnrecordedExecutions = {}
        BY <2>2 DEF UnrecordedExecutions
    <2>4. Rescuing = 0
        BY <1>2 DEF Rescuing
    <2>5. IsFiniteSet(UnrecordedExecutions) /\ Cardinality(UnrecordedExecutions) = 0
        BY <2>3, FS_EmptySet
    <2>6. Faults("statement") = 0 /\ Faults("crash") = 0
        BY <1>2
    <2>7. QED
        BY <2>4, <2>5, <2>6 DEF BooksFit
<1>6. EntriesFit
    <2>1. Owing = 0
        BY <1>2 DEF Owing
    <2>2. Faults("statement") = 0 /\ Faults("crash") = 0
        BY <1>2
    <2>3. QED
        BY <1>2, <2>1, <2>2 DEF EntriesFit
<1>7. QED
    BY <1>1, <1>3, <1>4, <1>5, <1>6 DEF AutoInv

LEMMA AutoSteps == AutoInv /\ [AutomationNext]_autoVars => AutoInv'
<1> SUFFICES ASSUME AutoInv, [AutomationNext]_autoVars PROVE AutoInv'
    OBVIOUS
<1>1. CASE AutomationNext
    BY <1>1, TypeSteps, RunSteps, BegunSteps, BooksSteps, EntriesSteps DEF AutoInv
<1>2. CASE UNCHANGED autoVars
    <2>1. UNCHANGED <<autoRule, autoTicket, autoJob, autoRun, autoRecords, autoBegun, autoNotified,
                      autoWrites, autoEntries, autoChanges, autoFaults>>
        BY <1>2 DEF autoVars
    <2>2. AutomationTypeOK /\ RunFit /\ BegunFit /\ BooksFit /\ EntriesFit
        BY DEF AutoInv
    <2>3. AutomationTypeOK'
        BY <2>1, <2>2 DEF AutomationTypeOK
    <2>4. RunFit'
        BY <2>1, <2>2 DEF RunFit
    <2>5. \A k : Faults(k)' = Faults(k)
        BY <2>1 DEF Faults
    <2>6. BegunFit'
        BY <2>1, <2>2, <2>5 DEF BegunFit, Attempted
    <2>7. UnrecordedExecutions' = UnrecordedExecutions
        BY <2>1 DEF UnrecordedExecutions, KeptRules, Unrecorded, Executing, Current
    <2>8. Rescuing' = Rescuing
        BY <2>1 DEF Rescuing, RuleDeleted, Current
    <2>9. BooksFit'
        BY <2>2, <2>5, <2>7, <2>8 DEF BooksFit
    <2>10. Owing' = Owing
        BY <2>1 DEF Owing
    <2>11. EntriesFit'
        BY <2>1, <2>2, <2>5, <2>10 DEF EntriesFit
    <2>12. QED
        BY <2>3, <2>4, <2>6, <2>9, <2>11 DEF AutoInv
<1>3. QED
    BY <1>1, <1>2

\* The automation engine's variables keep their types.
THEOREM AutomationTypeCorrect == AutomationSpec => []AutomationTypeOK
<1>1. AutoInv => AutomationTypeOK
    BY DEF AutoInv
<1>2. QED
    BY <1>1, AutoStarts, AutoSteps, PTL DEF AutomationSpec

LEMMA AutoTells == AutoInv => AutomationAccounted
<1> SUFFICES ASSUME AutoInv PROVE AutomationAccounted
    OBVIOUS
<1>1. AutomationTypeOK /\ BegunFit /\ BooksFit /\ EntriesFit
    BY DEF AutoInv
<1>2. 2 * Cardinality(UnrecordedExecutions) <= Faults("statement") + 2 * Faults("crash")
    <2>1. /\ Cardinality(UnrecordedExecutions) \in Nat
          /\ 2 * Cardinality(UnrecordedExecutions) + Rescuing <= Faults("statement") + 2 * Faults("crash")
        BY <1>1, FS_CardinalityType DEF BooksFit
    <2>2. Rescuing = 0 \/ Rescuing = 1
        BY DEF Rescuing
    <2>3. Faults("statement") \in Nat /\ Faults("crash") \in Nat
        BY <1>1, AttemptedType
    <2>4. QED
        BY <2>1, <2>2, <2>3
<1>3. autoWrites - autoEntries
         - (IF autoRun.pc = "statement" /\ Head(autoRun.todo).kind = "history" THEN 1 ELSE 0)
         <= Faults("statement") + Faults("crash")
    BY <1>1 DEF EntriesFit, Owing
<1>4. ASSUME NEW r \in Rules PROVE autoBegun[r] <= 1 + autoJob.attempts + Faults("crash")
    <2>1. autoBegun[r] <= 1 + (autoJob.attempts + Faults("crash"))
        BY <1>1 DEF BegunFit, Attempted
    <2>2. autoJob.attempts \in Nat /\ Faults("crash") \in Nat
        BY <1>1, AttemptedType
    <2>3. QED
        BY <2>1, <2>2
<1>5. QED
    BY <1>2, <1>3, <1>4 DEF AutomationAccounted

\* Whatever fails, an execution goes unrecorded only if both of its records fail
\* or the process dies, a change lacks its history entry only by a fault between
\* the two, and a rule is executed again only because an attempt failed or the
\* process died (automation-engine.ts).
THEOREM AutomationAccountedCorrect == AutomationSpec => []AutomationAccounted
BY AutoTells, AutoStarts, AutoSteps, PTL DEF AutomationSpec

-----------------------------------------------------------------------------
(* The recursive functions of what a run computes: each is what it says it is *)

\* The row after one statement.
Executed(ticket, statement) ==
    IF statement.kind = "row" THEN [ticket EXCEPT ![statement.field] = statement.value] ELSE ticket

LEMMA RowAfterIs ==
    ASSUME NEW ticket, NEW plan, Len(plan) \in Nat
    PROVE  /\ RowAfter(ticket, plan)[0] = ticket
           /\ \A i \in 1..Len(plan) : RowAfter(ticket, plan)[i] = Executed(RowAfter(ticket, plan)[i - 1], plan[i])
<1> DEFINE base == ticket
           Step(x, i) == Executed(x, plan[i])
           Is(f, n) == f = [i \in 0..n |-> IF i = 0 THEN base ELSE Step(f[i - 1], i)]
           Without == {n \in Nat : ~ \E f : Is(f, n)}
<1> HIDE DEF base, Step
<1>1. Without = {}
    <2>1. SUFFICES ASSUME Without # {} PROVE FALSE
        OBVIOUS
    <2>2. PICK n \in Without : \A k \in Without : n <= k
        BY <2>1, SmallestNumber
    <2>3. CASE n = 0
        <3> DEFINE f == [i \in 0..0 |-> base]
        <3>1. Is(f, 0)
            OBVIOUS
        <3>2. QED
            BY <2>2, <2>3, <3>1
    <2>4. CASE n # 0
        <3>1. n \in Nat \ {0} /\ n - 1 \in Nat
            BY <2>2, <2>4
        <3>2. n - 1 \notin Without
            <4> HIDE DEF Without
            <4>1. QED
                BY <2>2, <3>1
        <3>3. PICK f : Is(f, n - 1)
            BY <3>1, <3>2
        <3> HIDE DEF Without
        <3> DEFINE g == [i \in 0..n |-> IF i = n THEN Step(f[n - 1], n) ELSE f[i]]
                   h == [i \in 0..n |-> IF i = 0 THEN base ELSE Step(g[i - 1], i)]
        <3>4. /\ f[0] = base /\ \A i \in 1..(n - 1) : f[i] = Step(f[i - 1], i)
              /\ \A i \in 0..(n - 1) : g[i] = f[i]
              /\ g[n] = Step(f[n - 1], n)
              /\ h[0] = base /\ \A i \in 1..n : h[i] = Step(g[i - 1], i)
            BY <3>1, <3>3
        <3>5. ASSUME NEW i \in 0..n PROVE g[i] = h[i]
            <4> HIDE DEF g, h
            <4>1. CASE i = 0
                BY <3>1, <3>4, <4>1
            <4>2. CASE i \in 1..(n - 1)
                <5>1. i - 1 \in 0..(n - 1) /\ i \in 0..(n - 1) /\ i \in 1..n
                    BY <4>2, <3>1
                <5>2. g[i] = f[i] /\ g[i - 1] = f[i - 1] /\ f[i] = Step(f[i - 1], i) /\ h[i] = Step(g[i - 1], i)
                    BY <3>4, <5>1, <4>2
                <5>3. QED
                    BY <5>2
            <4>3. CASE i = n
                <5>1. i \in 1..n /\ n - 1 \in 0..(n - 1)
                    BY <3>1, <4>3
                <5>2. g[i] = Step(f[n - 1], n) /\ g[n - 1] = f[n - 1] /\ h[i] = Step(g[i - 1], i)
                    BY <3>4, <4>3, <5>1
                <5>3. QED
                    BY <5>2, <4>3
            <4>4. QED
                BY <3>5, <3>1, <4>1, <4>2, <4>3
        <3>6. g = h
            BY <3>5
        <3>7. Is(g, n)
            BY <3>6
        <3>8. QED
            BY <2>2, <3>7 DEF Without
    <2>5. QED
        BY <2>3, <2>4
<1>2. \E f : Is(f, Len(plan))
    BY <1>1
<1>3. RowAfter(ticket, plan) = CHOOSE f : Is(f, Len(plan))
    BY Zenon DEF RowAfter, Executed, base, Step
<1>4. Is(RowAfter(ticket, plan), Len(plan))
    BY <1>2, <1>3, Zenon
<1> DEFINE after == RowAfter(ticket, plan)
<1> HIDE DEF after
<1>5. after = [i \in 0..Len(plan) |-> IF i = 0 THEN base ELSE Step(after[i - 1], i)]
    BY <1>4 DEF after
<1>6. after[0] = base /\ \A i \in 1..Len(plan) : after[i] = Step(after[i - 1], i)
    BY <1>5
<1>7. QED
    BY <1>6 DEF after, base, Step

\* What an action may make of the row and of what the next one sees.
Through(action, states) ==
    UNION {{[row |-> Apply(s.row, plan), seen |-> Apply(s.row, plan)] : plan \in Plans(action, s.seen)} : s \in states}

LEMMA ActionsAfterIs ==
    ASSUME NEW actions, NEW event, NEW row, Len(actions) \in Nat
    PROVE  /\ ActionsAfter(actions, event, row)[0] = {[row |-> row, seen |-> event]}
           /\ \A i \in 1..Len(actions) : 
                 ActionsAfter(actions, event, row)[i] = Through(actions[i], ActionsAfter(actions, event, row)[i - 1])
<1> DEFINE base == {[row |-> row, seen |-> event]}
           Step(x, i) == Through(actions[i], x)
           Is(f, n) == f = [i \in 0..n |-> IF i = 0 THEN base ELSE Step(f[i - 1], i)]
           Without == {n \in Nat : ~ \E f : Is(f, n)}
<1> HIDE DEF base, Step
<1>1. Without = {}
    <2>1. SUFFICES ASSUME Without # {} PROVE FALSE
        OBVIOUS
    <2>2. PICK n \in Without : \A k \in Without : n <= k
        BY <2>1, SmallestNumber
    <2>3. CASE n = 0
        <3> DEFINE f == [i \in 0..0 |-> base]
        <3>1. Is(f, 0)
            OBVIOUS
        <3>2. QED
            BY <2>2, <2>3, <3>1
    <2>4. CASE n # 0
        <3>1. n \in Nat \ {0} /\ n - 1 \in Nat
            BY <2>2, <2>4
        <3>2. n - 1 \notin Without
            <4> HIDE DEF Without
            <4>1. QED
                BY <2>2, <3>1
        <3>3. PICK f : Is(f, n - 1)
            BY <3>1, <3>2
        <3> HIDE DEF Without
        <3> DEFINE g == [i \in 0..n |-> IF i = n THEN Step(f[n - 1], n) ELSE f[i]]
                   h == [i \in 0..n |-> IF i = 0 THEN base ELSE Step(g[i - 1], i)]
        <3>4. /\ f[0] = base /\ \A i \in 1..(n - 1) : f[i] = Step(f[i - 1], i)
              /\ \A i \in 0..(n - 1) : g[i] = f[i]
              /\ g[n] = Step(f[n - 1], n)
              /\ h[0] = base /\ \A i \in 1..n : h[i] = Step(g[i - 1], i)
            BY <3>1, <3>3
        <3>5. ASSUME NEW i \in 0..n PROVE g[i] = h[i]
            <4> HIDE DEF g, h
            <4>1. CASE i = 0
                BY <3>1, <3>4, <4>1
            <4>2. CASE i \in 1..(n - 1)
                <5>1. i - 1 \in 0..(n - 1) /\ i \in 0..(n - 1) /\ i \in 1..n
                    BY <4>2, <3>1
                <5>2. g[i] = f[i] /\ g[i - 1] = f[i - 1] /\ f[i] = Step(f[i - 1], i) /\ h[i] = Step(g[i - 1], i)
                    BY <3>4, <5>1, <4>2
                <5>3. QED
                    BY <5>2
            <4>3. CASE i = n
                <5>1. i \in 1..n /\ n - 1 \in 0..(n - 1)
                    BY <3>1, <4>3
                <5>2. g[i] = Step(f[n - 1], n) /\ g[n - 1] = f[n - 1] /\ h[i] = Step(g[i - 1], i)
                    BY <3>4, <4>3, <5>1
                <5>3. QED
                    BY <5>2, <4>3
            <4>4. QED
                BY <3>5, <3>1, <4>1, <4>2, <4>3
        <3>6. g = h
            BY <3>5
        <3>7. Is(g, n)
            BY <3>6
        <3>8. QED
            BY <2>2, <3>7 DEF Without
    <2>5. QED
        BY <2>3, <2>4
<1>2. \E f : Is(f, Len(actions))
    BY <1>1
<1>3. ActionsAfter(actions, event, row) = CHOOSE f : Is(f, Len(actions))
    BY Zenon DEF ActionsAfter, Through, base, Step
<1>4. Is(ActionsAfter(actions, event, row), Len(actions))
    BY <1>2, <1>3, Zenon
<1> DEFINE after == ActionsAfter(actions, event, row)
<1> HIDE DEF after
<1>5. after = [i \in 0..Len(actions) |-> IF i = 0 THEN base ELSE Step(after[i - 1], i)]
    BY <1>4 DEF after
<1>6. after[0] = base /\ \A i \in 1..Len(actions) : after[i] = Step(after[i - 1], i)
    BY <1>5
<1>7. QED
    BY <1>6 DEF after, base, Step

LEMMA RulesAfterIs ==
    ASSUME NEW rules, NEW event, Len(rules) \in Nat
    PROVE  /\ RulesAfter(rules, event)[0] = {event}
           /\ \A i \in 1..Len(rules) : 
                 RulesAfter(rules, event)[i] =
                     UNION {RuleOutcomes(rules[i].content, event, row) : row \in RulesAfter(rules, event)[i - 1]}
<1> DEFINE base == {event}
           Step(x, i) == UNION {RuleOutcomes(rules[i].content, event, row) : row \in x}
           Is(f, n) == f = [i \in 0..n |-> IF i = 0 THEN base ELSE Step(f[i - 1], i)]
           Without == {n \in Nat : ~ \E f : Is(f, n)}
<1> HIDE DEF base, Step
<1>1. Without = {}
    <2>1. SUFFICES ASSUME Without # {} PROVE FALSE
        OBVIOUS
    <2>2. PICK n \in Without : \A k \in Without : n <= k
        BY <2>1, SmallestNumber
    <2>3. CASE n = 0
        <3> DEFINE f == [i \in 0..0 |-> base]
        <3>1. Is(f, 0)
            OBVIOUS
        <3>2. QED
            BY <2>2, <2>3, <3>1
    <2>4. CASE n # 0
        <3>1. n \in Nat \ {0} /\ n - 1 \in Nat
            BY <2>2, <2>4
        <3>2. n - 1 \notin Without
            <4> HIDE DEF Without
            <4>1. QED
                BY <2>2, <3>1
        <3>3. PICK f : Is(f, n - 1)
            BY <3>1, <3>2
        <3> HIDE DEF Without
        <3> DEFINE g == [i \in 0..n |-> IF i = n THEN Step(f[n - 1], n) ELSE f[i]]
                   h == [i \in 0..n |-> IF i = 0 THEN base ELSE Step(g[i - 1], i)]
        <3>4. /\ f[0] = base /\ \A i \in 1..(n - 1) : f[i] = Step(f[i - 1], i)
              /\ \A i \in 0..(n - 1) : g[i] = f[i]
              /\ g[n] = Step(f[n - 1], n)
              /\ h[0] = base /\ \A i \in 1..n : h[i] = Step(g[i - 1], i)
            BY <3>1, <3>3
        <3>5. ASSUME NEW i \in 0..n PROVE g[i] = h[i]
            <4> HIDE DEF g, h
            <4>1. CASE i = 0
                BY <3>1, <3>4, <4>1
            <4>2. CASE i \in 1..(n - 1)
                <5>1. i - 1 \in 0..(n - 1) /\ i \in 0..(n - 1) /\ i \in 1..n
                    BY <4>2, <3>1
                <5>2. g[i] = f[i] /\ g[i - 1] = f[i - 1] /\ f[i] = Step(f[i - 1], i) /\ h[i] = Step(g[i - 1], i)
                    BY <3>4, <5>1, <4>2
                <5>3. QED
                    BY <5>2
            <4>3. CASE i = n
                <5>1. i \in 1..n /\ n - 1 \in 0..(n - 1)
                    BY <3>1, <4>3
                <5>2. g[i] = Step(f[n - 1], n) /\ g[n - 1] = f[n - 1] /\ h[i] = Step(g[i - 1], i)
                    BY <3>4, <4>3, <5>1
                <5>3. QED
                    BY <5>2, <4>3
            <4>4. QED
                BY <3>5, <3>1, <4>1, <4>2, <4>3
        <3>6. g = h
            BY <3>5
        <3>7. Is(g, n)
            BY <3>6
        <3>8. QED
            BY <2>2, <3>7 DEF Without
    <2>5. QED
        BY <2>3, <2>4
<1>2. \E f : Is(f, Len(rules))
    BY <1>1
<1>3. RulesAfter(rules, event) = CHOOSE f : Is(f, Len(rules))
    BY Zenon DEF RulesAfter, base, Step
<1>4. Is(RulesAfter(rules, event), Len(rules))
    BY <1>2, <1>3, Zenon
<1> DEFINE after == RulesAfter(rules, event)
<1> HIDE DEF after
<1>5. after = [i \in 0..Len(rules) |-> IF i = 0 THEN base ELSE Step(after[i - 1], i)]
    BY <1>4 DEF after
<1>6. after[0] = base /\ \A i \in 1..Len(rules) : after[i] = Step(after[i - 1], i)
    BY <1>5
<1>7. QED
    BY <1>6 DEF after, base, Step

-----------------------------------------------------------------------------
(* What a run computes *)

Untouched == autoChanges = 0 /\ \A kind \in AutoFaultKinds : autoFaults[kind] = 0

\* What is left of a list after its first k elements.
Left(list, k) == SubSeq(list, k + 1, Len(list))

PlanSteps == Statements \cup {[kind |-> "failure"]}

NothingRecorded == \A r \in Rules : RecordsOf(r) = 0

\* The first k rules of the list have one record each, and no other rule has any.
RecordedUpTo(rules, k) ==
    \A r \in Rules : RecordsOf(r) = IF \E i \in 1..k : rules[i].rule = r THEN 1 ELSE 0

\* The row is what the first j actions and m statements of the next one make of it.
InAction(actions, row, j) ==
    /\ j + 1 \in DOMAIN actions
    /\ \E s \in ActionsAfter(actions, autoRun.event, row)[j] :
       \E plan \in Plans(actions[j + 1], s.seen) : \E m \in 0..Len(plan) :
           /\ plan \in Seq(PlanSteps)
           /\ autoTicket = RowAfter(s.row, plan)[m]
           /\ autoRun.pc = "statement" => autoRun.todo = Left(plan, m)
           /\ autoRun.pc = "refresh" => m = Len(plan)

InRule(content, row) ==
    /\ TRUE \in Matches(content.conditions, autoRun.event)
    /\ \E j \in 0..Len(content.actions) :
           /\ autoRun.actions = Left(content.actions, j)
           /\ \/ /\ autoRun.pc = "action"
                 /\ [row |-> autoTicket, seen |-> autoRun.seen]
                       \in ActionsAfter(content.actions, autoRun.event, row)[j]
              \/ autoRun.pc \in {"statement", "refresh"} /\ InAction(content.actions, row, j)

\* The rules before it have made the row what it was, and the current one is under way.
RuleComputes(content, row) ==
    \/ autoRun.pc = "rule" /\ autoTicket = row
    \/ /\ autoRun.pc = "skip" /\ autoTicket = row
       /\ FALSE \in Matches(content.conditions, autoRun.event)
    \/ InRule(content, row)

RunComputes ==
    \E rules \in ActiveRules : \E k \in 0..(Len(rules) - 1) :
        /\ autoRun.rules = Left(rules, k)
        /\ RecordedUpTo(rules, k)
        /\ \E row \in RulesAfter(rules, autoRun.event)[k] : RuleComputes(rules[k + 1].content, row)

RunComputed ==
    \/ /\ autoTicket \in Outcomes(autoRun.event)
       /\ \A r \in Rules : RecordsOf(r) = IF autoRule[r].state = "active" THEN 1 ELSE 0
    \/ autoTicket = autoRun.event /\ NothingRecorded

Computes ==
    /\ \A r \in Rules : autoRule[r].state \in {"active", "absent"}
    /\ autoJob.state \in {"none", "waiting", "active", "completed"} /\ autoRun.pc # "rescue"
    /\ autoRun.pc \in {"idle", "load"} /\ autoJob.state # "completed"
          => autoTicket = autoRun.event /\ NothingRecorded
    /\ autoRun.pc \notin {"idle", "load"} => RunComputes
    /\ autoJob.state = "completed" => RunComputed

ComputesInv == Untouched => Computes

-----------------------------------------------------------------------------
(* Lists *)

LEMMA LeftIs ==
    ASSUME NEW S, NEW list \in Seq(S), NEW k \in 0..Len(list)
    PROVE  /\ k = Len(list) <=> Left(list, k) = <<>>
           /\ k < Len(list) => /\ k + 1 \in DOMAIN list /\ k + 1 \in 1..Len(list)
                               /\ Head(Left(list, k)) = list[k + 1]
                               /\ Tail(Left(list, k)) = Left(list, k + 1)
           /\ Left(list, 0) = list
<1> DEFINE n == Len(list)
<1>1. n \in Nat /\ k \in Nat /\ k <= n /\ DOMAIN list = 1..n
    BY LenProperties
<1>2. \A i \in 1..n : list[i] \in S
    BY ElementOfSeq
<1>3. Left(list, k) = SubSeq(list, k + 1, n) /\ Left(list, k + 1) = SubSeq(list, (k + 1) + 1, n)
    BY Zenon DEF Left
<1>4. Left(list, 0) = list
    <2>1. SubSeq(list, 1, n) = list
        BY SubSeqFull
    <2>2. 0 + 1 = 1
        OBVIOUS
    <2>3. QED
        BY <2>1, <2>2, Zenon DEF Left
<1> HIDE DEF n
<1>5. k = n => Left(list, k) = <<>>
    <2>1. SUFFICES ASSUME k = n PROVE Left(list, k) = <<>>
        OBVIOUS
    <2>2. n < k + 1 /\ k + 1 \in Int /\ n \in Int
        BY <1>1, <2>1
    <2>3. SubSeq(list, k + 1, n) = <<>>
        BY <2>2, SubSeqEmpty
    <2>4. QED
        BY <1>3, <2>3, Zenon
<1>6. ASSUME k < n
      PROVE  /\ k + 1 \in 1..n /\ Left(list, k) # <<>>
             /\ Head(Left(list, k)) = list[k + 1] /\ Tail(Left(list, k)) = Left(list, k + 1)
    <2>1. k + 1 \in 1..n /\ n \in (k + 1)..n /\ k + 1 <= n /\ n - (k + 1) + 1 # 0 /\ n \in Int
        BY <1>1, <1>6
    <2>2. Head(SubSeq(list, k + 1, n)) = list[k + 1]
          /\ Tail(SubSeq(list, k + 1, n)) = SubSeq(list, (k + 1) + 1, n)
        BY <2>1, HeadTailOfSubSeq DEF n
    <2>3. \A i \in (k + 1)..n : list[i] \in S
        BY <1>1, <1>2
    <2>4. Len(SubSeq(list, k + 1, n)) = n - (k + 1) + 1
        BY <1>1, <2>1, <2>3, SubSeqProperties
    <2>5. SubSeq(list, k + 1, n) # <<>>
        BY <2>1, <2>4, EmptySeq, Zenon
    <2>6. QED
        BY <1>3, <2>1, <2>2, <2>5, Zenon
<1>7. k = n \/ k < n
    BY <1>1
<1>8. QED
    BY <1>1, <1>4, <1>5, <1>6, <1>7 DEF n

\* The list of a run has every active rule.
LEMMA ListHasAll ==
    ASSUME AutomationTypeOK, NEW rules \in ActiveRules, NEW r \in Rules
    PROVE  autoRule[r].state = "active" <=> \E i \in 1..Len(rules) : rules[i].rule = r
<1> DEFINE active == {q \in Rules : autoRule[q].state = "active"}
           n == Cardinality(active)
<1>1. IsFiniteSet(active) /\ n \in Nat
    <2>1. IsFiniteSet(Rules)
        BY FS_Interval, AutomationAssumption DEF Rules
    <2>2. active \subseteq Rules
        OBVIOUS
    <2>3. QED
        BY <2>1, <2>2, FS_Subset, FS_CardinalityType
<1>2. PICK o \in [1..n -> active] :
          /\ \A i, j \in DOMAIN o : i < j => o[i] < o[j]
          /\ rules = [i \in DOMAIN o |-> [rule |-> o[i], content |-> autoRule[o[i]].content]]
    BY DEF ActiveRules
<1>3. \A i \in 1..n : o[i] \in Int
    BY <1>2, AutomationAssumption DEF Rules
<1>4. r \in active <=> autoRule[r].state = "active"
    OBVIOUS
<1>5. Cardinality(1..n) = n /\ IsFiniteSet(1..n) /\ n = Cardinality(active)
    <2> HIDE DEF active
    <2>1. QED
      BY <1>1, FS_Interval
<1> HIDE DEF n, active
<1>6. DOMAIN rules = 1..n /\ \A i \in 1..n : rules[i].rule = o[i] /\ o[i] \in active
    BY <1>2
<1>7. Len(rules) = n
    <2>1. rules \in Seq([rule : Rules, content : RuleContents])
        BY ListIs
    <2> DEFINE entries == [rule : Rules, content : RuleContents]
    <2> HIDE DEF entries
    <2>2. Len(rules) \in Nat /\ DOMAIN rules = 1..Len(rules)
        BY <2>1, LenProperties DEF entries
    <2>3. QED
        BY <1>1, <1>6, <2>2
<1>8. o \in Injection(1..n, active)
    <2>1. ASSUME NEW i \in 1..n, NEW j \in 1..n, o[i] = o[j] PROVE i = j
        <3>1. ~(i < j) /\ ~(j < i)
            BY <1>2, <1>3, <2>1
        <3>2. QED
            BY <1>1, <3>1
    <2>2. QED
        BY <1>2, <2>1 DEF Injection, IsInjective
<1>9. o \in Surjection(1..n, active)
    BY <1>1, <1>5, <1>8, FS_Injection
<1>10. \A q \in active : \E i \in 1..n : o[i] = q
    BY <1>9 DEF Surjection
<1>11. QED
    BY <1>4, <1>6, <1>7, <1>10

LEMMA StepsOfPlan ==
    ASSUME NEW plan \in Seq(Statements)
    PROVE  plan \in Seq(PlanSteps) /\ Len(plan) \in Nat
<1>1. Statements \subseteq PlanSteps
    BY DEF PlanSteps
<1> DEFINE S == Statements
           T == PlanSteps
<1>2. plan \in Seq(S) /\ S \subseteq T
    BY <1>1
<1> HIDE DEF S, T
<1>3. plan \in Seq(T) /\ Len(plan) \in Nat
    BY <1>2
<1>4. QED
    BY <1>3 DEF T

-----------------------------------------------------------------------------
(* The rest of the run *)

\* A user's change and a fault leave their trace, so that an untouched run has met none.
LEMMA UntouchedStays ==
    ASSUME AutoInv, AutomationNext, Untouched'
    PROVE  Untouched /\ UNCHANGED autoRule /\ (ProcessEvent \/ AutomationStep)
<1>1. AutomationTypeOK
    BY DEF AutoInv
<1>2. ~UserChanges
    <2>1. autoChanges \in Nat /\ autoChanges' = 0
        BY <1>1, AutomationAssumption DEF AutomationTypeOK, Untouched
    <2>2. QED
        BY <2>1 DEF UserChanges
<1>3. ASSUME NEW kind, AutoFault(kind) PROVE FALSE
    <2>1. kind \in AutoFaultKinds /\ autoFaults \in [AutoFaultKinds -> 0..MaxAutoFaults]
          /\ autoFaults' = [autoFaults EXCEPT ![kind] = @ + 1] /\ autoFaults'[kind] = 0
        BY <1>1, <1>3 DEF AutoFault, Untouched, AutomationTypeOK
    <2>2. autoFaults[kind] \in Nat
        BY <2>1, AutomationAssumption
    <2>3. QED
        BY <2>1, <2>2
<1>4. ProcessEvent \/ AutomationStep
    BY <1>2, <1>3
    DEF AutomationNext, CreateRule, UpdateRule, DeleteRule, UserChangesTicket,
        AutoStatementFails, DeadAutomationJobUnreported, AutoCrash
<1>5. UNCHANGED <<autoRule, autoChanges, autoFaults>>
    BY <1>4
    DEF ProcessEvent, AutomationStep, TakeAutomationJob, LoadTicketAndRules, EvaluateRule, BeginAction,
        ExecuteStatement, RefreshTicket, RecordSkip, RecordExecution, RescueExecution, ReportDeadAutomationJob
<1>6. QED
    BY <1>4, <1>5 DEF Untouched

LEMMA SameList ==
    UNCHANGED autoRule => ActiveRules' = ActiveRules
BY DEF ActiveRules

\* Within a rule the list and the records stay as they are.
LEMMA RuleGoesOn ==
    ASSUME AutomationTypeOK, RunFit, Computes, autoRun.pc \in Busy,
           UNCHANGED <<autoRule, autoJob, autoRecords>>,
           autoRun'.pc \in Busy \ {"rescue"},
           autoRun'.rules = autoRun.rules, autoRun'.event = autoRun.event,
           NEW rules \in ActiveRules, NEW k \in 0..(Len(rules) - 1),
           autoRun.rules = Left(rules, k), RecordedUpTo(rules, k),
           NEW row \in RulesAfter(rules, autoRun.event)[k],
           RuleComputes(rules[k + 1].content, row)'
    PROVE  Computes'
<1>1. autoJob.state = "active"
    BY DEF RunFit, Busy
<1>2. rules \in ActiveRules'
    BY SameList
<1>3. RecordedUpTo(rules, k)'
    BY DEF RecordedUpTo, RecordsOf
<1>4. RunComputes'
    BY <1>2, <1>3 DEF RunComputes
<1>5. QED
    BY <1>1, <1>4 DEF Computes, Busy

\* The record of the rule comes with the step to the next one, or to the end.
LEMMA RuleEnds ==
    ASSUME AutomationTypeOK, RunFit, Computes, autoRun.pc \in Busy,
           NEW status \in ExecutionStatus, CreateExecution(status), NextRule,
           UNCHANGED <<autoRule, autoTicket>>,
           NEW rules \in ActiveRules, NEW k \in 0..(Len(rules) - 1),
           autoRun.rules = Left(rules, k), RecordedUpTo(rules, k),
           NEW row \in RulesAfter(rules, autoRun.event)[k + 1], autoTicket = row
    PROVE  Computes'
<1> DEFINE entries == [rule : Rules, content : RuleContents]
<1>1. rules \in Seq(entries)
    BY ListIs
<1>2. /\ \A i, j \in DOMAIN rules : i # j => rules[i].rule # rules[j].rule
      /\ \A i \in DOMAIN rules : rules[i].rule \in Rules
    BY ListIs
<1> HIDE DEF entries
<1>3. Len(rules) \in Nat /\ DOMAIN rules = 1..Len(rules)
    BY <1>1, LenProperties
<1>4. k \in Nat /\ k \in 0..Len(rules) /\ k < Len(rules) /\ k + 1 \in 0..Len(rules) /\ k + 1 \in 1..Len(rules)
    BY <1>3
<1>5. /\ Head(autoRun.rules) = rules[k + 1] /\ Tail(autoRun.rules) = Left(rules, k + 1)
      /\ k + 1 = Len(rules) <=> Left(rules, k + 1) = <<>>
    BY <1>1, <1>4, LeftIs
<1>6. Current = rules[k + 1].rule /\ Current \in Rules
    BY <1>2, <1>3, <1>4, <1>5 DEF Current
<1>7. RecordedUpTo(rules, k + 1)'
    <2>1. SUFFICES ASSUME NEW r \in Rules
                   PROVE  RecordsOf(r)' = IF \E i \in 1..(k + 1) : rules[i].rule = r THEN 1 ELSE 0
        BY DEF RecordedUpTo
    <2>2. /\ autoRecords[r] \in [ExecutionStatus -> Nat] /\ autoRecords[Current] \in [ExecutionStatus -> Nat]
          /\ autoRecords \in [Rules -> [ExecutionStatus -> Nat]]
        BY <1>6 DEF AutomationTypeOK
    <2>3. RecordsOf(r) = IF \E i \in 1..k : rules[i].rule = r THEN 1 ELSE 0
        BY DEF RecordedUpTo
    <2>4. CASE r = Current
        <3>1. \A i \in 1..k : rules[i].rule # r
            BY <1>2, <1>3, <1>4, <1>6, <2>4
        <3>2. RecordsOf(r)' = RecordsOf(r) + 1
            <4>1. /\ \A s \in ExecutionStatus : autoRecords[r][s] \in Nat
                  /\ \A s \in ExecutionStatus :
                        autoRecords'[r][s] = IF s = status THEN autoRecords[r][s] + 1 ELSE autoRecords[r][s]
                BY <2>2, <2>4, <1>6 DEF CreateExecution
            <4>2. status \in {"SKIPPED", "COMPLETED", "FAILED"}
                BY DEF ExecutionStatus
            <4>3. "SKIPPED" \in ExecutionStatus /\ "COMPLETED" \in ExecutionStatus /\ "FAILED" \in ExecutionStatus
                BY DEF ExecutionStatus
            <4>4. \A a, b, c, x, y, z : /\ a \in Nat /\ b \in Nat /\ c \in Nat
                                        /\ <<x, y, z>> \in {<<a + 1, b, c>>, <<a, b + 1, c>>, <<a, b, c + 1>>}
                                        => x + y + z = a + b + c + 1
                OBVIOUS
            <4> DEFINE a == autoRecords[r]["SKIPPED"]
                       b == autoRecords[r]["COMPLETED"]
                       c == autoRecords[r]["FAILED"]
                       x == autoRecords'[r]["SKIPPED"]
                       y == autoRecords'[r]["COMPLETED"]
                       z == autoRecords'[r]["FAILED"]
            <4>5. a \in Nat /\ b \in Nat /\ c \in Nat
                BY <4>1, <4>3
            <4>6. <<x, y, z>> \in {<<a + 1, b, c>>, <<a, b + 1, c>>, <<a, b, c + 1>>}
                BY <4>1, <4>2, <4>3
            <4>7. RecordsOf(r) = a + b + c /\ RecordsOf(r)' = x + y + z
                BY DEF RecordsOf
            <4> HIDE DEF a, b, c, x, y, z
            <4>8. QED
                BY <4>4, <4>5, <4>6, <4>7
        <3>3. \E i \in 1..(k + 1) : rules[i].rule = r
            BY <1>4, <1>6, <2>4
        <3>4. RecordsOf(r) = 0
            BY <2>3, <3>1
        <3>5. QED
            BY <3>2, <3>3, <3>4
    <2>5. CASE r # Current
        <3>1. RecordsOf(r)' = RecordsOf(r)
            BY <2>2, <2>5, <1>6 DEF CreateExecution, RecordsOf
        <3>2. (\E i \in 1..(k + 1) : rules[i].rule = r) <=> (\E i \in 1..k : rules[i].rule = r)
            <4>1. \A i \in 1..(k + 1) : i \in 1..k \/ i = k + 1
                BY <1>4
            <4>2. 1..k \subseteq 1..(k + 1)
                BY <1>4
            <4>3. QED
                BY <1>6, <2>5, <4>1, <4>2
        <3>3. QED
            BY <2>3, <3>1, <3>2
    <2>6. QED
        BY <2>4, <2>5
<1>8. rules \in ActiveRules'
    BY SameList
<1>9. \A r \in Rules : autoRule'[r].state \in {"active", "absent"}
    BY DEF Computes
<1>10. CASE Left(rules, k + 1) = <<>>
    <2>1. autoRun' = AtRest(autoRun.event) /\ autoJob' = Succeeded(autoJob)
        BY <1>5, <1>10 DEF NextRule, CompleteAutomationJob
    <2>2. autoRun'.pc = "idle" /\ autoRun'.event = autoRun.event
        BY <2>1 DEF AtRest
    <2>3. autoJob'.state = "completed"
        BY <2>1, JobSteps DEF AutomationTypeOK
    <2>4. k + 1 = Len(rules)
        BY <1>5, <1>10
    <2>5. (autoTicket \in Outcomes(autoRun.event))'
        BY <1>8, <2>2, <2>4 DEF Outcomes
    <2>6. ASSUME NEW r \in Rules PROVE (RecordsOf(r) = IF autoRule[r].state = "active" THEN 1 ELSE 0)'
        <3>1. RecordsOf(r)' = IF \E i \in 1..Len(rules) : rules[i].rule = r THEN 1 ELSE 0
            BY <1>7, <2>4 DEF RecordedUpTo
        <3>2. autoRule'[r].state = "active" <=> \E i \in 1..Len(rules) : rules[i].rule = r
            BY ListHasAll
        <3>3. QED
            BY <3>1, <3>2
    <2>7. RunComputed'
        BY <2>5, <2>6 DEF RunComputed
    <2>8. QED
        BY <1>9, <2>2, <2>3, <2>7 DEF Computes
<1>11. CASE Left(rules, k + 1) # <<>>
    <2>1. /\ autoRun' = [AtRest(autoRun.event) EXCEPT !.pc = "rule", !.rules = Left(rules, k + 1)]
          /\ autoJob' = autoJob
        BY <1>5, <1>11 DEF NextRule
    <2>2. autoRun'.pc = "rule" /\ autoRun'.event = autoRun.event /\ autoRun'.rules = Left(rules, k + 1)
        BY <2>1 DEF AtRest
    <2>3. autoJob'.state = "active"
        BY <2>1 DEF RunFit, Busy
    <2>4. k + 1 \in 0..(Len(rules) - 1)
        <3>1. k + 1 # Len(rules)
            BY <1>5, <1>11, Zenon
        <3>2. QED
            <4>1. \A n \in Nat : k < n /\ k + 1 # n => k + 1 \in 0..(n - 1)
                BY <1>4
            <4>2. QED
                BY <1>3, <1>4, <3>1, <4>1, Zenon
    <2>5. RuleComputes(rules[k + 1 + 1].content, row)'
        BY <2>2 DEF RuleComputes
    <2>6. RunComputes'
        BY <1>7, <1>8, <2>2, <2>4, <2>5 DEF RunComputes
    <2>7. QED
        BY <1>9, <2>2, <2>3, <2>6 DEF Computes
<1>12. QED
    BY <1>10, <1>11

-----------------------------------------------------------------------------
(* Each step of a run *)

LEMMA RuleUnderWay ==
    ASSUME AutomationTypeOK, Computes, autoRun.pc \in Busy
    PROVE  \E rules, k, row :
               /\ rules \in ActiveRules /\ k \in 0..(Len(rules) - 1) /\ row \in RulesAfter(rules, autoRun.event)[k]
               /\ autoRun.rules = Left(rules, k) /\ RecordedUpTo(rules, k)
               /\ RuleComputes(rules[k + 1].content, row)
               /\ Head(autoRun.rules) = rules[k + 1]
               /\ rules[k + 1].content.actions \in Seq(RuleActions)
               /\ Len(rules) \in Nat /\ k \in Nat /\ k + 1 \in 1..Len(rules)
<1>1. RunComputes
    BY DEF Computes, Busy
<1>2. PICK rules, k :
          /\ rules \in ActiveRules /\ k \in 0..(Len(rules) - 1)
          /\ autoRun.rules = Left(rules, k)
          /\ RecordedUpTo(rules, k)
          /\ \E row \in RulesAfter(rules, autoRun.event)[k] : RuleComputes(rules[k + 1].content, row)
    BY <1>1 DEF RunComputes
<1> DEFINE entries == [rule : Rules, content : RuleContents]
<1>3. rules \in Seq(entries)
    BY <1>2, ListIs
<1>4. \A entry \in entries : entry.content.actions \in Seq(RuleActions)
    BY AutomationAssumption
<1> HIDE DEF entries
<1>5. Len(rules) \in Nat /\ k \in Nat /\ k \in 0..Len(rules) /\ k < Len(rules) /\ k + 1 \in 1..Len(rules)
    BY <1>2, <1>3, LenProperties
<1>6. Head(autoRun.rules) = rules[k + 1]
    BY <1>2, <1>3, <1>5, LeftIs
<1>7. rules[k + 1] \in entries
    BY <1>3, <1>5, ElementOfSeq
<1>8. QED
    BY <1>2, <1>4, <1>5, <1>6, <1>7

LEMMA EvaluateComputes ==
    ASSUME AutomationTypeOK, RunFit, Computes, EvaluateRule
    PROVE  Computes'
<1>1. autoRun.pc = "rule" /\ autoRun.pc \in Busy
    BY DEF EvaluateRule, Busy
<1>2. PICK rules, k, row :
               /\ rules \in ActiveRules /\ k \in 0..(Len(rules) - 1) /\ row \in RulesAfter(rules, autoRun.event)[k]
               /\ autoRun.rules = Left(rules, k) /\ RecordedUpTo(rules, k)
               /\ RuleComputes(rules[k + 1].content, row)
               /\ Head(autoRun.rules) = rules[k + 1]
               /\ rules[k + 1].content.actions \in Seq(RuleActions)
               /\ Len(rules) \in Nat /\ k \in Nat /\ k + 1 \in 1..Len(rules)
    BY <1>1, RuleUnderWay
<1> DEFINE content == rules[k + 1].content
<1>3. autoTicket = row
    BY <1>1, <1>2 DEF RuleComputes, InRule
<1>4. PICK matched \in Matches(Head(autoRun.rules).content.conditions, autoRun.event) :
          IF matched
          THEN /\ autoRun' = [autoRun EXCEPT !.pc = "action", !.seen = autoRun.event,
                                             !.actions = Head(autoRun.rules).content.actions, !.failed = FALSE]
               /\ autoBegun' = [autoBegun EXCEPT ![Current] = @ + 1]
          ELSE /\ autoRun' = [autoRun EXCEPT !.pc = "skip"]
               /\ UNCHANGED autoBegun
    BY Zenon DEF EvaluateRule
<1>5. matched \in BOOLEAN
    BY DEF Matches
<1>6. UNCHANGED <<autoRule, autoJob, autoRecords, autoTicket>>
    BY DEF EvaluateRule
<1>7. autoRun \in AutoRun
    BY DEF AutomationTypeOK
<1>8. CASE matched = TRUE
    <2>1. /\ autoRun'.pc = "action" /\ autoRun'.rules = autoRun.rules /\ autoRun'.event = autoRun.event
          /\ autoRun'.seen = autoRun.event /\ autoRun'.actions = content.actions
        BY <1>2, <1>4, <1>7, <1>8 DEF AutoRun
    <2>2. Len(content.actions) \in Nat /\ 0 \in 0..Len(content.actions)
        BY <1>2, LenProperties
    <2>3. Left(content.actions, 0) = content.actions
        BY <1>2, <2>2, LeftIs
    <2>4. [row |-> row, seen |-> autoRun.event] \in ActionsAfter(content.actions, autoRun.event, row)[0]
        BY <2>2, ActionsAfterIs
    <2>5. TRUE \in Matches(content.conditions, autoRun.event)
        BY <1>2, <1>8
    <2> HIDE DEF content
    <2>6. InRule(content, row)'
        BY <1>3, <1>6, <2>1, <2>2, <2>3, <2>4, <2>5 DEF InRule
    <2>7. RuleComputes(content, row)'
        BY <2>6 DEF RuleComputes
    <2>8. QED
        BY <1>1, <1>2, <1>6, <2>1, <2>7, RuleGoesOn DEF Busy, content
<1>9. CASE matched = FALSE
    <2>1. autoRun'.pc = "skip" /\ autoRun'.rules = autoRun.rules /\ autoRun'.event = autoRun.event
        BY <1>4, <1>7, <1>9 DEF AutoRun
    <2>2. RuleComputes(content, row)'
        BY <1>2, <1>3, <1>6, <1>9, <2>1 DEF RuleComputes
    <2>3. QED
        BY <1>1, <1>2, <1>6, <2>1, <2>2, RuleGoesOn DEF Busy
<1>10. QED
    BY <1>5, <1>8, <1>9

LEMMA BeginComputes ==
    ASSUME AutomationTypeOK, RunFit, Computes, BeginAction
    PROVE  Computes'
<1>1. autoRun.pc = "action" /\ autoRun.pc \in Busy /\ autoRun.actions # <<>>
    BY DEF BeginAction, Busy
<1>2. PICK rules, k, row :
               /\ rules \in ActiveRules /\ k \in 0..(Len(rules) - 1) /\ row \in RulesAfter(rules, autoRun.event)[k]
               /\ autoRun.rules = Left(rules, k) /\ RecordedUpTo(rules, k)
               /\ RuleComputes(rules[k + 1].content, row)
               /\ Head(autoRun.rules) = rules[k + 1]
               /\ rules[k + 1].content.actions \in Seq(RuleActions)
               /\ Len(rules) \in Nat /\ k \in Nat /\ k + 1 \in 1..Len(rules)
    BY <1>1, RuleUnderWay
<1> DEFINE content == rules[k + 1].content
           actions == content.actions
           s == [row |-> autoTicket, seen |-> autoRun.seen]
<1>3. PICK j \in 0..Len(actions) :
          /\ autoRun.actions = Left(actions, j)
          /\ s \in ActionsAfter(actions, autoRun.event, row)[j]
    BY <1>1, <1>2 DEF RuleComputes, InRule
<1>4. TRUE \in Matches(content.conditions, autoRun.event)
    BY <1>1, <1>2 DEF RuleComputes, InRule
<1>5. Len(actions) \in Nat /\ DOMAIN actions = 1..Len(actions)
    BY <1>2, LenProperties
<1>6. Head(autoRun.actions) = actions[j + 1] /\ j + 1 \in DOMAIN actions /\ actions[j + 1] \in RuleActions
    <2>1. j # Len(actions)
        BY <1>1, <1>2, <1>3, LeftIs
    <2>2. j < Len(actions)
        BY <1>5, <2>1
    <2>3. Head(autoRun.actions) = actions[j + 1] /\ j + 1 \in 1..Len(actions)
        BY <1>2, <1>3, <2>2, LeftIs
    <2>4. QED
        BY <1>2, <1>5, <2>3, ElementOfSeq
<1>7. PICK plan \in Plans(actions[j + 1], autoRun.seen) :
          autoRun' = CASE plan = Failure -> [autoRun EXCEPT !.pc = "refresh", !.failed = TRUE]
                       [] plan = <<>> -> [autoRun EXCEPT !.pc = "refresh"]
                       [] OTHER -> [autoRun EXCEPT !.pc = "statement", !.todo = plan]
    BY <1>6 DEF BeginAction
<1>8. autoRun \in AutoRun /\ autoRun.seen \in AutoTicket
    BY RunIs DEF AutomationTypeOK
<1>9. plan \in Seq(PlanSteps) /\ Len(plan) \in Nat
    <2>1. CASE plan = Failure
        BY <2>1 DEF Failure, PlanSteps
    <2>2. CASE plan # Failure
        <3>1. plan \in Seq(Statements)
            BY <1>6, <1>7, <1>8, <2>2, PlansFit DEF PlanFit
        <3>2. QED
            BY <3>1, StepsOfPlan
    <2>3. QED
        BY <2>1, <2>2
<1>10. UNCHANGED <<autoRule, autoJob, autoRecords, autoTicket>>
    BY DEF BeginAction
<1>11. /\ autoRun'.rules = autoRun.rules /\ autoRun'.event = autoRun.event /\ autoRun'.actions = autoRun.actions
       /\ \/ autoRun'.pc = "refresh" /\ (plan = Failure \/ plan = <<>>)
          \/ autoRun'.pc = "statement" /\ autoRun'.todo = plan
    <2>1. CASE plan = Failure
        BY <1>7, <1>8, <2>1 DEF AutoRun
    <2>2. CASE plan # Failure /\ plan = <<>>
        BY <1>7, <1>8, <2>2 DEF AutoRun
    <2>3. CASE plan # Failure /\ plan # <<>>
        <3>1. autoRun' = [autoRun EXCEPT !.pc = "statement", !.todo = plan]
            BY <1>7, <2>3
        <3>2. QED
            BY <1>8, <3>1 DEF AutoRun
    <2>4. QED
        BY <2>1, <2>2, <2>3
<1>12. RowAfter(s.row, plan)[0] = autoTicket
    BY <1>9, RowAfterIs
<1>13. \E m \in 0..Len(plan) : /\ autoTicket = RowAfter(s.row, plan)[m]
                               /\ autoRun'.pc = "statement" => autoRun'.todo = Left(plan, m)
                               /\ autoRun'.pc = "refresh" => m = Len(plan)
    <2>1. CASE autoRun'.pc = "refresh" /\ plan = Failure
        <3>1. Len(plan) = 1 /\ plan[1].kind = "failure"
            BY <2>1 DEF Failure
        <3>2. RowAfter(s.row, plan)[1] = RowAfter(s.row, plan)[0]
            <4>1. \A i \in 1..Len(plan) : RowAfter(s.row, plan)[i] = Executed(RowAfter(s.row, plan)[i - 1], plan[i])
                BY <1>9, RowAfterIs
            <4>2. 1 \in 1..Len(plan) /\ 1 - 1 = 0
                BY <3>1
            <4>3. QED
                BY <3>1, <4>1, <4>2 DEF Executed
        <3>3. QED
            BY <1>12, <2>1, <3>1, <3>2
    <2>2. CASE autoRun'.pc = "refresh" /\ plan = <<>>
        <3>1. Len(plan) = 0
            BY <2>2
        <3>2. QED
            BY <1>12, <2>2, <3>1
    <2>3. CASE autoRun'.pc = "statement" /\ autoRun'.todo = plan
        <3>1. Left(plan, 0) = plan /\ 0 \in 0..Len(plan)
            BY <1>9, LeftIs
        <3>2. QED
            BY <1>12, <2>3, <3>1
    <2>4. QED
        BY <1>11, <2>1, <2>2, <2>3
<1>14. s.seen = autoRun.seen
    OBVIOUS
<1> HIDE DEF s, content
<1>15. InAction(actions, row, j)'
    BY <1>3, <1>6, <1>7, <1>9, <1>10, <1>11, <1>13, <1>14 DEF InAction
<1>16. InRule(content, row)'
    BY <1>3, <1>4, <1>11, <1>15 DEF InRule
<1>17. RuleComputes(content, row)'
    BY <1>16 DEF RuleComputes
<1>18. QED
    BY <1>1, <1>2, <1>10, <1>11, <1>17, RuleGoesOn DEF Busy, content

LEMMA ExecuteComputes ==
    ASSUME AutomationTypeOK, RunFit, Computes, ExecuteStatement
    PROVE  Computes'
<1>1. autoRun.pc = "statement" /\ autoRun.pc \in Busy /\ autoRun.todo # <<>>
    BY DEF ExecuteStatement, Busy, RunFit
<1>2. PICK rules, k, row :
               /\ rules \in ActiveRules /\ k \in 0..(Len(rules) - 1) /\ row \in RulesAfter(rules, autoRun.event)[k]
               /\ autoRun.rules = Left(rules, k) /\ RecordedUpTo(rules, k)
               /\ RuleComputes(rules[k + 1].content, row)
               /\ Head(autoRun.rules) = rules[k + 1]
               /\ rules[k + 1].content.actions \in Seq(RuleActions)
               /\ Len(rules) \in Nat /\ k \in Nat /\ k + 1 \in 1..Len(rules)
    BY <1>1, RuleUnderWay
<1> DEFINE content == rules[k + 1].content
           actions == content.actions
<1>3. PICK j \in 0..Len(actions) : autoRun.actions = Left(actions, j) /\ InAction(actions, row, j)
    BY <1>1, <1>2 DEF RuleComputes, InRule
<1>4. TRUE \in Matches(content.conditions, autoRun.event)
    BY <1>1, <1>2 DEF RuleComputes, InRule
<1> HIDE DEF content
<1>5. PICK s, plan, m :
          /\ s \in ActionsAfter(actions, autoRun.event, row)[j] /\ plan \in Plans(actions[j + 1], s.seen)
          /\ m \in 0..Len(plan) /\ plan \in Seq(PlanSteps)
          /\ autoTicket = RowAfter(s.row, plan)[m] /\ autoRun.todo = Left(plan, m)
    BY <1>1, <1>3 DEF InAction
<1>6. j + 1 \in DOMAIN actions
    BY <1>3 DEF InAction
<1>7. Len(plan) \in Nat /\ m + 1 \in 1..Len(plan) /\ m + 1 \in 0..Len(plan) /\ m \in Nat
      /\ Head(autoRun.todo) = plan[m + 1] /\ Tail(autoRun.todo) = Left(plan, m + 1)
    <2>1. Len(plan) \in Nat
        BY <1>5, LenProperties
    <2>2. m # Len(plan)
        BY <1>1, <1>5, LeftIs
    <2>3. m < Len(plan) /\ m + 1 \in 1..Len(plan) /\ m + 1 \in 0..Len(plan) /\ m \in Nat
        BY <1>5, <2>1, <2>2
    <2>4. QED
        BY <1>5, <2>1, <2>3, LeftIs
<1>8. autoTicket' = RowAfter(s.row, plan)[m + 1]
    <2>1. autoTicket' = Executed(autoTicket, Head(autoRun.todo))
        BY Zenon DEF ExecuteStatement, Executed
    <2>2. RowAfter(s.row, plan)[m + 1] = Executed(RowAfter(s.row, plan)[m + 1 - 1], plan[m + 1])
        <3>1. \A i \in 1..Len(plan) : RowAfter(s.row, plan)[i] = Executed(RowAfter(s.row, plan)[i - 1], plan[i])
            BY <1>7, RowAfterIs
        <3>2. QED
            BY <1>7, <3>1
    <2>3. m + 1 - 1 = m
        BY <1>7
    <2>4. QED
        BY <1>5, <1>7, <2>1, <2>2, <2>3, Zenon
<1>9. /\ autoRun'.rules = autoRun.rules /\ autoRun'.event = autoRun.event /\ autoRun'.actions = autoRun.actions
      /\ autoRun'.pc \in {"refresh", "statement"} /\ autoRun'.todo = Tail(autoRun.todo)
      /\ autoRun'.pc = "refresh" => Tail(autoRun.todo) = <<>>
    <2>1. autoRun \in AutoRun
        BY DEF AutomationTypeOK
    <2>2. autoRun' = [autoRun EXCEPT !.todo = Tail(@),
                                     !.pc = IF Tail(autoRun.todo) = <<>> THEN "refresh" ELSE "statement"]
        BY DEF ExecuteStatement
    <2>3. QED
        BY <2>1, <2>2 DEF AutoRun
<1>10. autoRun'.pc = "refresh" => m + 1 = Len(plan)
    BY <1>5, <1>7, <1>9, LeftIs
<1>11. UNCHANGED <<autoRule, autoJob, autoRecords>>
    BY DEF ExecuteStatement
<1>12. InAction(actions, row, j)'
    BY <1>5, <1>6, <1>7, <1>8, <1>9, <1>10 DEF InAction
<1>13. InRule(content, row)'
    BY <1>3, <1>4, <1>9, <1>12 DEF InRule
<1>14. RuleComputes(content, row)'
    BY <1>13 DEF RuleComputes
<1>15. QED
    BY <1>1, <1>2, <1>9, <1>11, <1>14, RuleGoesOn DEF Busy, content

LEMMA RefreshComputes ==
    ASSUME AutomationTypeOK, RunFit, Computes, RefreshTicket
    PROVE  Computes'
<1>1. autoRun.pc = "refresh" /\ autoRun.pc \in Busy
    BY DEF RefreshTicket, Busy
<1>2. PICK rules, k, row :
               /\ rules \in ActiveRules /\ k \in 0..(Len(rules) - 1) /\ row \in RulesAfter(rules, autoRun.event)[k]
               /\ autoRun.rules = Left(rules, k) /\ RecordedUpTo(rules, k)
               /\ RuleComputes(rules[k + 1].content, row)
               /\ Head(autoRun.rules) = rules[k + 1]
               /\ rules[k + 1].content.actions \in Seq(RuleActions)
               /\ Len(rules) \in Nat /\ k \in Nat /\ k + 1 \in 1..Len(rules)
    BY <1>1, RuleUnderWay
<1> DEFINE content == rules[k + 1].content
           actions == content.actions
<1>3. PICK j \in 0..Len(actions) : autoRun.actions = Left(actions, j) /\ InAction(actions, row, j)
    BY <1>1, <1>2 DEF RuleComputes, InRule
<1>4. TRUE \in Matches(content.conditions, autoRun.event)
    BY <1>1, <1>2 DEF RuleComputes, InRule
<1> HIDE DEF content
<1>5. PICK s, plan :
          /\ s \in ActionsAfter(actions, autoRun.event, row)[j] /\ plan \in Plans(actions[j + 1], s.seen)
          /\ autoTicket = RowAfter(s.row, plan)[Len(plan)]
    BY <1>1, <1>3 DEF InAction
<1>6. /\ j + 1 \in 0..Len(actions) /\ j + 1 \in 1..Len(actions) /\ j + 1 - 1 = j /\ Len(actions) \in Nat
      /\ Tail(autoRun.actions) = Left(actions, j + 1)
    <2>1. actions \in Seq(RuleActions)
        BY <1>2 DEF content
    <2>2. Len(actions) \in Nat /\ DOMAIN actions = 1..Len(actions) /\ j + 1 \in DOMAIN actions
        BY <1>3, <2>1, LenProperties DEF InAction
    <2>3. j < Len(actions) /\ j + 1 \in 0..Len(actions) /\ j + 1 \in 1..Len(actions) /\ j + 1 - 1 = j
        BY <2>2
    <2>4. QED
        BY <1>3, <2>1, <2>2, <2>3, LeftIs
<1> DEFINE new == [row |-> autoTicket, seen |-> autoTicket]
<1>7. new \in ActionsAfter(actions, autoRun.event, row)[j + 1]
    <2>1. \A i \in 1..Len(actions) :
              ActionsAfter(actions, autoRun.event, row)[i]
                  = Through(actions[i], ActionsAfter(actions, autoRun.event, row)[i - 1])
        BY <1>6, ActionsAfterIs
    <2>2. ActionsAfter(actions, autoRun.event, row)[j + 1]
              = Through(actions[j + 1], ActionsAfter(actions, autoRun.event, row)[j])
        BY <1>6, <2>1
    <2>3. new = [row |-> Apply(s.row, plan), seen |-> Apply(s.row, plan)]
        BY <1>5 DEF Apply
    <2> HIDE DEF new
    <2>4. new \in Through(actions[j + 1], ActionsAfter(actions, autoRun.event, row)[j])
        <3> DEFINE made == {[row |-> Apply(s.row, p), seen |-> Apply(s.row, p)] : p \in Plans(actions[j + 1], s.seen)}
        <3>1. new \in made
            BY <1>5, <2>3
        <3>2. made \in {{[row |-> Apply(t.row, p), seen |-> Apply(t.row, p)] : p \in Plans(actions[j + 1], t.seen)} :
                           t \in ActionsAfter(actions, autoRun.event, row)[j]}
            BY <1>5
        <3> HIDE DEF made
        <3>3. QED
            BY <3>1, <3>2 DEF Through
    <2>5. QED
        BY <2>2, <2>4
<1>8. /\ autoRun'.rules = autoRun.rules /\ autoRun'.event = autoRun.event /\ autoRun'.seen = autoTicket
      /\ autoRun'.actions = Tail(autoRun.actions) /\ autoRun'.pc = "action"
    <2>1. autoRun \in AutoRun
        BY DEF AutomationTypeOK
    <2>2. autoRun' = [autoRun EXCEPT !.seen = autoTicket, !.actions = Tail(@), !.pc = "action"]
        BY DEF RefreshTicket
    <2>3. QED
        BY <2>1, <2>2 DEF AutoRun
<1>9. UNCHANGED <<autoRule, autoJob, autoRecords, autoTicket>>
    BY DEF RefreshTicket
<1>10. InRule(content, row)'
    BY <1>4, <1>6, <1>7, <1>8, <1>9 DEF InRule
<1>11. RuleComputes(content, row)'
    BY <1>10 DEF RuleComputes
<1>12. QED
    BY <1>1, <1>2, <1>8, <1>9, <1>11, RuleGoesOn DEF Busy, content

LEMMA OutcomeIs ==
    ASSUME NEW rules, Len(rules) \in Nat, NEW event, NEW k, k \in Nat, k + 1 \in 1..Len(rules),
           NEW row, row \in RulesAfter(rules, event)[k],
           NEW new, new \in RuleOutcomes(rules[k + 1].content, event, row)
    PROVE  new \in RulesAfter(rules, event)[k + 1]
<1>1. RulesAfter(rules, event)[k + 1] =
          UNION {RuleOutcomes(rules[k + 1].content, event, r) : r \in RulesAfter(rules, event)[k + 1 - 1]}
    BY RulesAfterIs
<1>2. k + 1 - 1 = k
    OBVIOUS
<1>3. QED
    BY <1>1, <1>2

LEMMA NotDeleted ==
    ASSUME AutomationTypeOK, RunFit, Computes, autoRun.pc \in Busy
    PROVE  ~RuleDeleted
<1>1. Current \in Rules
    BY CurrentIs
<1>2. QED
    BY <1>1 DEF Computes, RuleDeleted

LEMMA SkipComputes ==
    ASSUME AutomationTypeOK, RunFit, Computes, RecordSkip
    PROVE  Computes'
<1>1. autoRun.pc = "skip" /\ autoRun.pc \in Busy
    BY DEF RecordSkip, Busy
<1>2. PICK rules, k, row :
               /\ rules \in ActiveRules /\ k \in 0..(Len(rules) - 1) /\ row \in RulesAfter(rules, autoRun.event)[k]
               /\ autoRun.rules = Left(rules, k) /\ RecordedUpTo(rules, k)
               /\ RuleComputes(rules[k + 1].content, row)
               /\ Head(autoRun.rules) = rules[k + 1]
               /\ rules[k + 1].content.actions \in Seq(RuleActions)
               /\ Len(rules) \in Nat /\ k \in Nat /\ k + 1 \in 1..Len(rules)
    BY <1>1, RuleUnderWay
<1>3. autoTicket = row /\ FALSE \in Matches(rules[k + 1].content.conditions, autoRun.event)
    BY <1>1, <1>2 DEF RuleComputes, InRule
<1>4. row \in RuleOutcomes(rules[k + 1].content, autoRun.event, row)
    BY <1>3 DEF RuleOutcomes
<1>5. row \in RulesAfter(rules, autoRun.event)[k + 1]
    BY <1>2, <1>4, OutcomeIs
<1>6. CreateExecution("SKIPPED") /\ NextRule /\ UNCHANGED <<autoRule, autoTicket>>
    BY <1>1, NotDeleted DEF RecordSkip
<1>7. "SKIPPED" \in ExecutionStatus
    BY DEF ExecutionStatus
<1>8. QED
    BY <1>1, <1>2, <1>3, <1>5, <1>6, <1>7, RuleEnds

LEMMA RecordComputes ==
    ASSUME AutomationTypeOK, RunFit, Computes, RecordExecution
    PROVE  Computes'
<1>1. autoRun.pc = "action" /\ autoRun.pc \in Busy /\ autoRun.actions = <<>>
    BY DEF RecordExecution, Busy
<1>2. PICK rules, k, row :
               /\ rules \in ActiveRules /\ k \in 0..(Len(rules) - 1) /\ row \in RulesAfter(rules, autoRun.event)[k]
               /\ autoRun.rules = Left(rules, k) /\ RecordedUpTo(rules, k)
               /\ RuleComputes(rules[k + 1].content, row)
               /\ Head(autoRun.rules) = rules[k + 1]
               /\ rules[k + 1].content.actions \in Seq(RuleActions)
               /\ Len(rules) \in Nat /\ k \in Nat /\ k + 1 \in 1..Len(rules)
    BY <1>1, RuleUnderWay
<1> DEFINE content == rules[k + 1].content
           actions == content.actions
           s == [row |-> autoTicket, seen |-> autoRun.seen]
<1>3. PICK j \in 0..Len(actions) :
          /\ autoRun.actions = Left(actions, j)
          /\ s \in ActionsAfter(actions, autoRun.event, row)[j]
    BY <1>1, <1>2 DEF RuleComputes, InRule
<1>4. TRUE \in Matches(content.conditions, autoRun.event)
    BY <1>1, <1>2 DEF RuleComputes, InRule
<1>5. j = Len(actions)
    BY <1>1, <1>2, <1>3, LeftIs
<1>6. autoTicket = s.row
    OBVIOUS
<1> HIDE DEF s, content
<1>7. PICK new : new = autoTicket
    OBVIOUS
<1>8. new \in {t.row : t \in ActionsAfter(actions, autoRun.event, row)[Len(actions)]}
    BY <1>3, <1>5, <1>6, <1>7
<1>9. new \in RuleOutcomes(content, autoRun.event, row)
    BY <1>4, <1>8 DEF RuleOutcomes
<1>10. new \in RulesAfter(rules, autoRun.event)[k + 1]
    BY <1>2, <1>9, OutcomeIs DEF content
<1>11. PICK status \in ExecutionStatus : CreateExecution(status)
    BY <1>1, NotDeleted DEF RecordExecution, ExecutionStatus
<1>12. NextRule /\ UNCHANGED <<autoRule, autoTicket>>
    BY <1>1, NotDeleted DEF RecordExecution
<1>13. QED
    BY <1>1, <1>2, <1>7, <1>10, <1>11, <1>12, RuleEnds

LEMMA LoadComputes ==
    ASSUME AutomationTypeOK, RunFit, Computes, LoadTicketAndRules
    PROVE  Computes'
<1>1. autoRun.pc = "load" /\ autoJob.state = "active" /\ autoTicket = autoRun.event /\ NothingRecorded
    BY DEF LoadTicketAndRules, RunFit, Computes
<1>2. UNCHANGED <<autoRule, autoTicket, autoRecords>>
    BY DEF LoadTicketAndRules
<1>3. \A r \in Rules : autoRule'[r].state \in {"active", "absent"}
    BY <1>2 DEF Computes
<1>4. PICK enabled \in BOOLEAN, rules \in ActiveRules :
          IF enabled /\ rules # <<>>
          THEN /\ autoRun' = [AtRest(autoTicket) EXCEPT !.pc = "rule", !.rules = rules]
               /\ UNCHANGED autoJob
          ELSE CompleteAutomationJob
    BY DEF LoadTicketAndRules
<1>5. NothingRecorded'
    BY <1>1, <1>2 DEF NothingRecorded, RecordsOf
<1>6. CASE enabled /\ rules # <<>>
    <2>1. autoRun' = [AtRest(autoTicket) EXCEPT !.pc = "rule", !.rules = rules] /\ autoJob' = autoJob
        BY <1>4, <1>6
    <2>2. autoRun'.pc = "rule" /\ autoRun'.rules = rules /\ autoRun'.event = autoTicket
        BY <2>1 DEF AtRest
    <2> DEFINE entries == [rule : Rules, content : RuleContents]
    <2>3. rules \in Seq(entries)
        BY ListIs
    <2> HIDE DEF entries
    <2>4. Len(rules) \in Nat /\ Len(rules) # 0 /\ 0 \in 0..Len(rules) /\ 0 \in 0..(Len(rules) - 1)
        BY <1>6, <2>3, LenProperties, EmptySeq
    <2>5. Left(rules, 0) = rules
        BY <2>3, <2>4, LeftIs
    <2>6. rules \in ActiveRules'
        BY <1>2, SameList
    <2>7. RecordedUpTo(rules, 0)'
        BY <1>5 DEF RecordedUpTo, NothingRecorded
    <2>8. PICK row : row = autoTicket
        OBVIOUS
    <2>9. row \in RulesAfter(rules, autoRun'.event)[0]
        <3>1. RulesAfter(rules, autoRun'.event)[0] = {autoRun'.event}
            BY <2>4, RulesAfterIs
        <3>2. QED
            BY <2>2, <2>8, <3>1
    <2>10. RuleComputes(rules[0 + 1].content, row)'
        BY <1>2, <2>2, <2>8 DEF RuleComputes
    <2>11. RunComputes'
        BY <2>2, <2>4, <2>5, <2>6, <2>7, <2>9, <2>10 DEF RunComputes
    <2>12. QED
        BY <1>1, <1>3, <2>1, <2>2, <2>11 DEF Computes
<1>7. CASE ~(enabled /\ rules # <<>>)
    <2>1. autoRun' = AtRest(autoRun.event) /\ autoJob' = Succeeded(autoJob)
        BY <1>4, <1>7 DEF CompleteAutomationJob
    <2>2. autoRun'.pc = "idle" /\ autoRun'.event = autoRun.event
        BY <2>1 DEF AtRest
    <2>3. autoJob'.state = "completed"
        BY <2>1, JobSteps DEF AutomationTypeOK
    <2>4. RunComputed'
        BY <1>1, <1>2, <1>5, <2>2 DEF RunComputed
    <2>5. QED
        BY <1>3, <2>2, <2>3, <2>4 DEF Computes
<1>8. QED
    BY <1>6, <1>7

\* The steps between which the job waits.
LEMMA WaitComputes ==
    ASSUME AutomationTypeOK, RunFit, Computes, ProcessEvent \/ TakeAutomationJob
    PROVE  Computes'
<1>1. autoRun.pc = "idle" /\ autoJob.state \in {"none", "waiting"}
    BY DEF ProcessEvent, TakeAutomationJob, NoJob, RunFit
<1>2. autoTicket = autoRun.event /\ NothingRecorded
    BY <1>1 DEF Computes
<1>3. UNCHANGED <<autoRule, autoTicket, autoRecords>>
    BY DEF ProcessEvent, TakeAutomationJob
<1>4. autoRun'.event = autoRun.event /\ autoRun'.pc \in {"idle", "load"}
    BY <1>1 DEF ProcessEvent, TakeAutomationJob, AtRest
<1>5. autoJob'.state \in {"waiting", "active"}
    <2>1. autoJob' = Added(autoJob) \/ autoJob' = Taken(autoJob)
        BY DEF ProcessEvent, TakeAutomationJob
    <2>2. autoJob \in JobRecord
        BY DEF AutomationTypeOK
    <2>3. QED
        BY <2>1, <2>2 DEF JobRecord, Added, Taken
<1>6. NothingRecorded'
    BY <1>2, <1>3 DEF NothingRecorded, RecordsOf
<1>7. \A r \in Rules : autoRule'[r].state \in {"active", "absent"}
    BY <1>3 DEF Computes
<1>8. QED
    BY <1>2, <1>3, <1>4, <1>5, <1>6, <1>7 DEF Computes

LEMMA ComputesStep == AutoInv /\ ComputesInv /\ [AutomationNext]_autoVars => ComputesInv'
<1> SUFFICES ASSUME AutoInv, ComputesInv, [AutomationNext]_autoVars PROVE ComputesInv'
    OBVIOUS
<1>1. AutomationTypeOK /\ RunFit
    BY DEF AutoInv
<1>2. CASE AutomationNext
    <2>1. SUFFICES ASSUME Untouched' PROVE Computes'
        BY DEF ComputesInv
    <2>2. Untouched /\ UNCHANGED autoRule /\ (ProcessEvent \/ AutomationStep)
        BY <1>2, <2>1, UntouchedStays
    <2>3. Computes
        BY <2>2 DEF ComputesInv
    <2>4. CASE ProcessEvent \/ TakeAutomationJob
        BY <1>1, <2>3, <2>4, WaitComputes
    <2>5. CASE LoadTicketAndRules
        BY <1>1, <2>3, <2>5, LoadComputes
    <2>6. CASE EvaluateRule
        BY <1>1, <2>3, <2>6, EvaluateComputes
    <2>7. CASE BeginAction
        BY <1>1, <2>3, <2>7, BeginComputes
    <2>8. CASE ExecuteStatement
        BY <1>1, <2>3, <2>8, ExecuteComputes
    <2>9. CASE RefreshTicket
        BY <1>1, <2>3, <2>9, RefreshComputes
    <2>10. CASE RecordSkip
        BY <1>1, <2>3, <2>10, SkipComputes
    <2>11. CASE RecordExecution
        BY <1>1, <2>3, <2>11, RecordComputes
    <2>12. ~RescueExecution /\ ~ReportDeadAutomationJob
        BY <2>3 DEF Computes, RescueExecution, ReportDeadAutomationJob
    <2>13. QED
        BY <2>2, <2>4, <2>5, <2>6, <2>7, <2>8, <2>9, <2>10, <2>11, <2>12 DEF AutomationStep
<1>3. CASE UNCHANGED autoVars
    <2>1. UNCHANGED <<autoRule, autoTicket, autoJob, autoRun, autoRecords, autoChanges, autoFaults>>
        BY <1>3 DEF autoVars
    <2>2. Untouched' = Untouched /\ RunComputed' = RunComputed /\ NothingRecorded' = NothingRecorded
        BY <2>1 DEF Untouched, RunComputed, NothingRecorded, RecordsOf, Outcomes, ActiveRules
    <2>3. RunComputes' = RunComputes
        BY <2>1 DEF RunComputes, ActiveRules, RecordedUpTo, RecordsOf, RuleComputes, InRule, InAction
    <2>4. QED
        BY <2>1, <2>2, <2>3 DEF ComputesInv, Computes
<1>4. QED
    BY <1>2, <1>3

LEMMA ComputesStarts == AutomationInit => ComputesInv
<1> SUFFICES ASSUME AutomationInit PROVE Computes
    BY DEF ComputesInv
<1>1. \A r \in Rules : autoRule[r].state \in {"active", "absent"}
    BY DEF AutomationInit, NoRule
<1>2. autoJob.state = "none" /\ autoRun.pc = "idle" /\ autoRun.event = autoTicket
    BY DEF AutomationInit, NoJob, AtRest
<1>3. NothingRecorded
    <2>1. \A r \in Rules : /\ autoRecords[r]["SKIPPED"] = 0 /\ autoRecords[r]["COMPLETED"] = 0
                           /\ autoRecords[r]["FAILED"] = 0
        BY DEF AutomationInit, ExecutionStatus
    <2>2. QED
        BY <2>1 DEF NothingRecorded, RecordsOf
<1>4. QED
    BY <1>1, <1>2, <1>3 DEF Computes

LEMMA ComputesTells == ComputesInv => EngineComputes
BY DEF ComputesInv, Untouched, Computes, RunComputed, NothingRecorded, EngineComputes

\* Left alone, the engine computes one of the outcomes of the event's ticket and the active
\* rules, in the order of their creation, and records each of these once; with the flag off
\* it does nothing (automation-engine.ts).
THEOREM EngineComputesCorrect == AutomationSpec => []EngineComputes
BY AutoStarts, AutoSteps, ComputesStarts, ComputesStep, ComputesTells, PTL DEF AutomationSpec

-----------------------------------------------------------------------------
(* How jobs end *)

\* What a step makes of a job.  Only a crash, and a fault of the listener, do more
\* than its processor and its listener do.
JobMoves(job, after, crash, silence) ==
    \/ after = job
    \/ job.state = "none" /\ after = Added(job)
    \/ job.state = "waiting" /\ after = Taken(job)
    \/ job.state = "active" /\ after \in {Succeeded(job), AttemptFailed(job)}
    \/ job.state = "failed" /\ after = DeadLettered(job)
    \/ crash /\ job.state = "active" /\ after \in Stalled(job)
    \/ silence /\ job.state = "failed" /\ after = [job EXCEPT !.state = "unreported"]

\* A job that has stalled has met a crash.
JobKept(job, crashes, silences) ==
    Accounted(job, crashes, silences) /\ (job.stalled => crashes > 0)

LEMMA NoJobKept ==
    ASSUME NEW crashes, NEW silences
    PROVE  JobKept(NoJob, crashes, silences)
BY JobQueueAssumption DEF JobKept, Accounted, NoJob

LEMMA MovesKept ==
    ASSUME NEW job \in JobRecord, NEW after,
           NEW crashes \in Nat, NEW more \in Nat, crashes <= more,
           NEW silences \in Nat, NEW quieter \in Nat, silences <= quieter,
           JobKept(job, crashes, silences), JobMoves(job, after, crashes < more, silences < quieter)
    PROVE  JobKept(after, more, quieter)
<1>1. job.attempts \in 0..JobAttempts /\ JobAttempts \in Nat
    BY JobQueueAssumption DEF JobRecord
<1>2. CASE after = job
    BY <1>2 DEF JobKept, Accounted
<1>3. CASE job.state = "none" /\ after = Added(job)
    BY <1>3 DEF JobKept, Accounted, Added, JobRecord
<1>4. CASE job.state = "waiting" /\ after = Taken(job)
    BY <1>4 DEF JobKept, Accounted, Taken, JobRecord
<1>5. CASE job.state = "active" /\ after = Succeeded(job)
    BY <1>5 DEF JobKept, Accounted, Succeeded, JobRecord
<1>6. CASE job.state = "active" /\ after = AttemptFailed(job)
    <2>1. job.attempts < JobAttempts
        BY <1>1, <1>6 DEF JobKept, Accounted
    <2>2. QED
        BY <1>1, <1>6, <2>1, FailedAttempt DEF JobKept, Accounted
<1>7. CASE job.state = "failed" /\ after = DeadLettered(job)
    BY <1>7 DEF JobKept, Accounted, DeadLettered, JobRecord
<1>8. CASE crashes < more /\ job.state = "active" /\ after \in Stalled(job)
    <2>1. job.attempts < JobAttempts
        BY <1>1, <1>8 DEF JobKept, Accounted
    <2>2. /\ after.stalled /\ (after.state = "waiting" <=> ~job.stalled)
          /\ \/ after.state \in {"waiting", "dropped"} /\ after.attempts = job.attempts
             \/ after.state = "failed" /\ after.attempts = JobAttempts
        BY <1>8, <2>1, StalledJob
    <2>3. job.stalled => more > 1
        BY <1>8 DEF JobKept
    <2>4. QED
        BY <1>8, <2>1, <2>2, <2>3 DEF JobKept, Accounted
<1>9. CASE silences < quieter /\ job.state = "failed" /\ after = [job EXCEPT !.state = "unreported"]
    BY <1>9 DEF JobKept, Accounted, JobRecord
<1>10. QED
    BY <1>2, <1>3, <1>4, <1>5, <1>6, <1>7, <1>8, <1>9 DEF JobMoves

-----------------------------------------------------------------------------
(* How dispatches end *)

HooksKept == \A j \in HookJobs : JobKept(hookJob[j], hookFaults, hookFaults)

LEMMA HookJobMoves ==
    ASSUME HookInv, WebhookNext, NEW j \in HookJobs
    PROVE  /\ hookFaults \in Nat /\ hookFaults' \in Nat /\ hookFaults <= hookFaults'
           /\ JobMoves(hookJob[j], hookJob'[j], hookFaults < hookFaults', hookFaults < hookFaults')
<1>1. /\ WebhookTypeOK /\ hookFaults \in Nat /\ hookJob \in [HookJobs -> JobRecord]
      /\ hookRun[j].pc # "idle" => hookJob[j].state = "active"
    BY WebhookAssumption DEF HookInv, WebhookTypeOK, JobFit
<1>2. UNCHANGED hookJob => JobMoves(hookJob[j], hookJob'[j], hookFaults < hookFaults', hookFaults < hookFaults')
    BY DEF JobMoves
<1>3. ASSUME NEW c \in Callers, hookRun[c].pc # "idle", Throw(c)
      PROVE  JobMoves(hookJob[j], hookJob'[j], hookFaults < hookFaults', hookFaults < hookFaults')
    <2>1. hookJob'[j] = hookJob[j] \/ (c = j /\ hookJob'[j] = AttemptFailed(hookJob[j]))
        BY <1>1, <1>3 DEF Throw
    <2>2. QED
        BY <1>1, <1>3, <2>1 DEF JobMoves
<1>4. ASSUME NEW i \in HookJobs, hookRun[i].pc # "idle", CompleteHookJob(i)
      PROVE  JobMoves(hookJob[j], hookJob'[j], hookFaults < hookFaults', hookFaults < hookFaults')
    <2>1. hookJob'[j] = hookJob[j] \/ (i = j /\ hookJob'[j] = Succeeded(hookJob[j]))
        BY <1>1, <1>4 DEF CompleteHookJob
    <2>2. QED
        BY <1>1, <1>4, <2>1 DEF JobMoves
<1> DEFINE Goal == /\ hookFaults <= hookFaults' /\ hookFaults' \in Nat
                   /\ JobMoves(hookJob[j], hookJob'[j], hookFaults < hookFaults', hookFaults < hookFaults')
<1>5. ASSUME NEW e \in Endpoints, CreateEndpoint(e) \/ UpdateEndpoint(e) \/ DeleteEndpoint(e) PROVE Goal
    BY <1>1, <1>2, <1>5 DEF CreateEndpoint, UpdateEndpoint, DeleteEndpoint
<1>6. ASSUME NEW i \in HookJobs, Dispatch(i) \/ TakeHookJob(i) \/ ReportDeadHookJob(i) PROVE Goal
    <2>1. /\ UNCHANGED hookFaults
          /\ \/ hookJob'[j] = hookJob[j]
             \/ hookJob[j].state = "none" /\ hookJob'[j] = Added(hookJob[j])
             \/ hookJob[j].state = "waiting" /\ hookJob'[j] = Taken(hookJob[j])
             \/ hookJob[j].state = "failed" /\ hookJob'[j] = DeadLettered(hookJob[j])
        BY <1>1, <1>6 DEF Dispatch, TakeHookJob, ReportDeadHookJob
    <2>2. QED
        BY <1>1, <2>1 DEF JobMoves
<1>7. ASSUME NEW i \in HookJobs, ListEndpoints(i) PROVE Goal
    <2>1. hookRun[i].pc # "idle" /\ UNCHANGED hookFaults /\ (UNCHANGED hookJob \/ CompleteHookJob(i))
        BY <1>7 DEF ListEndpoints
    <2>2. QED
        BY <1>1, <1>2, <1>4, <2>1
<1>8. ASSUME NEW i \in HookJobs, ReportDispatch(i) PROVE Goal
    <2>1. hookRun[i].pc # "idle" /\ UNCHANGED hookFaults /\ CompleteHookJob(i)
        BY <1>8 DEF ReportDispatch
    <2>2. QED
        BY <1>1, <1>4, <2>1
<1>9. ASSUME NEW i \in HookJobs, DeadHookJobUnreported(i) PROVE Goal
    <2>1. /\ hookFaults' = hookFaults + 1 /\ hookJob[i].state = "failed"
          /\ hookJob' = [hookJob EXCEPT ![i].state = "unreported"]
        BY <1>9 DEF DeadHookJobUnreported, HookFault
    <2>2. \/ hookJob'[j] = hookJob[j]
          \/ hookJob[j].state = "failed" /\ hookJob'[j] = [hookJob[j] EXCEPT !.state = "unreported"]
        BY <1>1, <2>1
    <2>3. QED
        BY <1>1, <2>1, <2>2 DEF JobMoves
<1>10. ASSUME NEW t \in HookTests, NEW e \in Endpoints, StartTest(t, e) PROVE Goal
    BY <1>1, <1>2, <1>10 DEF StartTest
<1>11. ASSUME NEW c \in Callers, DeliveryStep(c) PROVE Goal
    <2>1. /\ hookRun[c].pc # "idle" /\ UNCHANGED hookFaults
          /\ UNCHANGED hookJob \/ Throw(c)
        BY <1>11 DEF DeliveryStep, CreateDelivery, Post, RecordAnswer, CatchAnswer, NextEndpoint, NotDelivered
    <2>2. QED
        BY <1>1, <1>2, <1>3, <2>1
<1>12. ASSUME NEW c \in Callers, HookStatementFails(c) \/ AnswerLost(c) PROVE Goal
    <2>1. hookRun[c].pc # "idle" /\ hookFaults' = hookFaults + 1 /\ (UNCHANGED hookJob \/ Throw(c))
        BY <1>12 DEF HookStatementFails, AnswerLost, HookFault
    <2>2. QED
        BY <1>1, <1>2, <1>3, <2>1
<1>13. ASSUME NEW c \in Callers, HookCrash(c) PROVE Goal
    <2>1. hookRun[c].pc # "idle" /\ hookFaults' = hookFaults + 1
        BY <1>13 DEF HookCrash, HookFault
    <2>2. hookJob'[j] = hookJob[j] \/ (c = j /\ hookJob'[j] \in Stalled(hookJob[j]))
        BY <1>1, <1>13 DEF HookCrash
    <2>3. QED
        BY <1>1, <2>1, <2>2 DEF JobMoves
<1> HIDE DEF Goal
<1>14. Goal
    BY <1>5, <1>6, <1>7, <1>8, <1>9, <1>10, <1>11, <1>12, <1>13 DEF WebhookNext, HookJobStep
<1>15. QED
    BY <1>1, <1>14 DEF Goal

LEMMA HooksStayKept == HookInv /\ HooksKept /\ [WebhookNext]_hookVars => HooksKept'
<1>1. CASE UNCHANGED hookVars
    BY <1>1 DEF HooksKept, hookVars
<1>2. ASSUME HookInv, HooksKept, WebhookNext, NEW j \in HookJobs
      PROVE  JobKept(hookJob'[j], hookFaults', hookFaults')
    <2>1. hookJob[j] \in JobRecord /\ JobKept(hookJob[j], hookFaults, hookFaults)
        BY <1>2 DEF HookInv, WebhookTypeOK, HooksKept
    <2>2. QED
        BY <1>2, <2>1, HookJobMoves, MovesKept
<1>3. QED
    BY <1>1, <1>2 DEF HooksKept

LEMMA HooksStartKept == WebhookInit => HooksKept
BY NoJobKept DEF WebhookInit, HooksKept

LEMMA HooksTellKept == HooksKept => DispatchesAccounted
BY DEF HooksKept, DispatchesAccounted, JobKept

-----------------------------------------------------------------------------
(* How automations end *)

AutomationKept == JobKept(autoJob, Faults("crash"), Faults("listener"))

LEMMA FaultsTypeNext ==
    ASSUME AutomationTypeOK', NEW k
    PROVE  Faults(k)' \in Nat
<1>1. autoFaults' \in [AutoFaultKinds -> 0..MaxAutoFaults] /\ MaxAutoFaults \in Nat
    BY AutomationAssumption DEF AutomationTypeOK
<1>2. QED
    BY <1>1 DEF Faults

LEMMA AutomationJobMoves ==
    ASSUME AutoInv, AutomationNext
    PROVE  /\ Faults("crash") <= Faults("crash")' /\ Faults("listener") <= Faults("listener")'
           /\ JobMoves(autoJob, autoJob', Faults("crash") < Faults("crash")',
                       Faults("listener") < Faults("listener")')
<1> DEFINE Quiet == \A k : Faults(k) <= Faults(k)'
           Moves == JobMoves(autoJob, autoJob', Faults("crash") < Faults("crash")',
                             Faults("listener") < Faults("listener")')
<1>1. AutomationTypeOK /\ (autoRun.pc # "idle" => autoJob.state = "active")
    BY DEF AutoInv, RunFit
<1>2. /\ Faults("crash") \in Nat /\ Faults("listener") \in Nat
      /\ UNCHANGED autoFaults => /\ Faults("crash")' = Faults("crash")
                                 /\ Faults("listener")' = Faults("listener")
    BY <1>1, FaultsType DEF Faults
<1>3. UNCHANGED autoJob => Moves
    BY DEF JobMoves
<1>4. autoRun.pc # "idle" /\ (CompleteAutomationJob \/ AutomationJobThrows) => Moves
    BY <1>1 DEF JobMoves, CompleteAutomationJob, AutomationJobThrows
<1>5. autoRun.pc # "idle" /\ NextRule => Moves
    BY <1>3, <1>4 DEF NextRule
<1> DEFINE Goal == /\ Faults("crash") <= Faults("crash")' /\ Faults("listener") <= Faults("listener")'
                   /\ Moves
<1> SUFFICES Goal
    OBVIOUS
<1>6. UNCHANGED autoFaults /\ Moves => Goal
    BY <1>2
<1>7. ASSUME NEW r \in Rules, CreateRule(r) \/ UpdateRule(r) \/ DeleteRule(r) PROVE Goal
    BY <1>3, <1>6, <1>7 DEF CreateRule, UpdateRule, DeleteRule
<1>8. CASE UserChangesTicket
    BY <1>3, <1>6, <1>8 DEF UserChangesTicket
<1>9. CASE ProcessEvent
    <2>1. autoJob.state = "none" /\ autoJob' = Added(autoJob) /\ UNCHANGED autoFaults
        BY <1>9 DEF ProcessEvent, NoJob
    <2>2. QED
        BY <1>6, <2>1 DEF JobMoves
<1>10. CASE TakeAutomationJob
    BY <1>6, <1>10 DEF TakeAutomationJob, JobMoves
<1>11. CASE ReportDeadAutomationJob
    BY <1>6, <1>11 DEF ReportDeadAutomationJob, JobMoves
<1>12. CASE LoadTicketAndRules \/ EvaluateRule \/ BeginAction \/ ExecuteStatement \/ RefreshTicket
    <2>1. /\ UNCHANGED autoFaults /\ autoRun.pc # "idle" /\ (UNCHANGED autoJob \/ CompleteAutomationJob)
        BY <1>12 DEF LoadTicketAndRules, EvaluateRule, BeginAction, ExecuteStatement, RefreshTicket
    <2>2. QED
        BY <1>3, <1>4, <1>6, <2>1
<1>13. CASE RecordSkip \/ RecordExecution \/ RescueExecution
    <2>1. /\ UNCHANGED autoFaults /\ autoRun.pc # "idle"
          /\ UNCHANGED autoJob \/ AutomationJobThrows \/ NextRule
        BY <1>13 DEF RecordSkip, RecordExecution, RescueExecution
    <2>2. QED
        BY <1>3, <1>4, <1>5, <1>6, <2>1
<1>14. ASSUME NEW kind \in {"statement", "listener", "crash"}, AutoFault(kind)
       PROVE  /\ Faults("crash") <= Faults("crash")' /\ Faults("listener") <= Faults("listener")'
              /\ kind \in {"listener", "crash"} => Faults(kind) < Faults(kind)'
    <2>1. /\ Faults(kind)' = Faults(kind) + 1 /\ \A k : k # kind => Faults(k)' = Faults(k)
        BY <1>1, <1>14, FaultCounts
    <2>2. QED
        BY <1>2, <1>14, <2>1
<1>15. CASE AutoStatementFails
    <2>1. /\ AutoFault("statement") /\ autoRun.pc # "idle" /\ (UNCHANGED autoJob \/ AutomationJobThrows)
        BY <1>15 DEF AutoStatementFails
    <2>2. QED
        BY <1>3, <1>4, <1>14, <2>1
<1>16. CASE DeadAutomationJobUnreported
    <2>1. /\ AutoFault("listener") /\ autoJob.state = "failed"
          /\ autoJob' = [autoJob EXCEPT !.state = "unreported"]
        BY <1>16 DEF DeadAutomationJobUnreported
    <2>2. QED
        BY <1>14, <2>1 DEF JobMoves
<1>17. CASE AutoCrash
    <2>1. AutoFault("crash") /\ autoRun.pc # "idle" /\ autoJob' \in Stalled(autoJob)
        BY <1>17 DEF AutoCrash
    <2>2. QED
        BY <1>1, <1>14, <2>1 DEF JobMoves
<1> HIDE DEF Goal
<1>18. QED
    BY <1>7, <1>8, <1>9, <1>10, <1>11, <1>12, <1>13, <1>15, <1>16, <1>17 DEF AutomationNext, AutomationStep

LEMMA AutomationStaysKept == AutoInv /\ AutomationKept /\ [AutomationNext]_autoVars => AutomationKept'
<1> SUFFICES ASSUME AutoInv, AutomationKept, [AutomationNext]_autoVars PROVE AutomationKept'
    OBVIOUS
<1>0. AutomationTypeOK'
    BY AutoSteps DEF AutoInv
<1>1. CASE UNCHANGED autoVars
    BY <1>1 DEF AutomationKept, autoVars, Faults
<1>2. CASE AutomationNext
    <2> DEFINE crashes == Faults("crash")
               more == Faults("crash")'
               silences == Faults("listener")
               quieter == Faults("listener")'
    <2>1. /\ crashes \in Nat /\ silences \in Nat /\ more \in Nat /\ quieter \in Nat
        BY <1>0, FaultsType, FaultsTypeNext DEF AutoInv
    <2>2. autoJob \in JobRecord /\ JobKept(autoJob, crashes, silences)
        BY DEF AutoInv, AutomationTypeOK, AutomationKept
    <2>3. /\ crashes <= more /\ silences <= quieter
          /\ JobMoves(autoJob, autoJob', crashes < more, silences < quieter)
        BY <1>2, AutomationJobMoves
    <2>4. JobKept(autoJob', more, quieter)
        <3> HIDE DEF crashes, more, silences, quieter
        <3>1. QED
            BY <2>1, <2>2, <2>3, MovesKept
    <2>5. QED
        BY <2>4 DEF AutomationKept
<1>3. QED
    BY <1>1, <1>2

LEMMA AutomationStartsKept == AutomationInit => AutomationKept
BY NoJobKept DEF AutomationInit, AutomationKept

LEMMA AutomationTellsKept == AutomationKept => AutomationJobAccounted
BY DEF AutomationKept, AutomationJobAccounted, JobKept

-----------------------------------------------------------------------------
(* How mails end *)

\* A job that has stalled, and is not given up, has cost a fault beside its attempts.
Cost(job) == FaultsOf(job) + (IF job.stalled /\ job.state # "dropped" THEN 1 ELSE 0)

MailKept(p) ==
    fanEvent[p].queued => JobKept(fanEmail[p], fanFaults, fanFaults) /\ Cost(fanEmail[p]) <= fanFaults

LEMMA CostIs ==
    ASSUME NEW job \in JobRecord
    PROVE  /\ Cost(job) \in Nat /\ FaultsOf(job) \in Nat /\ FaultsOf(job) <= Cost(job)
           /\ Cost(Added(job)) <= Cost(job) /\ Cost(Taken(job)) <= Cost(job)
           /\ Cost(Succeeded(job)) <= Cost(job) /\ Cost(DeadLettered(job)) <= Cost(job)
           /\ Cost([job EXCEPT !.state = "unreported"]) <= Cost(job) + 1
<1> USE DEF Cost, FaultsOf
<1>1. job.attempts \in Nat /\ job.stalled \in BOOLEAN
    BY JobQueueAssumption DEF JobRecord
<1>2. FaultsOf(job) \in job.attempts..(job.attempts + 2) /\ Cost(job) \in FaultsOf(job)..(FaultsOf(job) + 1)
    BY <1>1
<1>3. \A state : [job EXCEPT !.state = state].state = state
        /\ [job EXCEPT !.state = state].attempts = job.attempts
        /\ [job EXCEPT !.state = state].stalled = job.stalled
    BY DEF JobRecord
<1>4. QED
    BY <1>1, <1>2, <1>3 DEF Added, Taken, Succeeded, DeadLettered

LEMMA AttemptCost ==
    ASSUME NEW job \in JobRecord, job.attempts < JobAttempts, job.state = "active"
    PROVE  Cost(AttemptFailed(job)) <= Cost(job) + 1
<1>1. job.attempts \in Nat /\ job.stalled \in BOOLEAN
    BY JobQueueAssumption DEF JobRecord
<1>2. QED
    BY <1>1, FailedAttempt DEF Cost, FaultsOf

LEMMA StallCost ==
    ASSUME NEW job \in JobRecord, job.attempts < JobAttempts, job.state = "active",
           NEW after \in Stalled(job)
    PROVE  Cost(after) <= Cost(job) + 1
<1>1. job.attempts \in Nat /\ job.stalled \in BOOLEAN
    BY JobQueueAssumption DEF JobRecord
<1>2. QED
    BY <1>1, StalledJob DEF Cost, FaultsOf

\* Faults are paid: a step that costs one more is a fault.
LEMMA MailMoves ==
    ASSUME FanInv, FanoutNext, NEW p \in Publications, fanEvent[p].queued
    PROVE  /\ fanFaults \in Nat /\ fanFaults' \in Nat /\ UNCHANGED fanEvent
           /\ JobMoves(fanEmail[p], fanEmail'[p], fanFaults < fanFaults', fanFaults < fanFaults')
           /\ \/ fanFaults' = fanFaults + 1 /\ Cost(fanEmail'[p]) <= Cost(fanEmail[p]) + 1
              \/ fanFaults' = fanFaults /\ Cost(fanEmail'[p]) <= Cost(fanEmail[p])
<1> DEFINE job == fanEmail[p]
           Moves == JobMoves(job, fanEmail'[p], fanFaults < fanFaults', fanFaults < fanFaults')
           Free == fanFaults' = fanFaults /\ Cost(fanEmail'[p]) <= Cost(job)
           Paid == fanFaults' = fanFaults + 1 /\ Cost(fanEmail'[p]) <= Cost(job) + 1
           Goal == UNCHANGED fanEvent /\ Moves /\ (Paid \/ Free)
<1>1. /\ fanFaults \in Nat /\ job \in JobRecord /\ fanEmail \in [Publications -> JobRecord]
      /\ fanMail[p] # "idle" <=> job.state = "active"
      /\ job.state = "active" => job.attempts < JobAttempts
      /\ \A q \in Publications : fanMail[q] # "idle" => fanEmail[q].state = "active"
    BY FanoutAssumption DEF FanInv, FanoutTypeOK, PublicationFit
<1>2. Cost(job) \in Nat
    BY <1>1, CostIs
<1>3. ASSUME NEW q \in Publications, ~(q = p),
             UNCHANGED fanEvent, fanFaults' \in {fanFaults, fanFaults + 1},
             NEW other, fanEmail' = [fanEmail EXCEPT ![q] = other]
      PROVE  Goal
    BY <1>1, <1>2, <1>3 DEF JobMoves
<1>4. ASSUME UNCHANGED <<fanEvent, fanEmail>>, fanFaults' \in {fanFaults, fanFaults + 1} PROVE Goal
    BY <1>1, <1>2, <1>4 DEF JobMoves
<1>5. ASSUME UNCHANGED fanEvent, Moves, Free PROVE Goal
    BY <1>5
<1>6. ASSUME NEW q \in Publications, PublishEvent(q) \/ PublishReturns(q) \/ SendMail(q) PROVE Goal
    BY <1>4, <1>6 DEF PublishEvent, PublishReturns, SendMail
<1>7. ASSUME NEW q \in Publications, NEW h \in Handlers, HandlerCallFails(q, h) PROVE Goal
    BY <1>4, <1>7 DEF HandlerCallFails, FanFault
<1>8. ASSUME NEW q \in Publications, NEW h \in Handlers, HandlerStep(q, h) PROVE Goal
    <2> DEFINE s == fanTodo[q][h]
    <2>1. /\ s # <<>> /\ UNCHANGED <<fanEvent, fanFaults>>
          /\ Head(s) # "email-job" => fanEmail' = fanEmail
          /\ Head(s) = "email-job" /\ fanEvent[q].queued =>
                fanEmail' = [fanEmail EXCEPT ![q] = Added(fanEmail[q])]
          /\ Head(s) = "email-job" /\ ~fanEvent[q].queued =>
                fanEmail' = [fanEmail EXCEPT ![q] = Taken(fanEmail[q])]
        BY <1>8 DEF HandlerStep, Pending
    <2>2. StepList(s, h) /\ PublicationFit(q)
        BY DEF FanInv, PublicationFit
    <2>3. Head(s) = "email-job" => Tally(s, "email-job") >= 1 /\ h = "notification"
        <3> HIDE DEF s
        <3>1. QED
            BY <2>1, <2>2, HeadIs
    <2>4. CASE Head(s) # "email-job"
        BY <1>4, <2>1, <2>4
    <2>5. CASE Head(s) = "email-job" /\ ~(q = p)
        <3>1. fanFaults' = fanFaults /\ UNCHANGED fanEvent
            BY <2>1
        <3>2. CASE fanEvent[q].queued
            BY <1>3, <2>1, <2>5, <3>1, <3>2
        <3>3. CASE ~fanEvent[q].queued
            BY <1>3, <2>1, <2>5, <3>1, <3>3
        <3>4. QED
            BY <3>2, <3>3
    <2>6. CASE Head(s) = "email-job" /\ q = p
        <3>1. job.state = "none"
            BY <1>1, <2>2, <2>3, <2>6 DEF PublicationFit
        <3>2. fanEmail'[p] = Added(job) /\ fanFaults' = fanFaults /\ UNCHANGED fanEvent
            BY <1>1, <2>1, <2>6
        <3>3. QED
            BY <1>1, <3>1, <3>2, CostIs DEF JobMoves
    <2>7. QED
        BY <2>4, <2>5, <2>6
<1>9. ASSUME NEW q \in Publications, TakeEmailJob(q) \/ RecordMail(q) \/ ReportDeadEmailJob(q) PROVE Goal
    <2>1. /\ UNCHANGED fanEvent /\ fanFaults' = fanFaults
          /\ \E other : fanEmail' = [fanEmail EXCEPT ![q] = other]
        BY <1>9 DEF TakeEmailJob, RecordMail, ReportDeadEmailJob
    <2>2. CASE ~(q = p)
        BY <1>3, <2>1, <2>2
    <2>3. CASE q = p
        <3>1. \/ job.state = "waiting" /\ fanEmail'[p] = Taken(job)
              \/ job.state = "active" /\ fanEmail'[p] = Succeeded(job)
              \/ job.state = "failed" /\ fanEmail'[p] = DeadLettered(job)
            BY <1>1, <1>9, <2>3 DEF TakeEmailJob, RecordMail, ReportDeadEmailJob
        <3>2. QED
            BY <1>1, <2>1, <3>1, CostIs DEF JobMoves
    <2>4. QED
        BY <2>2, <2>3
<1>10. ASSUME NEW q \in Publications, MailFails(q) \/ DeadEmailJobUnreported(q) \/ EmailWorkerCrashes(q)
       PROVE  Goal
    <2>1. /\ UNCHANGED fanEvent /\ fanFaults' = fanFaults + 1
          /\ \E other : fanEmail' = [fanEmail EXCEPT ![q] = other]
        <3>1. CASE MailFails(q)
            BY <3>1 DEF MailFails, FanFault, EmailJobFails
        <3>2. CASE DeadEmailJobUnreported(q)
            <4>1. fanEmail' = [fanEmail EXCEPT ![q] = [fanEmail[q] EXCEPT !.state = "unreported"]]
                BY <3>2 DEF DeadEmailJobUnreported
            <4>2. QED
                BY <3>2, <4>1 DEF DeadEmailJobUnreported, FanFault
        <3>3. CASE EmailWorkerCrashes(q)
            BY <3>3 DEF EmailWorkerCrashes, FanFault
        <3>4. QED
            BY <1>10, <3>1, <3>2, <3>3
    <2>2. CASE ~(q = p)
        BY <1>3, <2>1, <2>2
    <2>3. CASE q = p
        <3>1. fanFaults < fanFaults'
            BY <1>1, <2>1
        <3>2. CASE MailFails(p)
            <4>1. job.state = "active" /\ fanEmail'[p] = AttemptFailed(job)
                BY <1>1, <3>2 DEF MailFails, EmailJobFails
            <4>2. Cost(AttemptFailed(job)) <= Cost(job) + 1
                BY <1>1, <4>1, AttemptCost
            <4>3. QED
                BY <2>1, <4>1, <4>2 DEF JobMoves
        <3>3. CASE EmailWorkerCrashes(p)
            <4>1. job.state = "active" /\ fanEmail'[p] \in Stalled(job)
                BY <1>1, <3>3 DEF EmailWorkerCrashes
            <4>2. Cost(fanEmail'[p]) <= Cost(job) + 1
                BY <1>1, <4>1, StallCost
            <4>3. QED
                BY <2>1, <3>1, <4>1, <4>2 DEF JobMoves
        <3>4. CASE DeadEmailJobUnreported(p)
            <4>1. job.state = "failed" /\ fanEmail'[p] = [job EXCEPT !.state = "unreported"]
                BY <1>1, <3>4 DEF DeadEmailJobUnreported
            <4>2. Cost(fanEmail'[p]) <= Cost(job) + 1
                BY <1>1, <4>1, CostIs
            <4>3. QED
                BY <2>1, <3>1, <4>1, <4>2 DEF JobMoves
        <3>5. QED
            BY <1>10, <2>3, <3>2, <3>3, <3>4
    <2>4. QED
        BY <2>2, <2>3
<1> HIDE DEF Goal
<1>11. Goal
    BY <1>6, <1>7, <1>8, <1>9, <1>10 DEF FanoutNext, EmailStep
<1>12. fanFaults' \in Nat
    BY <1>1, <1>11 DEF Goal
<1>13. QED
    BY <1>1, <1>11, <1>12 DEF Goal

MailsKept == \A p \in Publications : MailKept(p)

LEMMA MailsStayKept == FanInv /\ MailsKept /\ [FanoutNext]_fanVars => MailsKept'
<1>1. CASE UNCHANGED fanVars
    BY <1>1 DEF MailsKept, MailKept, Cost, FaultsOf, fanVars
<1>2. ASSUME FanInv, MailsKept, FanoutNext, NEW p \in Publications, fanEvent[p].queued
      PROVE  /\ JobKept(fanEmail'[p], fanFaults', fanFaults') /\ Cost(fanEmail'[p]) <= fanFaults'
             /\ UNCHANGED fanEvent
    <2>1. /\ fanEmail[p] \in JobRecord /\ JobKept(fanEmail[p], fanFaults, fanFaults)
          /\ Cost(fanEmail[p]) <= fanFaults
        BY <1>2 DEF FanInv, FanoutTypeOK, MailsKept, MailKept
    <2>2. /\ fanFaults \in Nat /\ fanFaults' \in Nat /\ UNCHANGED fanEvent
          /\ JobMoves(fanEmail[p], fanEmail'[p], fanFaults < fanFaults', fanFaults < fanFaults')
          /\ \/ fanFaults' = fanFaults + 1 /\ Cost(fanEmail'[p]) <= Cost(fanEmail[p]) + 1
             \/ fanFaults' = fanFaults /\ Cost(fanEmail'[p]) <= Cost(fanEmail[p])
        BY <1>2, MailMoves
    <2>3. fanFaults <= fanFaults'
        BY <2>2
    <2>4. JobKept(fanEmail'[p], fanFaults', fanFaults')
        BY <2>1, <2>2, <2>3, MovesKept
    <2>5. fanEmail'[p] \in JobRecord
        BY <1>2, FanSteps DEF FanInv, FanoutTypeOK
    <2>6. Cost(fanEmail[p]) \in Nat /\ Cost(fanEmail'[p]) \in Nat
        BY <2>1, <2>5, CostIs
    <2>7. QED
        BY <2>1, <2>2, <2>4, <2>6
<1>3. ASSUME FanInv, MailsKept, FanoutNext, NEW p \in Publications PROVE MailKept(p)'
    <2>1. UNCHANGED fanEvent
        BY <1>3 DEF FanoutNext, PublishEvent, PublishReturns, EmailStep, TakeEmailJob, SendMail, RecordMail,
                    ReportDeadEmailJob, HandlerStep, HandlerCallFails, MailFails, DeadEmailJobUnreported,
                    EmailWorkerCrashes
    <2>2. QED
        BY <1>2, <1>3, <2>1 DEF MailKept
<1>4. QED
    BY <1>1, <1>3 DEF MailsKept

LEMMA MailsStartKept == FanoutInit => MailsKept
BY JobQueueAssumption, NoJobKept DEF FanoutInit, MailsKept, MailKept, Cost, FaultsOf, NoJob

LEMMA MailsTellKept == FanInv /\ MailsKept => MailsAccounted
<1>1. ASSUME FanInv, MailsKept, NEW p \in Publications, fanEvent[p].queued
      PROVE  Accounted(fanEmail[p], fanFaults, fanFaults) /\ FaultsOf(fanEmail[p]) <= fanFaults
    <2>1. fanEmail[p] \in JobRecord /\ fanFaults \in Nat
        BY <1>1, FanoutAssumption DEF FanInv, FanoutTypeOK
    <2>2. JobKept(fanEmail[p], fanFaults, fanFaults) /\ Cost(fanEmail[p]) <= fanFaults
        BY <1>1 DEF MailsKept, MailKept
    <2> DEFINE job == fanEmail[p]
    <2>3. Cost(job) \in Nat /\ FaultsOf(job) \in Nat /\ FaultsOf(job) <= Cost(job)
        BY <2>1, CostIs
    <2>4. QED
        BY <2>1, <2>2, <2>3 DEF JobKept
<1>2. QED
    BY <1>1 DEF MailsAccounted

-----------------------------------------------------------------------------
(* The components together *)

backgroundVars == <<focus, vars, hookVars, autoVars, fanVars>>

LEMMA OneOfThemMoves ==
    [BackgroundNext]_backgroundVars =>
        [Next]_vars /\ [WebhookNext]_hookVars /\ [AutomationNext]_autoVars /\ [FanoutNext]_fanVars
BY DEF BackgroundNext, Only, backgroundVars

\* The invariants of all four hold of the background as a whole.  Their specifications
\* do not follow from BackgroundSpec, whose fairness is that of one component alone.
LEMMA BackgroundInvariant ==
    BackgroundSpec => [](/\ IInv /\ HookInv /\ ToldInv /\ AutoInv /\ ComputesInv /\ FanInv
                         /\ HooksKept /\ AutomationKept /\ MailsKept)
<1>1. BackgroundInit => /\ IInv /\ HookInv /\ ToldInv /\ AutoInv /\ ComputesInv /\ FanInv
                        /\ HooksKept /\ AutomationKept /\ MailsKept
    <2>1. BackgroundInit => Init /\ WebhookInit /\ AutomationInit /\ FanoutInit
        BY DEF BackgroundInit
    <2>2. QED
        BY <2>1, InitInv, AuditAssumption, HookStarts, ToldStarts, AutoStarts, ComputesStarts, FanStarts,
           HooksStartKept, AutomationStartsKept, MailsStartKept
<1>2. IInv /\ [Next]_vars => IInv'
    BY NextInv, StutterInv, AuditAssumption
<1>3. BackgroundSpec => BackgroundInit /\ [][BackgroundNext]_backgroundVars
    BY PTL DEF BackgroundSpec, backgroundVars
<1>4. QED
    BY <1>1, <1>2, <1>3, OneOfThemMoves, HookSteps, ToldStep, AutoSteps, ComputesStep, FanSteps,
       HooksStayKept, AutomationStaysKept, MailsStayKept, PTL

\* Every variable of what runs beside the requests stays within its type.
THEOREM BackgroundTypeCorrect == BackgroundSpec => []BackgroundTypeOK
<1>1. IInv /\ HookInv /\ AutoInv /\ FanInv => BackgroundTypeOK
    BY DEF IInv, HookInv, AutoInv, FanInv, BackgroundTypeOK
<1>2. QED
    BY <1>1, BackgroundInvariant, PTL

\* Whatever runs beside the requests, and whatever of it fails: the audit log forks for
\* a cause and verification finds forks only; a dispatched event reaches every endpoint
\* and is told as it was answered; automations and publications cost no more records,
\* entries, handlers and mails than there were faults, and an automation left alone computes
\* what its rules say.
THEOREM BackgroundCorrect ==
    BackgroundSpec => [](/\ ForksHaveACause /\ BrokenMeansFork
                         /\ CompletedReachedAll /\ AcceptedIsTold
                         /\ AutomationAccounted /\ EngineComputes /\ OneFaultOneHandler)
BY BackgroundInvariant, ForksTell, BreaksTell, HooksTell, ToldTells, AutoTells, ComputesTells, FansTell, PTL

\* A worker of a queue may die at any step: its job is dead-lettered exactly when its
\* attempts are used up, and lost without a letter only by the listener's fault or by
\* the second of two crashes, whatever the number of jobs, attempts and faults.
THEOREM LossesExplainedCorrect == BackgroundSpec => []LossesExplained
<1>1. FanInv /\ HooksKept /\ AutomationKept /\ MailsKept => LossesExplained
    BY HooksTellKept, AutomationTellsKept, MailsTellKept DEF LossesExplained
<1>2. QED
    BY <1>1, BackgroundInvariant, PTL
===============================================================================
