-------------------------- MODULE FeatureFlagCache --------------------------
(***************************************************************************)
(* One feature flag: its row, the memory of every process and the Redis    *)
(* cache they share.  A request is a list of steps; each is one statement, *)
(* one Redis command, or what the process does between two awaits.  Time   *)
(* advances in ticks, of which an entry lives TTL.                         *)
(***************************************************************************)
EXTENDS Integers, Sequences, FiniteSets

CONSTANTS
    Processes,   \* API processes
    Requests,    \* requests that may be in flight
    Default,     \* resolveFeatureFlagDefault: the flag's value while it has no row
    UseRedis,    \* QUEUE_ENABLED
    TTL,         \* MEMORY_TTL_MS and REDIS_TTL_SECONDS, in ticks
    OpTicks,     \* assumption: ticks that a request takes at most
    MaxChanges,  \* bound: changes of the row
    FaultKinds,  \* which faults may happen
    MaxFaults    \* bound: how many faults may happen

Value == {"on", "off"}

ASSUME FlagAssumption ==
    /\ IsFiniteSet(Requests) /\ "none" \notin Processes
    /\ Default \in Value
    /\ UseRedis \in BOOLEAN
    /\ TTL \in Nat \ {0}
    /\ OpTicks \in Nat
    /\ MaxChanges \in Nat
    /\ FaultKinds \subseteq {"redis", "statement", "crash"}
    /\ MaxFaults \in Nat

VARIABLES
    row,      \* the flag's row in the table
    memory,   \* the entry in the memory of every process
    redis,    \* the entry in Redis
    request,  \* the local state of every request
    changes,  \* changes of the row so far
    audited,  \* entries of feature_flag_audits
    lost,     \* changes whose request died before their audit entry
    settled,  \* ticks since the row's last change, as far as they matter
    faults    \* faults so far

vars == <<row, memory, redis, request, changes, audited, lost, settled, faults>>

\* How long a cache may tell an old value: a request reads the row just before
\* the change and fills Redis at its last tick, and another one reads that
\* before it goes at its TTL-th tick and fills its memory at its own last tick.
StaleTicks == 2 * (TTL + OpTicks - 1)

Entry == [value : Value \cup {"none"}, left : 0..TTL]

NoEntry == [value |-> "none", left |-> 0]

Live(v) == [value |-> v, left |-> TTL]

\* A request's steps, in order; the steps of Redis only when it is used.
Program ==
    IF UseRedis
    THEN [read   |-> <<"get-redis", "find", "set-memory", "set-redis">>,
          create |-> <<"write", "set-memory", "set-redis", "audit">>,
          update |-> <<"write", "forget", "delete-redis", "set-memory", "set-redis", "audit">>,
          delete |-> <<"write", "forget", "delete-redis", "audit">>]
    ELSE [read   |-> <<"find", "set-memory">>,
          create |-> <<"write", "set-memory", "audit">>,
          update |-> <<"write", "forget", "set-memory", "audit">>,
          delete |-> <<"write", "forget", "audit">>]

RedisSteps == {"get-redis", "delete-redis", "set-redis"}

Steps == {"find", "write", "forget", "set-memory", "audit"} \cup RedisSteps

Ops == {"read", "create", "update", "delete"}

Idle == [op |-> "none", proc |-> "none", todo |-> <<>>, value |-> "none", age |-> 0]

TypeOK ==
    /\ row \in Value \cup {"absent"}
    /\ memory \in [Processes -> Entry]
    /\ redis \in Entry
    /\ \A r \in Requests :
          /\ request[r].op \in Ops \cup {"none"}
          /\ request[r].proc \in Processes \cup {"none"}
          /\ request[r].todo \in Seq(Steps)
          /\ request[r].value \in Value \cup {"none"}
          /\ request[r].age \in 0..OpTicks
    /\ changes \in 0..MaxChanges
    /\ audited \in 0..changes
    /\ lost \in 0..changes
    /\ settled \in 0..(StaleTicks + 1)
    /\ faults \in 0..MaxFaults

Init ==
    /\ row = "absent"
    /\ memory = [p \in Processes |-> NoEntry]
    /\ redis = NoEntry
    /\ request = [r \in Requests |-> Idle]
    /\ changes = 0
    /\ audited = 0
    /\ lost = 0
    /\ settled = StaleTicks + 1
    /\ faults = 0

-----------------------------------------------------------------------------
(* Requests *)

Effective == IF row = "absent" THEN Default ELSE row

At(r, step) == request[r].todo # <<>> /\ Head(request[r].todo) = step

\* The request goes on with what is left of its steps.
GoOn(r, todo, value) ==
    request' = [request EXCEPT ![r] = IF todo = <<>> THEN Idle
                                      ELSE [@ EXCEPT !.todo = todo, !.value = value]]

Rest(r) == Tail(request[r].todo)

Begin(r, p, op, value) ==
    /\ request[r].op = "none"
    /\ request' = [request EXCEPT ![r] = [op |-> op, proc |-> p, todo |-> Program[op],
                                          value |-> value, age |-> 0]]
    /\ UNCHANGED <<row, memory, redis, changes, audited, lost, settled, faults>>

\* isEnabled: a hit in the memory returns at once.
IsEnabled(r, p) == memory[p].value = "none" /\ Begin(r, p, "read", "none")

Writing == {r \in Requests : At(r, "write")}

\* create, updateByKey and deleteByKey look the flag up first.
BeginChange(r, p, op, value) ==
    /\ changes + Cardinality(Writing) < MaxChanges
    /\ (op = "create") = (row = "absent")
    /\ Begin(r, p, op, value)

Create(r, p) == \E v \in Value : BeginChange(r, p, "create", v)

\* Only the description changes when the request has no value.
Update(r, p) == \E v \in Value \cup {"none"} : BeginChange(r, p, "update", v)

Delete(r, p) == BeginChange(r, p, "delete", "none")

\* Faulty variant: a statement that fails is not noticed.
WriteIgnoringFailure(r) ==
    LET op == request[r].op
        value == IF request[r].value = "none" THEN row ELSE request[r].value
    IN
    /\ At(r, "write")
    /\ IF (op = "create") = (row = "absent")
       THEN /\ row' = IF op = "delete" THEN "absent" ELSE value
            /\ changes' = changes + 1
            /\ settled' = IF row' = row THEN settled ELSE 0
            /\ GoOn(r, Rest(r), IF op = "delete" THEN "none" ELSE value)
       ELSE /\ GoOn(r, Rest(r), request[r].value)
            /\ UNCHANGED <<row, changes, settled>>
    /\ UNCHANGED <<memory, redis, audited, lost, faults>>

\* The statement fails when the row has come or gone since it was looked up.
Write(r) ==
    LET op == request[r].op
        value == IF request[r].value = "none" THEN row ELSE request[r].value
    IN
    /\ At(r, "write")
    /\ IF (op = "create") = (row = "absent")
       THEN /\ row' = IF op = "delete" THEN "absent" ELSE value
            /\ changes' = changes + 1
            /\ settled' = IF row' = row THEN settled ELSE 0
            /\ GoOn(r, Rest(r), IF op = "delete" THEN "none" ELSE value)
       ELSE /\ GoOn(r, <<>>, "none")
            /\ UNCHANGED <<row, changes, settled>>
    /\ UNCHANGED <<memory, redis, audited, lost, faults>>

Find(r) ==
    /\ At(r, "find")
    /\ GoOn(r, Rest(r), Effective)
    /\ UNCHANGED <<row, memory, redis, changes, audited, lost, settled, faults>>

SetMemory(r) ==
    /\ At(r, "set-memory")
    /\ memory' = [memory EXCEPT ![request[r].proc] = Live(request[r].value)]
    /\ GoOn(r, Rest(r), request[r].value)
    /\ UNCHANGED <<row, redis, changes, audited, lost, settled, faults>>

Forget(r) ==
    /\ At(r, "forget")
    /\ memory' = [memory EXCEPT ![request[r].proc] = NoEntry]
    /\ GoOn(r, Rest(r), request[r].value)
    /\ UNCHANGED <<row, redis, changes, audited, lost, settled, faults>>

Audit(r) ==
    /\ At(r, "audit")
    /\ audited' = audited + 1
    /\ GoOn(r, Rest(r), request[r].value)
    /\ UNCHANGED <<row, memory, redis, changes, lost, settled, faults>>

-----------------------------------------------------------------------------
(* Redis *)

\* Faulty variant: a hit renews the entry in Redis.
GetRedisRenewing(r) ==
    /\ At(r, "get-redis")
    /\ IF redis.value # "none"
       THEN GoOn(r, <<"set-memory", "set-redis">>, redis.value)
       ELSE GoOn(r, Rest(r), "none")
    /\ UNCHANGED <<row, memory, redis, changes, audited, lost, settled, faults>>

\* A hit fills the memory, and nothing else.
GetRedis(r) ==
    /\ At(r, "get-redis")
    /\ IF redis.value # "none"
       THEN GoOn(r, <<"set-memory">>, redis.value)
       ELSE GoOn(r, Rest(r), "none")
    /\ UNCHANGED <<row, memory, redis, changes, audited, lost, settled, faults>>

SetRedis(r) ==
    /\ At(r, "set-redis")
    /\ redis' = Live(request[r].value)
    /\ GoOn(r, Rest(r), request[r].value)
    /\ UNCHANGED <<row, memory, changes, audited, lost, settled, faults>>

DeleteRedis(r) ==
    /\ At(r, "delete-redis")
    /\ redis' = NoEntry
    /\ GoOn(r, Rest(r), request[r].value)
    /\ UNCHANGED <<row, memory, changes, audited, lost, settled, faults>>

-----------------------------------------------------------------------------
(* Faults and time *)

Fault(kind) ==
    /\ kind \in FaultKinds
    /\ faults < MaxFaults
    /\ faults' = faults + 1

\* Faulty variant: a failing Redis command fails the request.
RedisFailsRequest(r) ==
    /\ \E step \in RedisSteps : At(r, step)
    /\ Fault("redis")
    /\ GoOn(r, <<>>, "none")
    /\ UNCHANGED <<row, memory, redis, changes, audited, lost, settled>>

\* A failing Redis command is caught, and taken for a miss.
RedisFails(r) ==
    /\ \E step \in RedisSteps : At(r, step)
    /\ Fault("redis")
    /\ GoOn(r, Rest(r), request[r].value)
    /\ UNCHANGED <<row, memory, redis, changes, audited, lost, settled>>

\* The request has changed the row and has not written its audit entry.
OwesAudit(r) ==
    request[r].op \in {"create", "update", "delete"} /\ ~At(r, "write")

\* A statement of PostgreSQL fails, and the request with it.
StatementFails(r) ==
    /\ \E step \in {"find", "write", "audit"} : At(r, step)
    /\ Fault("statement")
    /\ GoOn(r, <<>>, "none")
    /\ lost' = IF OwesAudit(r) THEN lost + 1 ELSE lost
    /\ UNCHANGED <<row, memory, redis, changes, audited, settled>>

\* A process dies with its memory and its requests, and starts again.
Crash(p) ==
    /\ Fault("crash")
    /\ memory' = [memory EXCEPT ![p] = NoEntry]
    /\ request' = [r \in Requests |-> IF request[r].proc = p THEN Idle ELSE request[r]]
    /\ lost' = lost + Cardinality({r \in Requests : request[r].proc = p /\ OwesAudit(r)})
    /\ UNCHANGED <<row, redis, changes, audited, settled>>

Older(entry) == IF entry.left <= 1 THEN NoEntry ELSE [entry EXCEPT !.left = @ - 1]

Tick ==
    /\ \A r \in Requests : request[r].op # "none" => request[r].age < OpTicks
    /\ memory' = [p \in Processes |-> Older(memory[p])]
    /\ redis' = Older(redis)
    /\ request' = [r \in Requests |-> IF request[r].op = "none" THEN Idle
                                      ELSE [request[r] EXCEPT !.age = @ + 1]]
    /\ settled' = IF settled > StaleTicks THEN settled ELSE settled + 1
    /\ UNCHANGED <<row, changes, audited, lost, faults>>

-----------------------------------------------------------------------------
(* The specification *)

Next ==
    \/ \E r \in Requests :
          \/ \E p \in Processes :
                IsEnabled(r, p) \/ Create(r, p) \/ Update(r, p) \/ Delete(r, p)
          \/ Find(r) \/ Write(r) \/ SetMemory(r) \/ Forget(r) \/ Audit(r)
          \/ GetRedis(r) \/ SetRedis(r) \/ DeleteRedis(r)
          \/ RedisFails(r) \/ StatementFails(r)
    \/ \E p \in Processes : Crash(p)
    \/ Tick

Spec == Init /\ [][Next]_vars

-----------------------------------------------------------------------------
(* Correctness *)

Caches == {memory[p] : p \in Processes} \cup {redis}

Fresh == \A entry \in Caches : entry.value \in {"none", Effective}

\* However requests race and Redis fails, no cache tells an old value for long:
\* entries filled from Redis do not renew the entry there.
StaleBounded == settled > StaleTicks => Fresh

\* "Cache invalidation failures must not block flag management": a change is
\* audited whatever Redis does; only the death of its process or the failure of a
\* statement costs it its entry.
EveryChangeAudited ==
    changes = audited + lost + Cardinality({r \in Requests : OwesAudit(r)})
=============================================================================
