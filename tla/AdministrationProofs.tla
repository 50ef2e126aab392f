---------------------------- MODULE AdministrationProofs ----------------------------
(***************************************************************************)
(* What the runs of MCAdministration check of all its components at once:  *)
(* every behaviour of AdministrationSpec is one of each component, so that *)
(* the components' theorems hold of it.  And the flag's caches, whose      *)
(* names are MCAdministration's own.                                       *)
(***************************************************************************)
EXTENDS MCAdministration, RecordsProofs, AccessProofs, SequenceTheorems

-----------------------------------------------------------------------------
(* Feature flags *)

FlagWrites == {"create", "update", "delete"}

\* What is left of a request's steps: it writes first, finds what Redis has not got,
\* and ends with its audit entry if it is a change.
StepFits(todo, op, i) ==
    /\ todo[i] = "write" => i = 1 /\ op \in FlagWrites
    /\ todo[i] = "get-redis" => i = 1 /\ op = "read"
    /\ todo[i] = "find" => op = "read" /\ (i = 1 \/ (i = 2 /\ todo[1] = "get-redis"))
    /\ todo[i] = "audit" => op \in FlagWrites /\ i = Len(todo)

StepsFit(todo, op) ==
    /\ todo \in Seq(Steps) /\ todo # <<>>
    /\ \A i \in 1..Len(todo) : StepFits(todo, op, i)
    /\ op \in FlagWrites => todo[Len(todo)] = "audit"

Starts(todo, step) == todo # <<>> /\ Head(todo) = step

\* The request has a value that it will put into a cache.
Carries(q) ==
    /\ q.todo # <<>>
    /\ ~ Starts(q.todo, "get-redis") /\ ~ Starts(q.todo, "find") /\ ~ Starts(q.todo, "write")

FlagRequest ==
    [op : Ops, proc : Processes, todo : Seq(Steps), value : Value \cup {"none"}, age : 0..OpTicks]

RequestFits(q) ==
    /\ q \in FlagRequest /\ StepsFit(q.todo, q.op)
    /\ q.op = "read" /\ ~ Carries(q) => q.value = "none"
    /\ q.op = "create" => q.value \in Value

Owes(q) == q.op \in FlagWrites /\ ~ Starts(q.todo, "write")

Old(value, effective) == value \notin {"none", effective}

Refills(todo) == \E i \in 1..Len(todo) : todo[i] = "set-redis"

\* An old value was found in the table before the change, or in Redis since; how many
\* ticks ago the change was at most.
ValueTold(q, ticks, effective) ==
    Carries(q) /\ Old(q.value, effective) =>
        /\ ticks <= OpTicks + TTL - 1 + q.age
        /\ Refills(q.todo) => ticks <= q.age

EntryFits(entry) == entry \in Entry /\ (entry.value # "none" => entry.left >= 1)

RedisTold(entry, ticks, effective) ==
    Old(entry.value, effective) => ticks + entry.left <= OpTicks + TTL

MemoryTold(entry, ticks, effective) ==
    Old(entry.value, effective) => ticks + entry.left <= 2 * OpTicks + TTL - 1 + TTL

Owing == {r \in Requests : OwesAudit(r)}

ChangesPart ==
    /\ changes \in Nat /\ audited \in Nat /\ lost \in Nat
    /\ changes = audited + lost + Cardinality(Owing)
    /\ changes + Cardinality(Writing) <= MaxChanges

CachePart ==
    /\ row \in Value \cup {"absent"} /\ settled \in 0..(StaleTicks + 1)
    /\ EntryFits(redis) /\ RedisTold(redis, settled, Effective)
    /\ memory \in [Processes -> Entry]
    /\ \A p \in Processes : EntryFits(memory[p]) /\ MemoryTold(memory[p], settled, Effective)

InFlightPart ==
    /\ DOMAIN request = Requests
    /\ \A r \in Requests : /\ request[r] = Idle \/ RequestFits(request[r])
                           /\ ValueTold(request[r], settled, Effective)

FlagInv == ChangesPart /\ CachePart /\ InFlightPart /\ faults \in 0..MaxFaults

LEMMA FlagPrograms ==
    ASSUME NEW op \in Ops
    PROVE  /\ StepsFit(Program[op], op)
           /\ op = "read" => Starts(Program[op], "get-redis") \/ Starts(Program[op], "find")
           /\ op \in FlagWrites => Starts(Program[op], "write")
<1>1. CASE op = "read"
    <2>1. CASE UseRedis
        <3>1. Program[op] = <<"get-redis", "find", "set-memory", "set-redis">>
            BY <1>1, <2>1 DEF Program
        <3>2. /\ Len(Program[op]) = 4 /\ Head(Program[op]) = "get-redis" /\ Program[op] \in Seq(Steps)
              /\ Program[op][1] = "get-redis" /\ Program[op][2] = "find"
              /\ Program[op][3] = "set-memory" /\ Program[op][4] = "set-redis"
            BY <3>1 DEF Steps, RedisSteps
        <3>3. Program[op] # <<>> /\ \A i \in 1..4 : i = 1 \/ i = 2 \/ i = 3 \/ i = 4
            BY <3>1
        <3>4. ASSUME NEW i \in 1..Len(Program[op]) PROVE StepFits(Program[op], op, i)
            BY <1>1, <3>2, <3>3 DEF StepFits
        <3>5. QED
            BY <1>1, <3>2, <3>3, <3>4 DEF StepsFit, Starts, FlagWrites
    <2>2. CASE ~ UseRedis
        <3>1. Program[op] = <<"find", "set-memory">>
            BY <1>1, <2>2 DEF Program
        <3>2. /\ Len(Program[op]) = 2 /\ Head(Program[op]) = "find" /\ Program[op] \in Seq(Steps)
              /\ Program[op][1] = "find" /\ Program[op][2] = "set-memory"
            BY <3>1 DEF Steps, RedisSteps
        <3>3. Program[op] # <<>> /\ \A i \in 1..2 : i = 1 \/ i = 2
            BY <3>1
        <3>4. ASSUME NEW i \in 1..Len(Program[op]) PROVE StepFits(Program[op], op, i)
            BY <1>1, <3>2, <3>3 DEF StepFits
        <3>5. QED
            BY <1>1, <3>2, <3>3, <3>4 DEF StepsFit, Starts, FlagWrites
    <2>3. QED
        BY <2>1, <2>2
<1>2. CASE op = "create"
    <2>1. CASE UseRedis
        <3>1. Program[op] = <<"write", "set-memory", "set-redis", "audit">>
            BY <1>2, <2>1 DEF Program
        <3>2. QED
            BY <1>2, <3>1 DEF StepsFit, StepFits, Starts, Steps, RedisSteps, FlagWrites
    <2>2. CASE ~ UseRedis
        <3>1. Program[op] = <<"write", "set-memory", "audit">>
            BY <1>2, <2>2 DEF Program
        <3>2. QED
            BY <1>2, <3>1 DEF StepsFit, StepFits, Starts, Steps, RedisSteps, FlagWrites
    <2>3. QED
        BY <2>1, <2>2
<1>3. CASE op = "update"
    <2>1. CASE UseRedis
        <3>1. Program[op] = <<"write", "forget", "delete-redis", "set-memory", "set-redis", "audit">>
            BY <1>3, <2>1 DEF Program
        <3>2. QED
            BY <1>3, <3>1 DEF StepsFit, StepFits, Starts, Steps, RedisSteps, FlagWrites
    <2>2. CASE ~ UseRedis
        <3>1. Program[op] = <<"write", "forget", "set-memory", "audit">>
            BY <1>3, <2>2 DEF Program
        <3>2. QED
            BY <1>3, <3>1 DEF StepsFit, StepFits, Starts, Steps, RedisSteps, FlagWrites
    <2>3. QED
        BY <2>1, <2>2
<1>4. CASE op = "delete"
    <2>1. CASE UseRedis
        <3>1. Program[op] = <<"write", "forget", "delete-redis", "audit">>
            BY <1>4, <2>1 DEF Program
        <3>2. QED
            BY <1>4, <3>1 DEF StepsFit, StepFits, Starts, Steps, RedisSteps, FlagWrites
    <2>2. CASE ~ UseRedis
        <3>1. Program[op] = <<"write", "forget", "audit">>
            BY <1>4, <2>2 DEF Program
        <3>2. QED
            BY <1>4, <3>1 DEF StepsFit, StepFits, Starts, Steps, RedisSteps, FlagWrites
    <2>3. QED
        BY <2>1, <2>2
<1>5. QED
    BY <1>1, <1>2, <1>3, <1>4 DEF Ops

LEMMA RestFits ==
    ASSUME NEW op, NEW todo, StepsFit(todo, op)
    PROVE  /\ Tail(todo) = <<>> \/ StepsFit(Tail(todo), op)
           /\ Tail(todo) # <<>> => Head(Tail(todo)) \notin {"write", "get-redis"}
           /\ Tail(todo) # <<>> /\ Head(Tail(todo)) = "find" => Head(todo) = "get-redis"
           /\ op \in FlagWrites => (Tail(todo) = <<>> <=> Head(todo) = "audit")
           /\ Refills(Tail(todo)) => Refills(todo)
<1>1. todo \in Seq(Steps) /\ todo # <<>> /\ Len(todo) \in Nat /\ Len(todo) >= 1
    BY DEF StepsFit, StepFits
<1>2. /\ Tail(todo) \in Seq(Steps) /\ Len(Tail(todo)) = Len(todo) - 1 /\ Head(todo) = todo[1]
      /\ \A i \in 1..Len(Tail(todo)) : Tail(todo)[i] = todo[i + 1]
    BY <1>1
<1>3. Tail(todo) = <<>> <=> Len(todo) = 1
    <2>1. Tail(todo) = <<>> <=> Len(Tail(todo)) = 0
        BY <1>2, EmptySeq
    <2>2. QED
        BY <1>1, <1>2, <2>1
<1>4. Tail(todo) # <<>> => Head(Tail(todo)) = todo[2] /\ Len(todo) >= 2
    BY <1>1, <1>2, <1>3
<1>5. Tail(todo) # <<>> => Head(Tail(todo)) \notin {"write", "get-redis"}
    BY <1>1, <1>4 DEF StepsFit, StepFits
<1>6. Tail(todo) # <<>> /\ Head(Tail(todo)) = "find" => Head(todo) = "get-redis"
    <2>1. Len(todo) >= 2 => 2 \in 1..Len(todo)
        BY <1>1
    <2>2. Len(todo) >= 2 /\ todo[2] = "find" => todo[1] = "get-redis"
        BY <2>1 DEF StepsFit, StepFits
    <2>3. QED
        BY <1>2, <1>4, <2>2
<1>7. op \in FlagWrites => (Tail(todo) = <<>> <=> Head(todo) = "audit")
    <2>1. 1 \in 1..Len(todo)
        BY <1>1
    <2>2. /\ todo[1] = "audit" => 1 = Len(todo)
          /\ op \in FlagWrites => todo[Len(todo)] = "audit"
        BY <2>1 DEF StepsFit, StepFits
    <2>3. QED
        BY <1>2, <1>3, <2>2
<1>8. ASSUME Tail(todo) # <<>> PROVE StepsFit(Tail(todo), op)
    <2> DEFINE rest == Tail(todo)
    <2>1. /\ rest \in Seq(Steps) /\ rest # <<>> /\ Len(rest) = Len(todo) - 1 /\ Len(rest) \in Nat /\ Len(rest) >= 1
          /\ \A i \in 1..Len(rest) : rest[i] = todo[i + 1]
        BY <1>1, <1>2, <1>3, <1>8
    <2> HIDE DEF rest
    <2>2. ASSUME NEW i \in 1..Len(rest)
          PROVE  /\ rest[i] # "write" /\ rest[i] # "get-redis"
                 /\ rest[i] = "find" => op = "read" /\ i = 1
                 /\ rest[i] = "audit" => op \in FlagWrites /\ i = Len(rest)
        <3>1. i \in Int /\ i + 1 \in 1..Len(todo) /\ i + 1 # 1 /\ rest[i] = todo[i + 1]
            BY <1>1, <2>1
        <3>2. /\ todo[i + 1] # "write" /\ todo[i + 1] # "get-redis"
              /\ todo[i + 1] = "find" => op = "read" /\ i + 1 = 2
              /\ todo[i + 1] = "audit" => op \in FlagWrites /\ i + 1 = Len(todo)
            BY <3>1 DEF StepsFit, StepFits
        <3>3. (i + 1 = 2 => i = 1) /\ (i + 1 = Len(todo) => i = Len(rest))
            BY <1>1, <2>1, <3>1
        <3>4. QED
            BY <3>1, <3>2, <3>3
    <2>3. Len(rest) \in 1..Len(rest) /\ rest[Len(rest)] = todo[Len(todo)]
        BY <1>1, <2>1
    <2>4. op \in FlagWrites => rest[Len(rest)] = "audit"
        BY <2>3 DEF StepsFit, StepFits
    <2>5. ASSUME NEW i \in 1..Len(rest) PROVE StepFits(rest, op, i)
        <3>1. /\ rest[i] # "write" /\ rest[i] # "get-redis"
              /\ rest[i] = "find" => op = "read" /\ i = 1
              /\ rest[i] = "audit" => op \in FlagWrites /\ i = Len(rest)
            BY <2>2
        <3>2. QED
            BY <3>1 DEF StepFits
    <2>6. StepsFit(rest, op)
        BY <2>1, <2>4, <2>5 DEF StepsFit
    <2>7. QED
        BY <2>6 DEF rest
<1>9. ASSUME NEW i \in 1..Len(Tail(todo)), Tail(todo)[i] = "set-redis"
      PROVE  \E j \in 1..Len(todo) : todo[j] = "set-redis"
    <2>1. i + 1 \in 1..Len(todo) /\ todo[i + 1] = "set-redis"
        BY <1>1, <1>2, <1>9
    <2>2. QED
        BY <2>1
<1>10. QED
    BY <1>5, <1>6, <1>7, <1>8, <1>9 DEF Refills

-----------------------------------------------------------------------------
(* What a step leaves of the parts *)

\* The row changes, and the time since then begins; or neither does.
TimeGoesOn == (row' = row /\ settled' = settled) \/ (row' \in Value \cup {"absent"} /\ settled' = 0)

LEMMA FlagBounds ==
    ASSUME FlagInv
    PROVE  /\ OpTicks \in Nat /\ TTL \in Nat /\ TTL >= 1 /\ StaleTicks = 2 * (TTL + OpTicks - 1) /\ StaleTicks \in Nat
           /\ settled \in Nat /\ settled <= StaleTicks + 1
           /\ "none" \notin Value /\ Effective \in Value
           /\ \A entry \in Entry : entry.left \in Nat /\ entry.left <= TTL
           /\ \A q \in FlagRequest : q.age \in Nat /\ q.age <= OpTicks
<1>1. OpTicks \in Nat /\ TTL \in Nat /\ TTL >= 1
    BY FlagAssumption
<1>2. StaleTicks = 2 * (TTL + OpTicks - 1) /\ StaleTicks \in Nat
    BY <1>1 DEF StaleTicks
<1>3. settled \in Nat /\ settled <= StaleTicks + 1
    BY <1>2 DEF FlagInv, CachePart
<1>4. "none" \notin Value /\ Effective \in Value
    BY FlagAssumption DEF Value, Effective, FlagInv, CachePart
<1>5. \A entry \in Entry : entry.left \in Nat /\ entry.left <= TTL
    BY <1>1 DEF Entry
<1>6. \A q \in FlagRequest : q.age \in Nat /\ q.age <= OpTicks
    BY <1>1 DEF FlagRequest
<1>7. QED
    BY <1>1, <1>2, <1>3, <1>4, <1>5, <1>6

LEMMA TypedFlag ==
    ASSUME FlagInv, NEW r \in Requests
    PROVE  /\ request[r].op \in Ops <=> request[r] # Idle
           /\ request[r].op = "none" <=> request[r] = Idle
           /\ request[r] # Idle => RequestFits(request[r]) /\ request[r] \in FlagRequest
           /\ ~ Carries(Idle) /\ ~ Owes(Idle) /\ Idle.todo = <<>>
           /\ Owes(request[r]) <=> OwesAudit(r)
           /\ \A step : At(r, step) <=> Starts(request[r].todo, step)
           /\ \A step : At(r, step) => request[r] # Idle
<1>1. request[r] = Idle \/ RequestFits(request[r])
    BY DEF FlagInv, InFlightPart
<1>2. Idle.op = "none" /\ Idle.todo = <<>>
    BY DEF Idle
<1>3. ~ Carries(Idle) /\ ~ Owes(Idle)
    BY <1>2 DEF Carries, Owes, FlagWrites
<1>4. RequestFits(request[r]) => request[r].op \in Ops /\ request[r] \in FlagRequest
    BY DEF RequestFits, FlagRequest
<1>5. "none" \notin Ops
    BY DEF Ops
<1>6. \A step : At(r, step) <=> Starts(request[r].todo, step)
    BY DEF At, Starts
<1>7. Owes(request[r]) <=> OwesAudit(r)
    BY <1>6 DEF Owes, OwesAudit, FlagWrites
<1>8. QED
    BY <1>1, <1>2, <1>3, <1>4, <1>5, <1>6, <1>7 DEF Starts

LEMMA CachesStay ==
    ASSUME FlagInv, UNCHANGED <<memory, redis>>, TimeGoesOn
    PROVE  CachePart'
<1>1. CASE UNCHANGED <<row, settled>>
    <2>1. Effective' = Effective
        BY <1>1 DEF Effective
    <2>2. QED
        BY <1>1, <2>1 DEF FlagInv, CachePart
<1>2. CASE row' \in Value \cup {"absent"} /\ settled' = 0
    <2>1. settled' \in 0..(StaleTicks + 1)
        BY <1>2, FlagBounds
    <2>2. ASSUME NEW entry \in Entry
          PROVE  RedisTold(entry, 0, Effective') /\ MemoryTold(entry, 0, Effective')
        <3>1. entry.left \in Nat /\ entry.left <= TTL /\ OpTicks \in Nat /\ TTL \in Nat /\ TTL >= 1
            BY FlagBounds
        <3>2. QED
            BY <3>1 DEF RedisTold, MemoryTold
    <2>3. CachePart
        BY DEF FlagInv
    <2>4. RedisTold(redis', settled', Effective')
        BY <1>2, <2>2, <2>3 DEF CachePart, EntryFits
    <2>5. \A p \in Processes : MemoryTold(memory'[p], settled', Effective')
        BY <1>2, <2>2, <2>3 DEF CachePart, EntryFits
    <2>6. QED
        BY <1>2, <2>1, <2>3, <2>4, <2>5 DEF CachePart
<1>3. QED
    BY <1>1, <1>2 DEF TimeGoesOn

LEMMA ValueStaysTold ==
    ASSUME FlagInv, TimeGoesOn, NEW q, q = Idle \/ q \in FlagRequest, ValueTold(q, settled, Effective)
    PROVE  ValueTold(q, settled', Effective')
<1>1. CASE UNCHANGED <<row, settled>>
    <2>1. Effective' = Effective
        BY <1>1 DEF Effective
    <2>2. QED
        BY <1>1, <2>1
<1>2. CASE row' \in Value \cup {"absent"} /\ settled' = 0
    <2>1. CASE q = Idle
        <3>1. ~ Carries(q)
            BY <2>1 DEF Carries, Idle
        <3>2. QED
            BY <3>1 DEF ValueTold
    <2>2. CASE q \in FlagRequest
        <3>1. q.age \in Nat /\ OpTicks \in Nat /\ TTL \in Nat /\ TTL >= 1
            BY <2>2, FlagBounds
        <3>2. QED
            BY <1>2, <3>1 DEF ValueTold
    <2>3. QED
        BY <2>1, <2>2
<1>3. QED
    BY <1>1, <1>2 DEF TimeGoesOn

OneGoesOn(r) ==
    DOMAIN request' = Requests /\ \A p \in Requests : p # r => request'[p] = request[p]

LEMMA InFlightStays ==
    ASSUME FlagInv, NEW r \in Requests, OneGoesOn(r), TimeGoesOn,
           request'[r] = Idle \/ RequestFits(request'[r]),
           ValueTold(request'[r], settled', Effective')
    PROVE  InFlightPart'
<1>1. ASSUME NEW p \in Requests
      PROVE  /\ request'[p] = Idle \/ RequestFits(request'[p])
             /\ ValueTold(request'[p], settled', Effective')
    <2>1. CASE p = r
        BY <2>1
    <2>2. CASE p # r
        <3>1. /\ request'[p] = request[p] /\ (request[p] = Idle \/ RequestFits(request[p]))
              /\ ValueTold(request[p], settled, Effective)
            BY <2>2 DEF OneGoesOn, FlagInv, InFlightPart
        <3>2. request[p] = Idle \/ request[p] \in FlagRequest
            BY <3>1 DEF RequestFits
        <3>3. ValueTold(request[p], settled', Effective')
            BY <3>1, <3>2, ValueStaysTold
        <3>4. QED
            BY <3>1, <3>3
    <2>3. QED
        BY <2>1, <2>2
<1>2. QED
    BY <1>1 DEF InFlightPart, OneGoesOn

\* The changes whose audit entry is owed, and those that are still to be made.
LEMMA ChangesStay ==
    ASSUME FlagInv, NEW r \in Requests, OneGoesOn(r), UNCHANGED <<changes, audited, lost>>,
           Owes(request'[r]) <=> Owes(request[r]),
           Starts(request'[r].todo, "write") => Starts(request[r].todo, "write")
    PROVE  ChangesPart'
<1>1. Owing' = Owing
    BY DEF Owing, OwesAudit, Owes, At, Starts, FlagWrites, OneGoesOn
<1>2. Writing' \subseteq Writing
    BY DEF Writing, At, Starts, OneGoesOn
<1>3. IsFiniteSet(Writing)
    BY FS_Subset, FlagAssumption DEF Writing
<1>4. Cardinality(Writing') \in Nat /\ Cardinality(Writing) \in Nat
      /\ Cardinality(Writing') <= Cardinality(Writing)
    BY <1>2, <1>3, PartCounted
<1>5. QED
    BY <1>1, <1>4, FlagAssumption DEF FlagInv, ChangesPart

LEMMA FlagGoesOn ==
    ASSUME FlagInv, NEW r \in Requests, request[r] # Idle, NEW todo, NEW value \in Value \cup {"none"},
           todo = <<>> \/ StepsFit(todo, request[r].op), GoOn(r, todo, value)
    PROVE  /\ OneGoesOn(r)
           /\ todo = <<>> => request'[r] = Idle
           /\ todo # <<>> => /\ request'[r] \in FlagRequest
                             /\ request'[r].todo = todo /\ request'[r].value = value
                             /\ request'[r].op = request[r].op /\ request'[r].proc = request[r].proc
                             /\ request'[r].age = request[r].age
<1>1. request[r] \in FlagRequest
    BY TypedFlag
<1>2. DOMAIN request = Requests
    BY DEF FlagInv, InFlightPart
<1>3. CASE todo = <<>>
    <2>1. request' = [request EXCEPT ![r] = Idle]
        BY <1>3 DEF GoOn
    <2>2. QED
        BY <1>2, <1>3, <2>1 DEF OneGoesOn
<1>4. CASE todo # <<>>
    <2>1. request' = [request EXCEPT ![r] = [request[r] EXCEPT !.todo = todo, !.value = value]]
        BY <1>2, <1>4 DEF GoOn
    <2>2. todo \in Seq(Steps)
        BY <1>4 DEF StepsFit
    <2>3. /\ [request[r] EXCEPT !.todo = todo, !.value = value] \in FlagRequest
          /\ [request[r] EXCEPT !.todo = todo, !.value = value].todo = todo
          /\ [request[r] EXCEPT !.todo = todo, !.value = value].value = value
          /\ [request[r] EXCEPT !.todo = todo, !.value = value].op = request[r].op
          /\ [request[r] EXCEPT !.todo = todo, !.value = value].proc = request[r].proc
          /\ [request[r] EXCEPT !.todo = todo, !.value = value].age = request[r].age
        BY <1>1, <2>2 DEF FlagRequest
    <2>4. request'[r] = [request[r] EXCEPT !.todo = todo, !.value = value] /\ OneGoesOn(r)
        BY <1>2, <2>1 DEF OneGoesOn
    <2>5. QED
        BY <1>4, <2>3, <2>4
<1>5. QED
    BY <1>3, <1>4

\* A request does a step that is neither a write nor a look at the table nor its
\* audit entry, and keeps its value.
LEMMA RestGoesOn ==
    ASSUME FlagInv, NEW r \in Requests, NEW step, At(r, step), step \notin {"write", "find", "audit"},
           GoOn(r, Rest(r), request[r].value), UNCHANGED <<row, settled, changes, audited, lost>>
    PROVE  InFlightPart' /\ ChangesPart'
<1> DEFINE q == request[r]
           rest == Tail(request[r].todo)
           new == request'[r]
<1>1. q # Idle /\ RequestFits(q) /\ q \in FlagRequest /\ Starts(q.todo, step)
    BY TypedFlag
<1>2. q.value \in Value \cup {"none"} /\ q.op \in Ops /\ StepsFit(q.todo, q.op)
    BY <1>1 DEF RequestFits, FlagRequest
<1>3. /\ rest = <<>> \/ StepsFit(rest, q.op)
      /\ rest # <<>> => Head(rest) # "write" /\ Head(rest) # "get-redis"
      /\ rest # <<>> /\ Head(rest) = "find" => Head(q.todo) = "get-redis"
      /\ q.op \in FlagWrites => (rest = <<>> <=> Head(q.todo) = "audit")
      /\ Refills(rest) => Refills(q.todo)
    BY <1>2, RestFits
<1>4. /\ OneGoesOn(r)
      /\ rest = <<>> => new = Idle
      /\ rest # <<>> => /\ new \in FlagRequest /\ new.todo = rest /\ new.value = q.value
                        /\ new.op = q.op /\ new.proc = q.proc /\ new.age = q.age
    <2>1. GoOn(r, rest, q.value)
        BY DEF Rest
    <2> HIDE DEF rest
    <2>2. rest = <<>> \/ StepsFit(rest, request[r].op)
        BY <1>3
    <2>3. request[r] # Idle /\ q.value \in Value \cup {"none"}
        BY <1>1, <1>2
    <2>4. QED
        BY <2>1, <2>2, <2>3, FlagGoesOn
<1>5. Head(q.todo) = step /\ q.todo # <<>>
    BY <1>1 DEF Starts
<1>6. TimeGoesOn
    BY DEF TimeGoesOn
<1>7. ~ Carries(Idle) /\ ~ Owes(Idle) /\ Idle.todo = <<>>
    BY TypedFlag
<1> HIDE DEF q, rest, new
<1>8. rest # <<>> /\ Carries(new) => Carries(q) \/ (q.op = "read" /\ step = "get-redis")
    <2>1. step = "get-redis" => q.op = "read"
        <3>1. q.todo \in Seq(Steps)
            BY <1>1 DEF FlagRequest
        <3>2. 1 \in 1..Len(q.todo) /\ Head(q.todo) = q.todo[1]
            BY <1>5, <3>1
        <3>3. QED
            BY <1>2, <1>5, <3>2 DEF StepsFit, StepFits
    <2>2. QED
        BY <1>5, <2>1 DEF Carries, Starts
<1>9. rest # <<>> /\ new.op = "read" /\ ~ Carries(new) => new.value = "none"
    <2>1. SUFFICES ASSUME rest # <<>>, new.op = "read", ~ Carries(new) PROVE new.value = "none"
        OBVIOUS
    <2>2. Head(rest) = "find" /\ Head(q.todo) = "get-redis"
        BY <1>3, <1>4, <2>1 DEF Carries, Starts
    <2>3. ~ Carries(q)
        BY <1>5, <2>2 DEF Carries, Starts
    <2>4. QED
        BY <1>1, <1>4, <2>1, <2>3 DEF RequestFits
<1>10. new = Idle \/ RequestFits(new)
    BY <1>1, <1>3, <1>4, <1>9 DEF RequestFits
<1>11. ValueTold(new, settled', Effective')
    <2>1. ValueTold(q, settled, Effective) /\ Effective' = Effective /\ settled' = settled
        BY DEF q, FlagInv, InFlightPart, Effective
    <2>2. CASE new = Idle
        BY <1>7, <2>2 DEF ValueTold
    <2>3. CASE rest # <<>> /\ Carries(q)
        BY <1>3, <1>4, <2>1, <2>3 DEF ValueTold
    <2>4. CASE rest # <<>> /\ ~ Carries(q)
        <3>1. Carries(new) => new.value = "none"
            BY <1>1, <1>4, <1>8, <2>4 DEF RequestFits
        <3>2. QED
            BY <3>1 DEF ValueTold, Old
    <2>5. QED
        BY <1>4, <2>2, <2>3, <2>4
<1>12. Owes(new) <=> Owes(q)
    <2>1. CASE rest = <<>>
        <3>1. q.op \notin FlagWrites
            BY <1>3, <1>5, <2>1
        <3>2. QED
            BY <1>4, <1>7, <2>1, <3>1 DEF Owes
    <2>2. CASE rest # <<>>
        BY <1>3, <1>4, <1>5, <2>2 DEF Owes, Starts
    <2>3. QED
        BY <2>1, <2>2
<1>13. ~ Starts(new.todo, "write")
    BY <1>3, <1>4, <1>7 DEF Starts
<1>14. InFlightPart'
    BY <1>4, <1>6, <1>10, <1>11, InFlightStays DEF new
<1>15. ChangesPart'
    BY <1>4, <1>12, <1>13, ChangesStay DEF new, q
<1>16. QED
    BY <1>14, <1>15

-----------------------------------------------------------------------------
(* Each step keeps the invariant *)

LEMMA AuditPaid ==
    ASSUME FlagInv, NEW r \in Requests, OneGoesOn(r), Owes(request[r]), ~ Owes(request'[r]),
           ~ Starts(request'[r].todo, "write"), changes' = changes,
           (audited' = audited + 1 /\ lost' = lost) \/ (audited' = audited /\ lost' = lost + 1)
    PROVE  ChangesPart'
<1>1. Owing' = Owing \ {r} /\ r \in Owing
    BY DEF Owing, OwesAudit, Owes, At, Starts, FlagWrites, OneGoesOn
<1>2. Writing' \subseteq Writing
    BY DEF Writing, At, Starts, OneGoesOn
<1>3. IsFiniteSet(Writing) /\ IsFiniteSet(Owing)
    BY FS_Subset, FlagAssumption DEF Writing, Owing
<1>4. Cardinality(Writing') \in Nat /\ Cardinality(Writing) \in Nat
      /\ Cardinality(Writing') <= Cardinality(Writing)
    BY <1>2, <1>3, PartCounted
<1>5. /\ Cardinality(Owing) \in Nat /\ Cardinality(Owing') \in Nat
      /\ Cardinality(Owing') = Cardinality(Owing) - 1
    BY <1>1, <1>3, ElementRemoved
<1>6. QED
    BY <1>4, <1>5, FlagAssumption DEF FlagInv, ChangesPart

LEMMA FlagBegins ==
    ASSUME FlagInv, NEW r \in Requests, NEW p \in Processes, NEW op \in Ops,
           NEW value \in Value \cup {"none"}, Begin(r, p, op, value),
           op = "read" => value = "none", op = "create" => value \in Value,
           op \in FlagWrites => changes + Cardinality(Writing) < MaxChanges
    PROVE  FlagInv'
<1> DEFINE new == [op |-> op, proc |-> p, todo |-> Program[op], value |-> value, age |-> 0]
<1>1. /\ StepsFit(Program[op], op)
      /\ op = "read" => Starts(Program[op], "get-redis") \/ Starts(Program[op], "find")
      /\ op \in FlagWrites => Starts(Program[op], "write")
    BY FlagPrograms
<1>2. request[r] = Idle /\ request' = [request EXCEPT ![r] = new]
      /\ UNCHANGED <<row, memory, redis, changes, audited, lost, settled, faults>>
    BY TypedFlag DEF Begin
<1>3. OneGoesOn(r) /\ request'[r] = new
    BY <1>2 DEF FlagInv, InFlightPart, OneGoesOn
<1>4. op \in FlagWrites \/ op = "read"
    BY DEF Ops, FlagWrites
<1>5. new.op = op /\ new.todo = Program[op] /\ new.value = value
    OBVIOUS
<1>6. ~ Carries(new) /\ ~ Owes(new)
    BY <1>1, <1>4, <1>5 DEF Carries, Owes, FlagWrites
<1>7. new \in FlagRequest
    <2>1. Program[op] \in Seq(Steps) /\ 0 \in 0..OpTicks
        BY <1>1, FlagBounds DEF StepsFit
    <2>2. QED
        BY <2>1 DEF FlagRequest
<1> HIDE DEF new
<1>8. RequestFits(new) /\ ValueTold(new, settled', Effective')
    BY <1>1, <1>5, <1>6, <1>7 DEF RequestFits, ValueTold
<1>9. TimeGoesOn
    BY <1>2 DEF TimeGoesOn
<1>10. InFlightPart' /\ CachePart'
    BY <1>2, <1>3, <1>8, <1>9, InFlightStays, CachesStay
<1>11. ~ Owes(request[r]) /\ ~ Starts(request[r].todo, "write")
    BY <1>2, TypedFlag DEF Starts
<1>12. ChangesPart'
    <2>1. CASE op = "read"
        <3>1. ~ Starts(new.todo, "write")
            BY <1>1, <1>5, <2>1 DEF Starts
        <3>2. QED
            BY <1>2, <1>3, <1>6, <1>11, <3>1, ChangesStay
    <2>2. CASE op \in FlagWrites
        <3>1. Owing' = Owing
            BY <1>3, <1>6, <1>11 DEF Owing, OwesAudit, Owes, At, Starts, FlagWrites, OneGoesOn
        <3>2. Writing' \subseteq Writing \cup {r}
            BY <1>3 DEF Writing, At, Starts, OneGoesOn
        <3>3. IsFiniteSet(Writing)
            BY FS_Subset, FlagAssumption DEF Writing
        <3>4. Cardinality(Writing') \in Nat /\ Cardinality(Writing) \in Nat
              /\ Cardinality(Writing') <= Cardinality(Writing) + 1
            BY <3>2, <3>3, OneMoreCounted
        <3>5. QED
            BY <1>2, <2>2, <3>1, <3>4, FlagAssumption DEF FlagInv, ChangesPart
    <2>3. QED
        BY <1>4, <2>1, <2>2
<1>13. QED
    BY <1>2, <1>10, <1>12 DEF FlagInv

\* A request ends without an audit entry to be written.
LEMMA FlagEnds ==
    ASSUME FlagInv, NEW r \in Requests, request[r] # Idle, ~ Owes(request[r]), GoOn(r, <<>>, "none"),
           UNCHANGED <<row, memory, redis, changes, audited, lost, settled>>
    PROVE  ChangesPart' /\ CachePart' /\ InFlightPart'
<1>1. OneGoesOn(r) /\ request'[r] = Idle
    BY FlagGoesOn
<1>2. TimeGoesOn
    BY DEF TimeGoesOn
<1>3. ~ Carries(Idle) /\ ~ Owes(Idle) /\ Idle.todo = <<>>
    BY TypedFlag
<1>4. ValueTold(request'[r], settled', Effective') /\ ~ Starts(request'[r].todo, "write")
    BY <1>1, <1>3 DEF ValueTold, Starts
<1>5. QED
    BY <1>1, <1>2, <1>3, <1>4, InFlightStays, CachesStay, ChangesStay

LEMMA FlagWriteKeeps ==
    ASSUME FlagInv, NEW r \in Requests, Write(r)
    PROVE  FlagInv'
<1> DEFINE q == request[r]
           value == IF request[r].value = "none" THEN row ELSE request[r].value
           rest == Tail(request[r].todo)
           new == request'[r]
           kept == IF request[r].op = "delete" THEN "none" ELSE value
<1>1. q # Idle /\ RequestFits(q) /\ q \in FlagRequest /\ Starts(q.todo, "write")
    BY TypedFlag DEF Write
<1>2. q.op \in FlagWrites /\ ~ Owes(q)
    <2>1. q.todo \in Seq(Steps) /\ q.todo # <<>> /\ StepsFit(q.todo, q.op)
        BY <1>1 DEF RequestFits, StepsFit
    <2>2. 1 \in 1..Len(q.todo) /\ q.todo[1] = "write"
        BY <1>1, <2>1 DEF Starts
    <2>3. QED
        BY <1>1, <2>1, <2>2 DEF StepsFit, StepFits, Owes
<1>3. UNCHANGED <<memory, redis, audited, lost, faults>>
    BY DEF Write
<1>4. CASE (q.op = "create") # (row = "absent")
    <2>1. GoOn(r, <<>>, "none") /\ UNCHANGED <<row, changes, settled>>
        BY <1>4 DEF Write
    <2>2. QED
        BY <1>1, <1>2, <1>3, <2>1, FlagEnds DEF FlagInv
<1>5. CASE (q.op = "create") = (row = "absent")
    <2>1. /\ row' = IF q.op = "delete" THEN "absent" ELSE value
          /\ changes' = changes + 1
          /\ settled' = IF row' = row THEN settled ELSE 0
          /\ GoOn(r, rest, kept)
        BY <1>5 DEF Write, Rest
    <2>2. q.op # "delete" => value \in Value
        <3>1. row \in Value \cup {"absent"} /\ "none" \notin Value
            BY FlagBounds DEF FlagInv, CachePart
        <3>2. q.value \in Value \cup {"none"} /\ (q.op = "create" => q.value \in Value)
            BY <1>1 DEF RequestFits, FlagRequest
        <3>3. q.value = "none" => row # "absent"
            BY <1>5, <3>1, <3>2
        <3>4. QED
            BY <3>1, <3>2, <3>3
    <2>3. kept \in Value \cup {"none"} /\ (q.op = "create" => kept \in Value)
        BY <2>2
    <2>4. /\ rest # <<>> /\ StepsFit(rest, q.op) /\ Head(rest) # "write"
        <3>1. StepsFit(q.todo, q.op) /\ Head(q.todo) = "write"
            BY <1>1 DEF RequestFits, Starts
        <3>2. QED
            BY <1>2, <3>1, RestFits
    <2>5. /\ OneGoesOn(r) /\ new \in FlagRequest /\ new.todo = rest /\ new.value = kept /\ new.op = q.op
        <3>1. rest = <<>> \/ StepsFit(rest, request[r].op)
            BY <2>4
        <3>2. request[r] # Idle
            BY <1>1
        <3> HIDE DEF rest, kept
        <3>3. QED
            BY <2>1, <2>3, <2>4, <3>1, <3>2, FlagGoesOn
    <2>6. TimeGoesOn
        BY <2>1, <2>2 DEF TimeGoesOn
    <2>7. ~ Old(kept, Effective')
        <3>1. "absent" \notin Value
            BY DEF Value
        <3>2. QED
            BY <2>1, <2>2, <3>1 DEF Old, Effective
    <2>8. RequestFits(new)
        BY <1>2, <2>3, <2>4, <2>5 DEF RequestFits, FlagWrites
    <2>9. ValueTold(new, settled', Effective')
        BY <2>5, <2>7 DEF ValueTold
    <2>10. Owes(new)
        BY <1>2, <2>4, <2>5 DEF Owes, Starts
    <2>11. InFlightPart' /\ CachePart'
        <3> HIDE DEF new
        <3>1. new = request'[r]
            BY DEF new
        <3>2. QED
            BY <1>3, <2>5, <2>6, <2>8, <2>9, <3>1, InFlightStays, CachesStay
    <2>12. ChangesPart'
        <3>1. Owing' = Owing \cup {r} /\ r \notin Owing
            BY <1>2, <2>5, <2>10 DEF Owing, OwesAudit, Owes, At, Starts, FlagWrites, OneGoesOn
        <3>2. Writing' = Writing \ {r} /\ r \in Writing
            BY <1>1, <2>4, <2>5 DEF Writing, At, Starts, OneGoesOn
        <3>3. IsFiniteSet(Writing) /\ IsFiniteSet(Owing)
            BY FS_Subset, FlagAssumption DEF Writing, Owing
        <3>4. /\ Cardinality(Owing) \in Nat /\ Cardinality(Owing') = Cardinality(Owing) + 1
            BY <3>1, <3>3, ElementAdded
        <3>5. /\ Cardinality(Writing) \in Nat /\ Cardinality(Writing') \in Nat
              /\ Cardinality(Writing') = Cardinality(Writing) - 1
            BY <3>2, <3>3, ElementRemoved
        <3>6. QED
            BY <1>3, <2>1, <3>4, <3>5, FlagAssumption DEF FlagInv, ChangesPart
    <2>13. QED
        BY <1>3, <2>11, <2>12 DEF FlagInv
<1>6. QED
    BY <1>4, <1>5

\* A read goes on with what it found.
LEMMA ReadGoesOn ==
    ASSUME FlagInv, NEW r \in Requests, request[r] # Idle, request[r].op = "read", NEW todo,
           NEW value \in Value \cup {"none"}, GoOn(r, todo, value),
           todo = <<>> \/ (StepsFit(todo, "read") /\ Head(todo) \notin {"get-redis", "find", "write"}),
           Old(value, Effective) => settled <= OpTicks + TTL - 1 /\ ~ Refills(todo),
           UNCHANGED <<row, memory, redis, changes, audited, lost, settled, faults>>
    PROVE  FlagInv'
<1>1. /\ OneGoesOn(r)
      /\ todo = <<>> => request'[r] = Idle
      /\ todo # <<>> => /\ request'[r] \in FlagRequest
                        /\ request'[r].todo = todo /\ request'[r].value = value
                        /\ request'[r].op = "read"
    BY FlagGoesOn
<1>2. ~ Carries(Idle) /\ ~ Owes(Idle) /\ Idle.todo = <<>>
    BY TypedFlag
<1>3. todo # <<>> => Carries(request'[r]) /\ RequestFits(request'[r])
    BY <1>1 DEF RequestFits, Carries, Starts
<1>4. ~ Owes(request'[r]) /\ ~ Owes(request[r]) /\ ~ Starts(request'[r].todo, "write")
    BY <1>1, <1>2, <1>3 DEF Owes, FlagWrites, Starts
<1>5. ValueTold(request'[r], settled', Effective')
    <2>1. CASE todo = <<>>
        BY <1>1, <1>2, <2>1 DEF ValueTold
    <2>2. CASE todo # <<>>
        <3>1. request'[r].age \in Nat /\ OpTicks + TTL - 1 \in Nat /\ settled \in Nat
            BY <1>1, <2>2, FlagBounds
        <3>2. Effective' = Effective
            BY DEF Effective
        <3>3. QED
            BY <1>1, <2>2, <3>1, <3>2 DEF ValueTold
    <2>3. QED
        BY <2>1, <2>2
<1>6. TimeGoesOn
    BY DEF TimeGoesOn
<1>7. InFlightPart' /\ CachePart' /\ ChangesPart'
    BY <1>1, <1>3, <1>4, <1>5, <1>6, InFlightStays, CachesStay, ChangesStay
<1>8. QED
    BY <1>7 DEF FlagInv

LEMMA FlagFindKeeps ==
    ASSUME FlagInv, NEW r \in Requests, Find(r)
    PROVE  FlagInv'
<1> DEFINE rest == Tail(request[r].todo)
<1>1. request[r] # Idle /\ RequestFits(request[r]) /\ Starts(request[r].todo, "find")
    BY TypedFlag DEF Find
<1>2. StepsFit(request[r].todo, request[r].op) /\ Head(request[r].todo) = "find"
    BY <1>1 DEF RequestFits, Starts
<1>3. request[r].op = "read"
    <2>1. request[r].todo \in Seq(Steps) /\ request[r].todo # <<>>
        BY <1>2 DEF StepsFit
    <2>2. 1 \in 1..Len(request[r].todo) /\ request[r].todo[1] = "find"
        BY <1>2, <2>1
    <2>3. QED
        BY <1>2, <2>2 DEF StepsFit, StepFits
<1>4. rest = <<>> \/ (StepsFit(rest, "read") /\ Head(rest) \notin {"get-redis", "find", "write"})
    BY <1>2, <1>3, RestFits
<1>5. GoOn(r, rest, Effective) /\ UNCHANGED <<row, memory, redis, changes, audited, lost, settled, faults>>
    BY DEF Find, Rest
<1>6. Effective \in Value \cup {"none"} /\ ~ Old(Effective, Effective)
    BY FlagBounds DEF Old
<1> HIDE DEF rest
<1>7. QED
    BY <1>1, <1>3, <1>4, <1>5, <1>6, ReadGoesOn

LEMMA GetRedisKeeps ==
    ASSUME FlagInv, NEW r \in Requests, GetRedis(r)
    PROVE  FlagInv'
<1>1. request[r] # Idle /\ RequestFits(request[r]) /\ Starts(request[r].todo, "get-redis")
      /\ At(r, "get-redis")
    BY TypedFlag DEF GetRedis
<1>2. UNCHANGED <<row, memory, redis, changes, audited, lost, settled, faults>>
    BY DEF GetRedis
<1>3. request[r].op = "read" /\ request[r].value = "none"
    <2>1. request[r].todo \in Seq(Steps) /\ request[r].todo # <<>> /\ StepsFit(request[r].todo, request[r].op)
        BY <1>1 DEF RequestFits, StepsFit
    <2>2. 1 \in 1..Len(request[r].todo) /\ request[r].todo[1] = "get-redis"
        BY <1>1, <2>1 DEF Starts
    <2>3. ~ Carries(request[r])
        BY <1>1 DEF Carries
    <2>4. QED
        BY <1>1, <2>1, <2>2, <2>3 DEF StepsFit, StepFits, RequestFits
<1>4. CASE redis.value = "none"
    <2>1. GoOn(r, Rest(r), request[r].value)
        BY <1>3, <1>4 DEF GetRedis
    <2>2. InFlightPart' /\ ChangesPart'
        BY <1>1, <1>2, <2>1, RestGoesOn
    <2>3. CachePart'
        BY <1>2, CachesStay DEF TimeGoesOn
    <2>4. QED
        BY <1>2, <2>2, <2>3 DEF FlagInv
<1>5. CASE redis.value # "none"
    <2> DEFINE todo == <<"set-memory">>
    <2>1. GoOn(r, todo, redis.value)
        BY <1>5 DEF GetRedis
    <2>2. /\ redis \in Entry /\ redis.left >= 1 /\ redis.left \in Nat
          /\ RedisTold(redis, settled, Effective)
        BY <1>5, FlagBounds DEF FlagInv, CachePart, EntryFits
    <2>3. redis.value \in Value \cup {"none"}
        BY <2>2 DEF Entry
    <2>4. /\ todo \in Seq(Steps) /\ todo # <<>> /\ Len(todo) = 1 /\ todo[1] = "set-memory"
          /\ Head(todo) = "set-memory"
        BY DEF Steps
    <2> HIDE DEF todo
    <2>5. StepsFit(todo, "read")
        <3>1. ASSUME NEW i \in 1..Len(todo) PROVE StepFits(todo, "read", i)
            <4>1. i = 1
                BY <2>4
            <4>2. QED
                BY <2>4, <4>1 DEF StepFits
        <3>2. "read" \notin FlagWrites
            BY DEF FlagWrites
        <3>3. QED
            BY <2>4, <3>1, <3>2 DEF StepsFit
    <2>6. ~ Refills(todo)
        <3>1. \A i \in 1..Len(todo) : todo[i] = "set-memory"
            BY <2>4
        <3>2. QED
            BY <3>1 DEF Refills
    <2>7. Old(redis.value, Effective) => settled <= OpTicks + TTL - 1
        BY <2>2, FlagBounds DEF RedisTold
    <2>8. QED
        BY <1>1, <1>2, <1>3, <2>1, <2>3, <2>4, <2>5, <2>6, <2>7, ReadGoesOn
<1>6. QED
    BY <1>4, <1>5

\* A cache is filled with the value that a request has found.
LEMMA SetMemoryKeeps ==
    ASSUME FlagInv, NEW r \in Requests, SetMemory(r)
    PROVE  FlagInv'
<1> DEFINE q == request[r]
           entry == Live(request[r].value)
<1>1. q # Idle /\ q \in FlagRequest /\ Starts(q.todo, "set-memory") /\ At(r, "set-memory")
    BY TypedFlag DEF SetMemory
<1>2. /\ GoOn(r, Rest(r), request[r].value) /\ memory' = [memory EXCEPT ![q.proc] = entry]
      /\ UNCHANGED <<row, redis, changes, audited, lost, settled, faults>>
    BY DEF SetMemory
<1>3. InFlightPart' /\ ChangesPart'
    BY <1>1, <1>2, RestGoesOn
<1>4. Carries(q)
    BY <1>1 DEF Carries, Starts
<1>5. entry \in Entry /\ entry.left = TTL /\ entry.value = q.value
    BY <1>1, FlagBounds DEF Live, Entry, FlagRequest
<1>6. MemoryTold(entry, settled, Effective)
    <2>1. ValueTold(q, settled, Effective)
        BY DEF FlagInv, InFlightPart
    <2>2. q.age \in Nat /\ q.age <= OpTicks /\ OpTicks \in Nat /\ TTL \in Nat /\ settled \in Nat
        BY <1>1, FlagBounds
    <2>3. QED
        BY <1>4, <1>5, <2>1, <2>2 DEF ValueTold, MemoryTold
<1>7. EntryFits(entry)
    BY <1>5, FlagBounds DEF EntryFits
<1>8. Effective' = Effective /\ settled' = settled /\ CachePart
    BY <1>2 DEF Effective, FlagInv
<1> HIDE DEF entry
<1>9. \A p \in Processes : memory'[p] = memory[p] \/ memory'[p] = entry
    BY <1>2, <1>8 DEF CachePart
<1>10. memory' \in [Processes -> Entry]
    BY <1>2, <1>5, <1>8 DEF CachePart
<1>11. CachePart'
    BY <1>2, <1>6, <1>7, <1>8, <1>9, <1>10 DEF CachePart
<1>12. QED
    BY <1>2, <1>3, <1>11 DEF FlagInv

LEMMA SetRedisKeeps ==
    ASSUME FlagInv, NEW r \in Requests, SetRedis(r)
    PROVE  FlagInv'
<1> DEFINE q == request[r]
           entry == Live(request[r].value)
<1>1. q # Idle /\ q \in FlagRequest /\ RequestFits(q) /\ Starts(q.todo, "set-redis") /\ At(r, "set-redis")
    BY TypedFlag DEF SetRedis
<1>2. /\ GoOn(r, Rest(r), request[r].value) /\ redis' = entry
      /\ UNCHANGED <<row, memory, changes, audited, lost, settled, faults>>
    BY DEF SetRedis
<1>3. InFlightPart' /\ ChangesPart'
    BY <1>1, <1>2, RestGoesOn
<1>4. Carries(q) /\ Refills(q.todo)
    <2>1. q.todo \in Seq(Steps) /\ q.todo # <<>>
        BY <1>1 DEF RequestFits, StepsFit
    <2>2. 1 \in 1..Len(q.todo) /\ q.todo[1] = "set-redis"
        BY <1>1, <2>1 DEF Starts
    <2>3. QED
        BY <1>1, <2>2 DEF Carries, Starts, Refills
<1>5. entry \in Entry /\ entry.left = TTL /\ entry.value = q.value
    BY <1>1, FlagBounds DEF Live, Entry, FlagRequest
<1>6. RedisTold(entry, settled, Effective)
    <2>1. ValueTold(q, settled, Effective)
        BY DEF FlagInv, InFlightPart
    <2>2. q.age \in Nat /\ q.age <= OpTicks /\ OpTicks \in Nat /\ TTL \in Nat /\ settled \in Nat
        BY <1>1, FlagBounds
    <2>3. QED
        BY <1>4, <1>5, <2>1, <2>2 DEF ValueTold, RedisTold
<1>7. EntryFits(entry)
    BY <1>5, FlagBounds DEF EntryFits
<1>8. Effective' = Effective /\ settled' = settled /\ CachePart
    BY <1>2 DEF Effective, FlagInv
<1> HIDE DEF entry
<1>9. CachePart'
    BY <1>2, <1>6, <1>7, <1>8 DEF CachePart
<1>10. QED
    BY <1>2, <1>3, <1>9 DEF FlagInv

LEMMA NoEntryFits ==
    ASSUME FlagInv, NEW ticks, NEW effective
    PROVE  EntryFits(NoEntry) /\ RedisTold(NoEntry, ticks, effective) /\ MemoryTold(NoEntry, ticks, effective)
<1>1. NoEntry.value = "none" /\ NoEntry \in Entry
    <2>1. 0 \in 0..TTL
        BY FlagBounds
    <2>2. QED
        BY <2>1 DEF NoEntry, Entry
<1>2. QED
    BY <1>1 DEF EntryFits, RedisTold, MemoryTold, Old

LEMMA ForgottenMemory ==
    ASSUME FlagInv, NEW p, memory' = [memory EXCEPT ![p] = NoEntry], UNCHANGED <<row, redis, settled>>
    PROVE  CachePart'
<1>1. Effective' = Effective /\ settled' = settled /\ CachePart
    BY DEF Effective, FlagInv
<1>2. \A o \in Processes : memory'[o] = memory[o] \/ memory'[o] = NoEntry
    BY <1>1 DEF CachePart
<1>3. NoEntry \in Entry
    BY NoEntryFits DEF EntryFits
<1>4. memory' \in [Processes -> Entry]
    BY <1>1, <1>3 DEF CachePart
<1>5. \A o \in Processes : EntryFits(memory'[o]) /\ MemoryTold(memory'[o], settled', Effective')
    BY <1>1, <1>2, NoEntryFits DEF CachePart
<1>6. QED
    BY <1>1, <1>4, <1>5 DEF CachePart

LEMMA ForgetKeeps ==
    ASSUME FlagInv, NEW r \in Requests, Forget(r)
    PROVE  FlagInv'
<1>1. /\ At(r, "forget") /\ GoOn(r, Rest(r), request[r].value)
      /\ memory' = [memory EXCEPT ![request[r].proc] = NoEntry]
      /\ UNCHANGED <<row, redis, changes, audited, lost, settled, faults>>
    BY DEF Forget
<1>2. InFlightPart' /\ ChangesPart'
    BY <1>1, RestGoesOn
<1>3. CachePart'
    BY <1>1, ForgottenMemory
<1>4. QED
    BY <1>1, <1>2, <1>3 DEF FlagInv

LEMMA DeleteRedisKeeps ==
    ASSUME FlagInv, NEW r \in Requests, DeleteRedis(r)
    PROVE  FlagInv'
<1>1. /\ At(r, "delete-redis") /\ GoOn(r, Rest(r), request[r].value) /\ redis' = NoEntry
      /\ UNCHANGED <<row, memory, changes, audited, lost, settled, faults>>
    BY DEF DeleteRedis
<1>2. InFlightPart' /\ ChangesPart'
    BY <1>1, RestGoesOn
<1>3. Effective' = Effective /\ settled' = settled /\ CachePart
    BY <1>1 DEF Effective, FlagInv
<1>4. CachePart'
    BY <1>1, <1>3, NoEntryFits DEF CachePart
<1>5. QED
    BY <1>1, <1>2, <1>4 DEF FlagInv

LEMMA RedisFailsKeeps ==
    ASSUME FlagInv, NEW r \in Requests, RedisFails(r)
    PROVE  FlagInv'
<1>1. PICK step \in RedisSteps : At(r, step)
    BY DEF RedisFails
<1>2. /\ GoOn(r, Rest(r), request[r].value) /\ faults' = faults + 1 /\ faults < MaxFaults
      /\ UNCHANGED <<row, memory, redis, changes, audited, lost, settled>>
    BY DEF RedisFails, Fault
<1>3. InFlightPart' /\ ChangesPart'
    BY <1>1, <1>2, RestGoesOn DEF RedisSteps
<1>4. CachePart'
    BY <1>2, CachesStay DEF TimeGoesOn
<1>5. faults' \in 0..MaxFaults
    BY <1>2, FlagAssumption DEF FlagInv
<1>6. QED
    BY <1>3, <1>4, <1>5 DEF FlagInv

\* At its audit entry a change has nothing else to do.
LEMMA AtAudit ==
    ASSUME FlagInv, NEW r \in Requests, At(r, "audit")
    PROVE  /\ request[r] # Idle /\ request[r].op \in FlagWrites /\ Owes(request[r])
           /\ Rest(r) = <<>> /\ request[r].value \in Value \cup {"none"}
<1>1. request[r] # Idle /\ RequestFits(request[r]) /\ request[r] \in FlagRequest
      /\ Starts(request[r].todo, "audit")
    BY TypedFlag
<1>2. StepsFit(request[r].todo, request[r].op) /\ Head(request[r].todo) = "audit"
    BY <1>1 DEF RequestFits, Starts
<1>3. request[r].op \in FlagWrites
    <2>1. request[r].todo \in Seq(Steps) /\ request[r].todo # <<>>
        BY <1>2 DEF StepsFit
    <2>2. 1 \in 1..Len(request[r].todo) /\ request[r].todo[1] = "audit"
        BY <1>2, <2>1
    <2>3. QED
        BY <1>2, <2>2 DEF StepsFit, StepFits
<1>4. Rest(r) = <<>>
    BY <1>2, <1>3, RestFits DEF Rest
<1>5. QED
    BY <1>1, <1>2, <1>3, <1>4 DEF Owes, Starts, FlagRequest

LEMMA FlagAuditKeeps ==
    ASSUME FlagInv, NEW r \in Requests, Audit(r)
    PROVE  FlagInv'
<1>1. /\ request[r] # Idle /\ Owes(request[r]) /\ Rest(r) = <<>>
      /\ request[r].value \in Value \cup {"none"}
    BY AtAudit DEF Audit
<1>2. /\ GoOn(r, <<>>, request[r].value) /\ audited' = audited + 1
      /\ UNCHANGED <<row, memory, redis, changes, lost, settled, faults>>
    BY <1>1 DEF Audit
<1>3. OneGoesOn(r) /\ request'[r] = Idle
    BY <1>1, <1>2, FlagGoesOn
<1>4. ~ Carries(Idle) /\ ~ Owes(Idle) /\ Idle.todo = <<>>
    BY TypedFlag
<1>5. ~ Owes(request'[r]) /\ ~ Starts(request'[r].todo, "write") /\ ValueTold(request'[r], settled', Effective')
    BY <1>3, <1>4 DEF Starts, ValueTold
<1>6. InFlightPart' /\ CachePart' /\ ChangesPart'
    BY <1>1, <1>2, <1>3, <1>5, InFlightStays, CachesStay, AuditPaid DEF TimeGoesOn
<1>7. QED
    BY <1>2, <1>6 DEF FlagInv

LEMMA FlagStatementFailsKeeps ==
    ASSUME FlagInv, NEW r \in Requests, StatementFails(r)
    PROVE  FlagInv'
<1>1. /\ GoOn(r, <<>>, "none") /\ faults' = faults + 1 /\ faults < MaxFaults
      /\ lost' = IF OwesAudit(r) THEN lost + 1 ELSE lost
      /\ UNCHANGED <<row, memory, redis, changes, audited, settled>>
    BY DEF StatementFails, Fault
<1>2. request[r] # Idle /\ (OwesAudit(r) <=> Owes(request[r]))
    BY TypedFlag DEF StatementFails
<1>3. faults' \in 0..MaxFaults
    BY <1>1, FlagAssumption DEF FlagInv
<1>4. CASE ~ Owes(request[r])
    <2>1. UNCHANGED <<row, memory, redis, changes, audited, lost, settled>>
        BY <1>1, <1>2, <1>4
    <2>2. QED
        BY <1>1, <1>2, <1>3, <1>4, <2>1, FlagEnds DEF FlagInv
<1>5. CASE Owes(request[r])
    <2>1. OneGoesOn(r) /\ request'[r] = Idle
        BY <1>1, <1>2, FlagGoesOn
    <2>2. ~ Carries(Idle) /\ ~ Owes(Idle) /\ Idle.todo = <<>>
        BY TypedFlag
    <2>3. ~ Owes(request'[r]) /\ ~ Starts(request'[r].todo, "write")
          /\ ValueTold(request'[r], settled', Effective')
        BY <2>1, <2>2 DEF Starts, ValueTold
    <2>4. lost' = lost + 1
        BY <1>1, <1>2, <1>5
    <2>5. InFlightPart' /\ CachePart' /\ ChangesPart'
        BY <1>1, <1>5, <2>1, <2>3, <2>4, InFlightStays, CachesStay, AuditPaid DEF TimeGoesOn
    <2>6. QED
        BY <1>3, <2>5 DEF FlagInv
<1>6. QED
    BY <1>4, <1>5

LEMMA CrashKeeps ==
    ASSUME FlagInv, NEW p \in Processes, Crash(p)
    PROVE  FlagInv'
<1> DEFINE D == {r \in Requests : request[r].proc = p /\ OwesAudit(r)}
<1>1. /\ faults' = faults + 1 /\ faults < MaxFaults /\ memory' = [memory EXCEPT ![p] = NoEntry]
      /\ request' = [r \in Requests |-> IF request[r].proc = p THEN Idle ELSE request[r]]
      /\ lost' = lost + Cardinality(D)
      /\ UNCHANGED <<row, redis, changes, audited, settled>>
    BY DEF Crash, Fault
<1>2. CachePart'
    BY <1>1, ForgottenMemory
<1>3. faults' \in 0..MaxFaults
    BY <1>1, FlagAssumption DEF FlagInv
<1>4. ~ Carries(Idle) /\ Idle.todo = <<>> /\ Idle.op = "none"
    BY DEF Idle, Carries
<1>5. \A r \in Requests : request'[r] = request[r] \/ request'[r] = Idle
    BY <1>1
<1>6. InFlightPart'
    <2>1. Effective' = Effective
        BY <1>1 DEF Effective
    <2>2. \A r \in Requests : ValueTold(request'[r], settled', Effective')
        BY <1>1, <1>4, <1>5, <2>1 DEF FlagInv, InFlightPart, ValueTold
    <2>3. DOMAIN request' = Requests
        BY <1>1
    <2>4. \A r \in Requests : request'[r] = Idle \/ RequestFits(request'[r])
        BY <1>5 DEF FlagInv, InFlightPart
    <2>5. QED
        BY <2>2, <2>3, <2>4 DEF InFlightPart
<1>7. ChangesPart'
    <2>1. \A r \in Requests : request[r].proc = p => ~ OwesAudit(r)' /\ ~ At(r, "write")'
        BY <1>1, <1>4 DEF OwesAudit, At
    <2>2. \A r \in Requests : request[r].proc # p => (OwesAudit(r)' <=> OwesAudit(r)) /\ (At(r, "write")' <=> At(r, "write"))
        BY <1>1 DEF OwesAudit, At
    <2>3. Owing' = Owing \ D /\ D \subseteq Owing
        BY <2>1, <2>2 DEF Owing
    <2>4. Writing' \subseteq Writing
        BY <2>1, <2>2 DEF Writing
    <2>5. IsFiniteSet(Writing) /\ IsFiniteSet(Owing)
        BY FS_Subset, FlagAssumption DEF Writing, Owing
    <2>6. Cardinality(Writing') \in Nat /\ Cardinality(Writing) \in Nat
          /\ Cardinality(Writing') <= Cardinality(Writing)
        BY <2>4, <2>5, PartCounted
    <2> HIDE DEF D
    <2>7. IsFiniteSet(D) /\ IsFiniteSet(Owing \ D) /\ D \cap (Owing \ D) = {} /\ Owing = D \cup (Owing \ D)
        BY <2>3, <2>5, PartCounted
    <2>8. /\ Cardinality(D) \in Nat /\ Cardinality(Owing \ D) \in Nat
          /\ Cardinality(Owing) = Cardinality(D) + Cardinality(Owing \ D)
        BY <2>7, DisjointCounted
    <2>9. QED
        BY <1>1, <2>3, <2>6, <2>8, FlagAssumption DEF FlagInv, ChangesPart
<1>8. QED
    BY <1>2, <1>3, <1>6, <1>7 DEF FlagInv

LEMMA OlderEntry ==
    ASSUME FlagInv, NEW entry, EntryFits(entry), NEW effective, NEW ticks,
           ticks \in {settled, settled + 1}, ticks = settled + 1 \/ settled > StaleTicks
    PROVE  /\ EntryFits(Older(entry))
           /\ RedisTold(entry, settled, effective) => RedisTold(Older(entry), ticks, effective)
           /\ MemoryTold(entry, settled, effective) => MemoryTold(Older(entry), ticks, effective)
<1>1. entry \in Entry /\ entry.left \in Nat /\ entry.left <= TTL /\ TTL \in Nat /\ settled \in Nat
    BY FlagBounds DEF EntryFits
<1>2. CASE entry.left <= 1
    BY <1>2, NoEntryFits DEF Older
<1>3. CASE ~ (entry.left <= 1)
    <2>1. Older(entry) = [entry EXCEPT !.left = entry.left - 1]
        BY <1>3 DEF Older
    <2>2. entry.left - 1 \in 0..TTL /\ entry.left - 1 >= 1
        BY <1>1, <1>3
    <2>3. Older(entry) \in Entry /\ Older(entry).value = entry.value /\ Older(entry).left = entry.left - 1
        BY <1>1, <2>1, <2>2 DEF Entry
    <2>4. ticks + Older(entry).left <= settled + entry.left
        BY <1>1, <2>3
    <2>5. OpTicks \in Nat /\ ticks \in Nat /\ Older(entry).left \in Nat
        BY <1>1, <2>2, <2>3, FlagBounds
    <2>6. QED
        BY <1>1, <2>2, <2>3, <2>4, <2>5 DEF EntryFits, RedisTold, MemoryTold
<1>4. QED
    BY <1>2, <1>3

LEMMA TickKeeps ==
    ASSUME FlagInv, Tick
    PROVE  FlagInv'
<1>1. /\ memory' = [p \in Processes |-> Older(memory[p])] /\ redis' = Older(redis)
      /\ settled' = IF settled > StaleTicks THEN settled ELSE settled + 1
      /\ UNCHANGED <<row, changes, audited, lost, faults>>
    BY DEF Tick
<1>2. Effective' = Effective /\ settled \in Nat /\ StaleTicks \in Nat
    BY <1>1, FlagBounds DEF Effective
<1>3. settled' \in {settled, settled + 1} /\ (settled' = settled + 1 \/ settled > StaleTicks)
      /\ settled' \in 0..(StaleTicks + 1)
    BY <1>1, <1>2, FlagBounds
<1>4. CachePart'
    <2>1. CachePart
        BY DEF FlagInv
    <2>2. EntryFits(redis') /\ RedisTold(redis', settled', Effective')
        BY <1>1, <1>2, <1>3, <2>1, OlderEntry DEF CachePart
    <2>3. ASSUME NEW p \in Processes
          PROVE  EntryFits(memory'[p]) /\ MemoryTold(memory'[p], settled', Effective')
        <3>1. memory'[p] = Older(memory[p]) /\ EntryFits(memory[p]) /\ MemoryTold(memory[p], settled, Effective)
            BY <1>1, <2>1 DEF CachePart
        <3>2. QED
            BY <1>2, <1>3, <3>1, OlderEntry
    <2>4. memory' \in [Processes -> Entry]
        BY <1>1, <2>3 DEF EntryFits
    <2>5. QED
        BY <1>1, <1>3, <2>1, <2>2, <2>3, <2>4 DEF CachePart
<1>5. ASSUME NEW r \in Requests
      PROVE  \/ request[r] = Idle /\ request'[r] = Idle
             \/ /\ RequestFits(request[r]) /\ request[r].age < OpTicks
                /\ request'[r] = [request[r] EXCEPT !.age = request[r].age + 1]
    BY TypedFlag DEF Tick
<1>6. ASSUME NEW r \in Requests
      PROVE  /\ request'[r] = Idle \/ RequestFits(request'[r])
             /\ request'[r].todo = request[r].todo /\ request'[r].op = request[r].op
             /\ ValueTold(request'[r], settled', Effective')
    <2>1. CASE request[r] = Idle /\ request'[r] = Idle
        <3>1. ~ Carries(Idle)
            BY TypedFlag
        <3>2. QED
            BY <2>1, <3>1 DEF ValueTold
    <2>2. CASE /\ RequestFits(request[r]) /\ request[r].age < OpTicks
               /\ request'[r] = [request[r] EXCEPT !.age = request[r].age + 1]
        <3>1. request[r] \in FlagRequest /\ request[r].age \in Nat /\ OpTicks \in Nat /\ TTL \in Nat
            BY <2>2, FlagBounds DEF RequestFits
        <3>2. request[r].age + 1 \in 0..OpTicks
            BY <2>2, <3>1
        <3>3. /\ request'[r] \in FlagRequest /\ request'[r].age = request[r].age + 1
              /\ request'[r].todo = request[r].todo /\ request'[r].op = request[r].op
              /\ request'[r].value = request[r].value
            BY <2>2, <3>1, <3>2 DEF FlagRequest
        <3>4. RequestFits(request'[r]) /\ (Carries(request'[r]) <=> Carries(request[r]))
            BY <2>2, <3>3 DEF RequestFits, Carries
        <3>5. ValueTold(request[r], settled, Effective)
            BY DEF FlagInv, InFlightPart
        <3>6. ValueTold(request'[r], settled', Effective')
            BY <1>2, <1>3, <3>1, <3>3, <3>4, <3>5 DEF ValueTold
        <3>7. QED
            BY <3>3, <3>4, <3>6
    <2>3. QED
        BY <1>5, <2>1, <2>2
<1>7. InFlightPart'
    <2>1. DOMAIN request' = Requests
        BY DEF Tick
    <2>2. QED
        BY <1>6, <2>1 DEF InFlightPart
<1>8. Owing' = Owing /\ Writing' = Writing
    BY <1>6 DEF Owing, Writing, OwesAudit, At
<1>9. ChangesPart'
    BY <1>1, <1>8 DEF FlagInv, ChangesPart
<1>10. QED
    BY <1>1, <1>4, <1>7, <1>9 DEF FlagInv

LEMMA FlagInitially == Init => FlagInv
<1> SUFFICES ASSUME Init PROVE FlagInv
    OBVIOUS
<1>1. /\ row = "absent" /\ memory = [p \in Processes |-> NoEntry] /\ redis = NoEntry
      /\ request = [r \in Requests |-> Idle] /\ changes = 0 /\ audited = 0 /\ lost = 0
      /\ settled = StaleTicks + 1 /\ faults = 0
    BY DEF Init
<1>2. StaleTicks \in Nat
    BY FlagAssumption DEF StaleTicks
<1>3. NoEntry \in Entry /\ NoEntry.value = "none"
    <2>1. 0 \in 0..TTL
        BY FlagAssumption
    <2>2. QED
        BY <2>1 DEF NoEntry, Entry
<1>4. CachePart
    <2>1. settled \in 0..(StaleTicks + 1)
        BY <1>1, <1>2
    <2>2. QED
        BY <1>1, <1>3, <2>1 DEF CachePart, EntryFits, RedisTold, MemoryTold, Old
<1>5. Idle.todo = <<>> /\ Idle.op = "none"
    BY DEF Idle
<1>6. InFlightPart
    BY <1>1, <1>5 DEF InFlightPart, ValueTold, Carries
<1>7. Owing = {} /\ Writing = {}
    BY <1>1, <1>5 DEF Owing, Writing, OwesAudit, At
<1>8. ChangesPart
    BY <1>1, <1>7, FS_EmptySet, FlagAssumption DEF ChangesPart
<1>9. faults \in 0..MaxFaults
    BY <1>1, FlagAssumption
<1>10. QED
    BY <1>4, <1>6, <1>8, <1>9 DEF FlagInv

LEMMA FlagStep ==
    ASSUME FlagInv, [Next]_vars
    PROVE  FlagInv'
<1>1. ASSUME NEW r \in Requests, NEW p \in Processes,
             IsEnabled(r, p) \/ Create(r, p) \/ Update(r, p) \/ Delete(r, p)
      PROVE  FlagInv'
    <2>1. CASE IsEnabled(r, p)
        BY <2>1, FlagBegins DEF IsEnabled, Ops, FlagWrites
    <2>2. CASE Create(r, p)
        <3>1. PICK v \in Value : Begin(r, p, "create", v) /\ changes + Cardinality(Writing) < MaxChanges
            BY <2>2 DEF Create, BeginChange
        <3>2. QED
            BY <3>1, FlagBegins DEF Ops
    <2>3. CASE Update(r, p)
        <3>1. PICK v \in Value \cup {"none"} :
                  Begin(r, p, "update", v) /\ changes + Cardinality(Writing) < MaxChanges
            BY <2>3 DEF Update, BeginChange
        <3>2. QED
            BY <3>1, FlagBegins DEF Ops
    <2>4. CASE Delete(r, p)
        BY <2>4, FlagBegins DEF Delete, BeginChange, Ops
    <2>5. QED
        BY <1>1, <2>1, <2>2, <2>3, <2>4
<1>2. ASSUME NEW r \in Requests,
             \/ Find(r) \/ Write(r) \/ SetMemory(r) \/ Forget(r) \/ Audit(r)
             \/ GetRedis(r) \/ SetRedis(r) \/ DeleteRedis(r)
             \/ RedisFails(r) \/ StatementFails(r)
      PROVE  FlagInv'
    BY <1>2, FlagFindKeeps, FlagWriteKeeps, SetMemoryKeeps, ForgetKeeps, FlagAuditKeeps, GetRedisKeeps, SetRedisKeeps,
       DeleteRedisKeeps, RedisFailsKeeps, FlagStatementFailsKeeps
<1>3. ASSUME NEW p \in Processes, Crash(p) PROVE FlagInv'
    BY <1>3, CrashKeeps
<1>4. CASE UNCHANGED vars
    <2>1. UNCHANGED <<row, memory, redis, request, changes, audited, lost, settled, faults>>
        BY <1>4 DEF vars
    <2>2. Effective' = Effective /\ Owing' = Owing /\ Writing' = Writing
        BY <2>1 DEF Effective, Owing, Writing, OwesAudit, At
    <2>3. ChangesPart' /\ CachePart' /\ InFlightPart'
        BY <2>1, <2>2 DEF FlagInv, ChangesPart, CachePart, InFlightPart
    <2>4. QED
        BY <2>1, <2>3 DEF FlagInv
<1>5. QED
    BY <1>1, <1>2, <1>3, <1>4, TickKeeps DEF Next

LEMMA FlagsInv == Spec => []FlagInv
BY FlagInitially, FlagStep, PTL DEF Spec

LEMMA FlagTypes == FlagInv => TypeOK
<1> SUFFICES ASSUME FlagInv PROVE TypeOK
    OBVIOUS
<1>1. ChangesPart /\ CachePart /\ InFlightPart /\ faults \in 0..MaxFaults
    BY DEF FlagInv
<1>2. ASSUME NEW r \in Requests
      PROVE  /\ request[r].op \in Ops \cup {"none"} /\ request[r].proc \in Processes \cup {"none"}
             /\ request[r].todo \in Seq(Steps) /\ request[r].value \in Value \cup {"none"}
             /\ request[r].age \in 0..OpTicks
    <2>1. CASE request[r] = Idle
        <3>1. <<>> \in Seq(Steps) /\ 0 \in 0..OpTicks
            BY FlagBounds
        <3>2. QED
            BY <2>1, <3>1 DEF Idle
    <2>2. CASE RequestFits(request[r])
        BY <2>2 DEF RequestFits, FlagRequest
    <2>3. QED
        BY <1>1, <2>1, <2>2 DEF InFlightPart
<1>3. changes \in 0..MaxChanges /\ audited \in 0..changes /\ lost \in 0..changes
    <2>1. IsFiniteSet(Writing) /\ IsFiniteSet(Owing)
        BY FS_Subset, FlagAssumption DEF Writing, Owing
    <2>2. Cardinality(Writing) \in Nat /\ Cardinality(Owing) \in Nat
        BY <2>1, FS_CardinalityType
    <2>3. QED
        BY <1>1, <2>2, FlagAssumption DEF ChangesPart
<1>4. QED
    BY <1>1, <1>2, <1>3 DEF TypeOK, CachePart, EntryFits

\* However requests read, fill and invalidate the caches, and whatever fails, a cache
\* tells an old value for twice the lifetime of an entry and of a request at most.
THEOREM OldValuesGo == Spec => []StaleBounded
<1>1. FlagInv => StaleBounded
    <2> SUFFICES ASSUME FlagInv, settled > StaleTicks, NEW entry \in Caches
                 PROVE  entry.value \in {"none", Effective}
        BY DEF StaleBounded, Fresh
    <2>1. EntryFits(entry)
          /\ (RedisTold(entry, settled, Effective) \/ MemoryTold(entry, settled, Effective))
        BY DEF Caches, FlagInv, CachePart
    <2>2. SUFFICES ASSUME Old(entry.value, Effective) PROVE FALSE
        BY DEF Old
    <2>3. entry.left >= 1 /\ entry.left \in Nat /\ OpTicks \in Nat /\ TTL \in Nat /\ TTL >= 1
          /\ settled \in Nat /\ StaleTicks = 2 * (TTL + OpTicks - 1)
        BY <2>1, <2>2, FlagBounds DEF EntryFits, Old
    <2>4. settled + entry.left <= OpTicks + TTL \/ settled + entry.left <= 2 * OpTicks + TTL - 1 + TTL
        BY <2>1, <2>2 DEF RedisTold, MemoryTold
    <2>5. QED
        BY <2>3, <2>4
<1>2. QED
    BY <1>1, FlagsInv, PTL

\* Every change of the flag is audited, unless its process died or a statement failed.
THEOREM FlagChangesAreAudited == Spec => []EveryChangeAudited
<1>1. FlagInv => EveryChangeAudited
    BY DEF FlagInv, ChangesPart, EveryChangeAudited, Owing
<1>2. QED
    BY <1>1, FlagsInv, PTL

-----------------------------------------------------------------------------
(* The components together *)

administrationVars ==
    <<focus, vars, inboxVars, syncVars, slaVars, csatVars, prioVars, threadVars, routeVars, polVars,
      artVars, roleVars, accVars, keyVars, figVars>>

LEMMA OneComponentMoves ==
    ASSUME [AdministrationNext]_administrationVars
    PROVE  /\ [Next]_vars
           /\ [InboxNext]_inboxVars
           /\ [SyncQueueNext]_syncVars
           /\ [MonitorNext]_slaVars
           /\ [SatisfactionNext]_csatVars
           /\ [PriorityNext]_prioVars
           /\ [ThreadNext]_threadVars
           /\ [RoutingNext]_routeVars
           /\ [PolicyNext]_polVars
           /\ [ArticleNext]_artVars
           /\ [RoleNext]_roleVars
           /\ [SessionNext]_accVars
           /\ [KeysNext]_keyVars
           /\ [FiguresNext]_figVars
BY DEF AdministrationNext, Only, administrationVars

LEMMA AdministrationIsEach ==
    AdministrationSpec =>
        /\ Spec
        /\ InboxSpec
        /\ SyncQueueSpec
        /\ MonitorSpec
        /\ SatisfactionSpec
        /\ PrioritySpec
        /\ ThreadSpec
        /\ RoutingSpec
        /\ PolicySpec
        /\ ArticleSpec
        /\ RoleSpec
        /\ SessionSpec
        /\ KeysSpec
        /\ FiguresSpec
<1>1. AdministrationInit =>
          /\ Init /\ InboxInit /\ SyncQueueInit /\ MonitorInit /\ SatisfactionInit
          /\ PriorityInit /\ ThreadInit /\ RoutingInit /\ PolicyInit /\ ArticleInit
          /\ RoleInit /\ SessionInit /\ KeysInit /\ FiguresInit
    BY DEF AdministrationInit
<1>2. [AdministrationNext]_administrationVars =>
          /\ [Next]_vars
          /\ [InboxNext]_inboxVars
          /\ [SyncQueueNext]_syncVars
          /\ [MonitorNext]_slaVars
          /\ [SatisfactionNext]_csatVars
          /\ [PriorityNext]_prioVars
          /\ [ThreadNext]_threadVars
          /\ [RoutingNext]_routeVars
          /\ [PolicyNext]_polVars
          /\ [ArticleNext]_artVars
          /\ [RoleNext]_roleVars
          /\ [SessionNext]_accVars
          /\ [KeysNext]_keyVars
          /\ [FiguresNext]_figVars
    BY OneComponentMoves
<1>3. AdministrationSpec => AdministrationInit /\ [][AdministrationNext]_administrationVars
    BY PTL DEF AdministrationSpec, administrationVars
<1>4. QED
    BY <1>1, <1>2, <1>3, PTL DEF Spec, InboxSpec, SyncQueueSpec, MonitorSpec, SatisfactionSpec, PrioritySpec,
        ThreadSpec, RoutingSpec, PolicySpec, ArticleSpec, RoleSpec, SessionSpec,
        KeysSpec, FiguresSpec

\* Whatever else the service does: of a ticket there is one survey, with one entry and
\* one event unless a fault cost it them, and its priority is what its entries tell,
\* but for requests that overlapped.
THEOREM TicketCareIsAccounted == AdministrationSpec => []TicketCareAccounted
<1>1. SurveyIsTold /\ PriorityExplained => TicketCareAccounted
    BY DEF TicketCareAccounted
<1>2. QED
    BY <1>1, AdministrationIsEach, SurveyIsToldOnce, PriorityIsExplained, PTL

\* Policies keep one default and unique names, and articles unique slugs, however
\* requests overlap and fail.
THEOREM RecordsStayConsistent == AdministrationSpec => []RecordsConsistent
<1>1. PoliciesConsistent /\ ArticlesConsistent => RecordsConsistent
    BY DEF RecordsConsistent
<1>2. QED
    BY <1>1, AdministrationIsEach, PoliciesStayConsistent, ArticlesStayConsistent, PTL

\* What logins, refreshes, revocations and uses of an API key leave in the rows is what
\* their order explains, for any number of requests, tokens and faults.
THEOREM SessionsAreKept == AdministrationSpec => []SessionsKept
<1>1. LoginsAccounted /\ SessionsAccounted /\ LastUseTold /\ KeyChangesTold => SessionsKept
    BY DEF SessionsKept
<1>2. QED
    BY <1>1, AdministrationIsEach, LoginsAreAccounted, SessionsAreAccounted, LastUseIsTold,
       KeyChangesAreTold, PTL

\* What reports, metrics and exports say of the tickets is explained by what was changed
\* while they were made, for any number of tickets and changes.
THEOREM FiguresAreExplained == AdministrationSpec => []FiguresExplained
<1>1. FiguresAgree /\ ComplianceExplained /\ ExportComplete => FiguresExplained
    BY DEF FiguresExplained
<1>2. QED
    BY <1>1, AdministrationIsEach, FiguresHold, PTL

-----------------------------------------------------------------------------
(* The types of all variables *)

\* What is counted or written of the notifications are those that were read.
LEMMA InboxTypes == InboxSpec => []InboxTypeOK
<1>1. InboxInv => InboxTypeOK
    <2>1. SUFFICES ASSUME InboxInv PROVE InboxTypeOK
        OBVIOUS
    <2>2. IsFiniteSet(Notices) /\ ReadNotices \subseteq Notices
        BY InboxAssumption DEF ReadNotices
    <2>3. Cardinality(ReadNotices) \in Nat /\ Cardinality(Notices) \in Nat
          /\ Cardinality(ReadNotices) <= Cardinality(Notices)
        BY <2>2, FS_Subset, FS_CardinalityType
    <2>4. inboxCounted \in 0..Cardinality(Notices) /\ inboxWritten \in 0..Cardinality(Notices)
        BY <2>1, <2>3 DEF InboxInv, CountsTellReadings
    <2>5. inboxRow \in [Notices -> NoticeRow]
        BY <2>1 DEF InboxInv, RowsReadOnce, NoticeRow
    <2>6. QED
        BY <2>1, <2>4, <2>5 DEF InboxInv, InboxTypeOK
<1>2. QED
    BY <1>1, InboxStarts, InboxSteps, PTL DEF InboxSpec

SyncBounded == syncLetters \in 0..MaxLetters /\ syncClosed \in 0..MaxCloses

LEMMA SyncTypes == SyncQueueSpec => []SyncQueueTypeOK
<1>1. SyncQueueInit => SyncBounded
    BY SyncQueueAssumption DEF SyncQueueInit, SyncBounded
<1>2. ASSUME SyncBounded, [SyncQueueNext]_syncVars PROVE SyncBounded'
    <2>1. \/ syncLetters' = syncLetters
          \/ syncLetters < MaxLetters /\ syncLetters' = syncLetters + 1
        BY <1>2
        DEF SyncQueueNext, syncVars, ExportRefused, Enqueue, JobSucceeds, JobFails, WaitForReportJob,
            AddOutboxDeadLetter, CloseProvider
    <2>2. \/ syncClosed' = syncClosed
          \/ syncClosed < MaxCloses /\ syncClosed' = syncClosed + 1
        BY <1>2
        DEF SyncQueueNext, syncVars, ExportRefused, Enqueue, JobSucceeds, JobFails, WaitForReportJob,
            AddOutboxDeadLetter, CloseProvider
    <2>3. QED
        BY <1>2, <2>1, <2>2, SyncQueueAssumption DEF SyncBounded
<1>3. SyncInv /\ SyncBounded => SyncQueueTypeOK
    BY DEF SyncInv, SyncTyped, SyncBounded, SyncQueueTypeOK
<1>4. QED
    BY <1>1, <1>2, <1>3, SyncInitially, SyncStep, PTL DEF SyncQueueSpec

\* An agent has at most all tickets when it is counted, and gets at most all of the list.
LoadsBounded ==
    /\ Len(routeRun.todo) <= Cardinality(RoutedTickets)
    /\ routeRun.pc = "new" => routeRun.loads = NoLoads
    /\ \A u \in RoutingUsers :
           routeRun.loads[u] + Len(routeRun.todo) <= 2 * Cardinality(RoutedTickets)
    /\ routeMoves \in 0..MaxRoutingMoves /\ routeFaults \in 0..MaxRoutingFaults

LEMMA TicketsCounted ==
    ASSUME NEW S, S \subseteq RoutedTickets
    PROVE  /\ Cardinality(S) \in Nat /\ Cardinality(RoutedTickets) \in Nat
           /\ Cardinality(S) <= Cardinality(RoutedTickets)
<1>1. IsFiniteSet(RoutedTickets)
    BY RoutingAssumption, FS_Subset
<1>2. QED
    BY <1>1, FS_Subset, FS_CardinalityType

\* The run goes on with the next ticket, having counted at most one more for each agent.
LEMMA NextTicketBounded ==
    ASSUME RoutingInv, LoadsBounded, routeRun.pc \in {"assign", "history"},
           NEW loads \in [RoutingUsers -> Nat], NextTicket(loads),
           \A u \in RoutingUsers : loads[u] <= routeRun.loads[u] + 1,
           UNCHANGED routeMoves, routeFaults' \in 0..MaxRoutingFaults
    PROVE  LoadsBounded'
<1>1. /\ routeRun \in RunType /\ routeRun.todo # <<>> /\ routeRun.todo \in Seq(RoutedTickets)
      /\ routeRun.loads \in [RoutingUsers -> Nat]
    BY DEF RoutingInv, RoutingTyped, RunPlaced, RunType
<1>2. /\ Len(Tail(routeRun.todo)) = Len(routeRun.todo) - 1
      /\ Len(routeRun.todo) \in Nat
    BY <1>1
<1>3. /\ routeRun'.todo = Tail(routeRun.todo) /\ routeRun'.loads = loads
      /\ routeRun'.pc # "new"
    BY <1>1 DEF NextTicket, RunType
<1>4. Cardinality(RoutedTickets) \in Nat
    BY TicketsCounted
<1>5. ASSUME NEW u \in RoutingUsers
      PROVE  loads[u] + Len(Tail(routeRun.todo)) <= 2 * Cardinality(RoutedTickets)
    <2>1. routeRun.loads[u] \in Nat /\ loads[u] \in Nat /\ loads[u] <= routeRun.loads[u] + 1
          /\ routeRun.loads[u] + Len(routeRun.todo) <= 2 * Cardinality(RoutedTickets)
        BY <1>1 DEF LoadsBounded
    <2>2. QED
        BY <2>1, <1>2, <1>4
<1>6. Len(Tail(routeRun.todo)) <= Cardinality(RoutedTickets)
    BY <1>2, <1>4 DEF LoadsBounded
<1>7. QED
    BY <1>3, <1>5, <1>6 DEF LoadsBounded

LEMMA LoadsStayBounded ==
    ASSUME RoutingInv, LoadsBounded, [RoutingNext]_routeVars
    PROVE  LoadsBounded'
<1>1. /\ routeRun \in RunType /\ routeRun.loads \in [RoutingUsers -> Nat]
      /\ Cardinality(RoutedTickets) \in Nat /\ AgentIds \subseteq RoutingUsers
    BY TicketsCounted DEF RoutingInv, RoutingTyped, RunType, RoutingUsers
<1>2. CASE FindUnassigned
    <2>1. PICK order \in SetToSeqs(Unassigned) :
              routeRun' = [routeRun EXCEPT !.todo = order, !.uncounted = AgentIds,
                               !.pc = IF order = <<>> \/ AgentIds = {} THEN "done" ELSE "count"]
        BY <1>2 DEF FindUnassigned
    <2>2. routeRun.pc = "new" /\ UNCHANGED <<routeMoves, routeFaults>>
        BY <1>2 DEF FindUnassigned
    <2>3. Unassigned \subseteq RoutedTickets
        BY DEF Unassigned
    <2>4. /\ Cardinality(Unassigned) \in Nat
          /\ Cardinality(Unassigned) <= Cardinality(RoutedTickets)
        BY <2>3, TicketsCounted
    <2>5. Len(order) = Cardinality(Unassigned)
        <3>1. order \in [1..Cardinality(Unassigned) -> Unassigned]
            BY <2>1 DEF SetToSeqs
        <3>2. QED
            BY <3>1, <2>4
    <2>6. routeRun'.todo = order /\ routeRun'.loads = NoLoads /\ routeRun'.pc # "new"
        BY <2>1, <2>2, <1>1 DEF RunType, LoadsBounded
    <2>7. \A u \in RoutingUsers : NoLoads[u] = 0
        BY DEF NoLoads
    <2>8. QED
        BY <1>1, <2>2, <2>4, <2>5, <2>6, <2>7 DEF LoadsBounded
<1>3. ASSUME NEW u \in AgentIds, CountWorkload(u) PROVE LoadsBounded'
    <2>1. /\ routeRun'.todo = routeRun.todo /\ routeRun'.pc # "new"
          /\ routeRun'.loads = [routeRun.loads EXCEPT ![u] = ActiveTickets(u)]
          /\ UNCHANGED <<routeMoves, routeFaults>>
        BY <1>1, <1>3 DEF CountWorkload, RunType
    <2>2. ActiveTickets(u) \in Nat /\ ActiveTickets(u) <= Cardinality(RoutedTickets)
        <3>1. {t \in RoutedTickets : routeTicket[t].open /\ routeTicket[t].assignee = u} \subseteq RoutedTickets
            OBVIOUS
        <3>2. QED
            BY <3>1, TicketsCounted DEF ActiveTickets
    <2>3. Len(routeRun.todo) \in Nat /\ u \in RoutingUsers
        BY <1>1 DEF RunType
    <2>4. ASSUME NEW v \in RoutingUsers
          PROVE  routeRun'.loads[v] + Len(routeRun.todo) <= 2 * Cardinality(RoutedTickets)
        <3>1. CASE v = u
            <4>1. routeRun'.loads[v] = ActiveTickets(u)
                BY <1>1, <2>1, <2>3, <3>1
            <4>2. QED
                BY <1>1, <2>2, <2>3, <4>1 DEF LoadsBounded
        <3>2. CASE v # u
            BY <1>1, <2>1, <3>2 DEF LoadsBounded
        <3>3. QED
            BY <3>1, <3>2
    <2>5. QED
        BY <2>1, <2>4 DEF LoadsBounded
<1>4. CASE AssignNext
    BY <1>1, <1>4 DEF AssignNext, RunType, LoadsBounded
<1>5. CASE RecordAssignment
    <2>1. routeRun.pc = "history" /\ NextTicket(CountsIts(routeRun))
          /\ UNCHANGED <<routeMoves, routeFaults>>
        BY <1>5 DEF RecordAssignment
    <2>2. routeRun.chosen \in AgentIds
        BY <2>1 DEF RoutingInv, RunPlaced
    <2>3. CountsIts(routeRun) \in [RoutingUsers -> Nat]
        BY <1>1, <2>2 DEF CountsIts
    <2>4. \A u \in RoutingUsers : CountsIts(routeRun)[u] <= routeRun.loads[u] + 1
        BY <1>1, <2>2 DEF CountsIts
    <2>5. routeFaults' \in 0..MaxRoutingFaults
        BY <2>1 DEF LoadsBounded
    <2>6. QED
        BY <2>1, <2>3, <2>4, <2>5, NextTicketBounded
<1>6. CASE AssignmentFails
    <2>1. routeRun.pc \in {"assign", "history"} /\ NextTicket(routeRun.loads)
          /\ UNCHANGED routeMoves /\ RoutingFault
        BY <1>6 DEF AssignmentFails
    <2>2. routeFaults' \in 0..MaxRoutingFaults
        BY <2>1, RoutingAssumption DEF RoutingFault, LoadsBounded
    <2>3. \A u \in RoutingUsers : routeRun.loads[u] <= routeRun.loads[u] + 1
        BY <1>1
    <2>4. QED
        BY <1>1, <2>1, <2>2, <2>3, NextTicketBounded
<1>7. ASSUME NEW r \in Routings,
             ChooseAgent(r) \/ RouteTicket(r) \/ RecordRouting(r) \/ RoutingFails(r)
      PROVE  LoadsBounded'
    <2>1. UNCHANGED <<routeRun, routeMoves>>
        BY <1>7 DEF ChooseAgent, RouteTicket, RecordRouting, RoutingFails
    <2>2. routeFaults' \in 0..MaxRoutingFaults
        BY <1>7, RoutingAssumption
        DEF ChooseAgent, RouteTicket, RecordRouting, RoutingFails, RoutingFault, LoadsBounded
    <2>3. QED
        BY <2>1, <2>2 DEF LoadsBounded
<1>8. ASSUME NEW t \in RoutedTickets, OthersFinish(t) PROVE LoadsBounded'
    BY <1>8, RoutingAssumption DEF OthersFinish, LoadsBounded
<1>9. CASE UNCHANGED routeVars
    BY <1>9 DEF routeVars, LoadsBounded
<1>10. QED
    BY <1>2, <1>3, <1>4, <1>5, <1>6, <1>7, <1>8, <1>9 DEF RoutingNext

LEMMA RoutingTypes == RoutingSpec => []RoutingTypeOK
<1>1. RoutingInit => LoadsBounded
    <2>1. SUFFICES ASSUME RoutingInit PROVE LoadsBounded
        OBVIOUS
    <2>2. routeRun.todo = <<>> /\ routeRun.loads = NoLoads /\ routeMoves = 0 /\ routeFaults = 0
        BY <2>1 DEF RoutingInit
    <2>3. Cardinality(RoutedTickets) \in Nat /\ \A u \in RoutingUsers : NoLoads[u] = 0
        BY TicketsCounted DEF NoLoads
    <2>4. QED
        BY <2>2, <2>3, RoutingAssumption DEF LoadsBounded
<1>2. RoutingInv /\ LoadsBounded /\ [RoutingNext]_routeVars => LoadsBounded'
    BY LoadsStayBounded
<1>3. RoutingInv /\ LoadsBounded => RoutingTypeOK
    <2>1. SUFFICES ASSUME RoutingInv, LoadsBounded PROVE RoutingTypeOK
        OBVIOUS
    <2>2. routeRun \in RunType /\ Cardinality(RoutedTickets) \in Nat
        BY <2>1, TicketsCounted DEF RoutingInv, RoutingTyped
    <2>3. routeRun.loads \in Loads
        <3>1. routeRun.loads \in [RoutingUsers -> Nat] /\ Len(routeRun.todo) \in Nat
            BY <2>2 DEF RunType
        <3>2. \A u \in RoutingUsers : routeRun.loads[u] \in 0..(2 * Cardinality(RoutedTickets))
            BY <2>1, <2>2, <3>1 DEF LoadsBounded
        <3>3. QED
            BY <3>1, <3>2 DEF Loads
    <2>4. QED
        BY <2>1, <2>2, <2>3 DEF RoutingInv, RoutingTyped, RunType, LoadsBounded, RoutingTypeOK
<1>4. QED
    BY <1>1, <1>2, <1>3, RoutingInitially, RoutingStep, PTL DEF RoutingSpec

LEMMA RoleTypes == RoleSpec => []RoleTypeOK
<1>1. RoleInv => RoleTypeOK
    <2>1. SUFFICES ASSUME RoleInv PROVE RoleTypeOK
        OBVIOUS
    <2>2. ASSUME NEW q \in RoleRequests
          PROVE  /\ roleRequest[q].op \in {"create", "rename", "delete", "assign"}
                 /\ roleRequest[q].pc \in {"new", "write", "keys", "replace", "deleting", "insert",
                                           "audit", "done", "refused", "failed"}
                 /\ roleRequest[q].role \in Roles /\ roleRequest[q].asked \in KeyLists
                 /\ roleRequest[q].seen \in SUBSET PermissionRow
        BY <2>1 DEF RoleInv, RoleTyped, RoleRequest, RoleOps, RolePcs
    <2>3. QED
        BY <2>1, <2>2 DEF RoleInv, RoleTyped, RoleTypeOK
<1>2. RoleInv /\ [RoleNext]_roleVars => RoleInv'
    BY RolesStep
<1>3. QED
    BY <1>1, <1>2, RolesInitially, PTL DEF RoleSpec

LEMMA FiguresTypes == FiguresSpec => []FiguresTypeOK
<1>1. FiguresInv => FiguresTypeOK
    <2>1. SUFFICES ASSUME FiguresInv PROVE FiguresTypeOK
        OBVIOUS
    <2>2. /\ figReport.kind \in DOMAIN StatementsOf /\ figReport.filter \in Filters
          /\ figReport.pc \in {"run", "done"} /\ figReport.now \in Times
          /\ figReport.todo \subseteq StatementsOf[figReport.kind]
          /\ figReport.saw \in [StatementsOf[figReport.kind] -> SUBSET Seen]
          /\ figReport.moves \in 0..MaxFigMoves
        BY <2>1 DEF FiguresInv, ReportPart, ReportOf
    <2>3. /\ figExport.sent \in Seq(FigTickets) /\ figExport.steady \subseteq FigTickets
          /\ figExport.skips \in Nat /\ figExport.skips <= Cursor
        BY <2>1 DEF FiguresInv, ExportPart
    <2>4. Cursor \in 0..LastTicket
        <3>1. CASE figExport.sent = <<>>
            BY <3>1, FiguresAssumption DEF Cursor
        <3>2. CASE figExport.sent # <<>>
            <4>1. Len(figExport.sent) \in 1..Len(figExport.sent)
                BY <2>3, <3>2
            <4>2. figExport.sent[Len(figExport.sent)] \in FigTickets
                BY <2>3, <4>1
            <4>3. QED
                BY <3>2, <4>2 DEF Cursor, FigTickets
        <3>3. QED
            BY <3>1, <3>2
    <2>5. figExport.skips \in 0..LastTicket
        BY <2>3, <2>4, FiguresAssumption
    <2>6. QED
        BY <2>1, <2>2, <2>3, <2>5 DEF FiguresInv, FigRowsPart, FiguresTypeOK
<1>2. QED
    BY <1>1, FiguresInvariant, PTL

\* However requests, runs, faults and each component's own changes follow each other,
\* every variable keeps its type; in particular the counters stay within what there is to
\* count, and no agent is taken to have more than twice the tickets there are.
THEOREM AdministrationTypeCorrect == AdministrationSpec => []AdministrationTypeOK
<1>1. FlagInv => TypeOK
    BY FlagTypes
<1>2. /\ MonitorInv => MonitorTypeOK
      /\ SatisfactionInv => SatisfactionTypeOK
      /\ PriorityInv => PriorityTypeOK
      /\ ThreadInv => ThreadTypeOK
      /\ PolicyInv => PolicyTypeOK
      /\ ArticleInv => ArticleTypeOK
      /\ SessionInv => SessionTypeOK
      /\ KeyInv => KeysTypeOK
    BY DEF MonitorInv, SatisfactionInv, PriorityInv, ThreadInv, PolicyInv, ArticleInv, SessionInv, KeyInv
<1>3. Spec => []TypeOK
    BY <1>1, FlagsInv, PTL
<1>4. MonitorSpec => []MonitorTypeOK
    BY <1>2, MonitorInitially, MonitorStep, PTL DEF MonitorSpec
<1>5. SatisfactionSpec => []SatisfactionTypeOK
    BY <1>2, SatisfactionInitially, SatisfactionStep, PTL DEF SatisfactionSpec
<1>6. PrioritySpec => []PriorityTypeOK
    BY <1>2, PriorityInitially, PriorityStep, PTL DEF PrioritySpec
<1>7. ThreadSpec => []ThreadTypeOK
    BY <1>2, ThreadInitially, ThreadStep, PTL DEF ThreadSpec
<1>8. PolicySpec => []PolicyTypeOK
    BY <1>2, PolicyInitially, PolicyStep, PTL DEF PolicySpec
<1>9. ArticleSpec => []ArticleTypeOK
    <2>1. ArticleInv /\ [ArticleNext]_artVars => ArticleInv'
        BY ArticlesStep
    <2>2. QED
        BY <1>2, <2>1, ArticleInitially, PTL DEF ArticleSpec
<1>10. SessionSpec => []SessionTypeOK
    BY <1>2, SessionsInv, PTL
<1>11. KeysSpec => []KeysTypeOK
    <2>1. KeyInv /\ [KeysNext]_keyVars => KeyInv'
        BY KeysStep
    <2>2. QED
        BY <1>2, <2>1, KeysInitially, PTL DEF KeysSpec
<1>12. AdministrationTypeOK <=>
           /\ TypeOK /\ InboxTypeOK /\ SyncQueueTypeOK /\ MonitorTypeOK /\ SatisfactionTypeOK
           /\ PriorityTypeOK /\ ThreadTypeOK /\ RoutingTypeOK /\ PolicyTypeOK /\ ArticleTypeOK
           /\ RoleTypeOK /\ SessionTypeOK /\ KeysTypeOK /\ FiguresTypeOK
    BY DEF AdministrationTypeOK
<1>13. QED
    BY <1>3, <1>4, <1>5, <1>6, <1>7, <1>8, <1>9, <1>10, <1>11, <1>12, AdministrationIsEach,
       InboxTypes, SyncTypes, RoutingTypes, RoleTypes, FiguresTypes, PTL
=====================================================================================
