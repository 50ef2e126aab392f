------------------------------ MODULE RecordsProofs ------------------------------
(***************************************************************************)
(* Tables that requests with overlapping reads and writes share: the       *)
(* notifications, the jobs of the synchronous queue, SLA policies,         *)
(* articles, and the tickets as reports and exports read them.  For each   *)
(* an inductive invariant relates what a request has read to what the rows *)
(* may have become meanwhile.                                              *)
(***************************************************************************)
EXTENDS TicketCareProofs, NotificationInbox, SyncQueue, SlaPolicies, KnowledgeBase, TicketFigures

ReadNotices == {n \in Notices : inboxRow[n].times > 0}

RowsReadOnce ==
    inboxRow \in [Notices -> [recipient : Users \cup {NoUser}, times : 0..1, by : Users \cup {NoUser}]]

ReadByRecipient == \A n \in Notices : inboxRow[n].by \in {NoUser, inboxRow[n].recipient}

CountsTellReadings == inboxCounted + inboxWritten = Cardinality(ReadNotices)

InboxInv ==
    /\ RowsReadOnce
    /\ inboxReader \in [Readers -> NoticeReader]
    /\ inboxCounted \in Nat /\ inboxWritten \in Nat
    /\ ReadByRecipient
    /\ CountsTellReadings

\* Both updates read notifications of one user that nobody has read: the set of
\* read ones grows by exactly these.
LEMMA ReadingUnread ==
    ASSUME InboxInv, NEW user \in Users, NEW S \in SUBSET UnreadOf(user), ReadBy(user, S)
    PROVE  /\ RowsReadOnce' /\ ReadByRecipient'
           /\ Cardinality(S) \in Nat
           /\ Cardinality(ReadNotices') = Cardinality(ReadNotices) + Cardinality(S)
<1>1. S \subseteq Notices /\ \A n \in S : inboxRow[n].times = 0 /\ inboxRow[n].recipient = user
    BY DEF UnreadOf, NoticesOf
<1>2. \A n \in Notices : inboxRow'[n] = IF n \in S THEN [recipient |-> user, times |-> 1, by |-> user]
                                       ELSE inboxRow[n]
    <2>1. SUFFICES ASSUME NEW n \in Notices
                   PROVE  inboxRow'[n] = IF n \in S THEN [recipient |-> user, times |-> 1, by |-> user]
                                         ELSE inboxRow[n]
        OBVIOUS
    <2>2. inboxRow[n] \in [recipient : Users \cup {NoUser}, times : 0..1, by : Users \cup {NoUser}]
        BY DEF InboxInv, RowsReadOnce
    <2>3. inboxRow'[n] = IF n \in S THEN [inboxRow[n] EXCEPT !.times = inboxRow[n].times + 1, !.by = user]
                         ELSE inboxRow[n]
        BY DEF ReadBy
    <2>4. n \in S => inboxRow[n].times + 1 = 1 /\ inboxRow[n].recipient = user
        BY <1>1
    <2>5. QED
        BY <2>2, <2>3, <2>4
<1>3. RowsReadOnce'
    <2>1. \A n \in Notices :
             inboxRow'[n] \in [recipient : Users \cup {NoUser}, times : 0..1, by : Users \cup {NoUser}]
        BY <1>1, <1>2 DEF InboxInv, RowsReadOnce
    <2>2. QED
        BY <2>1 DEF RowsReadOnce, ReadBy
<1>4. ReadByRecipient'
    BY <1>1, <1>2 DEF InboxInv, RowsReadOnce, ReadByRecipient
<1>5. ReadNotices' = ReadNotices \cup S /\ ReadNotices \cap S = {}
    <2>1. \A n \in Notices : inboxRow'[n].times > 0 <=> n \in S \/ inboxRow[n].times > 0
        BY <1>2
    <2>2. \A n \in S : ~(inboxRow[n].times > 0)
        BY <1>1
    <2>3. QED
        BY <1>1, <2>1, <2>2 DEF ReadNotices
<1>6. IsFiniteSet(ReadNotices) /\ IsFiniteSet(S)
    BY <1>1, InboxAssumption, FS_Subset DEF ReadNotices
<1>7. Cardinality(S) \in Nat /\ Cardinality(ReadNotices) \in Nat /\ Cardinality(ReadNotices \cap S) = 0
    BY <1>5, <1>6, FS_CardinalityType, FS_EmptySet
<1>8. Cardinality(ReadNotices \cup S)
        = Cardinality(ReadNotices) + Cardinality(S) - Cardinality(ReadNotices \cap S)
    BY <1>6, FS_Union
<1>9. QED
    BY <1>3, <1>4, <1>5, <1>7, <1>8

LEMMA InboxStarts == InboxInit => InboxInv
<1>1. SUFFICES ASSUME InboxInit PROVE InboxInv
    OBVIOUS
<1>2. RowsReadOnce /\ ReadByRecipient
    BY <1>1 DEF InboxInit, RowsReadOnce, ReadByRecipient
<1>3. inboxReader \in [Readers -> NoticeReader]
    BY <1>1 DEF InboxInit, NoticeReader
<1>4. ReadNotices = {}
    BY <1>1 DEF InboxInit, ReadNotices
<1>5. CountsTellReadings
    BY <1>1, <1>4, FS_EmptySet DEF InboxInit, CountsTellReadings
<1>6. QED
    BY <1>1, <1>2, <1>3, <1>5 DEF InboxInit, InboxInv

LEMMA InboxSteps == InboxInv /\ [InboxNext]_inboxVars => InboxInv'
<1>1. SUFFICES ASSUME InboxInv, [InboxNext]_inboxVars PROVE InboxInv'
    OBVIOUS
<1>2. ASSUME NEW n \in Notices, NEW user \in Users, CreateNotification(n, user) PROVE InboxInv'
    <2>1. \A m \in Notices : /\ inboxRow'[m].times = inboxRow[m].times
                             /\ inboxRow'[m].by = inboxRow[m].by
                             /\ inboxRow'[m].recipient = IF m = n THEN user ELSE inboxRow[m].recipient
        BY <1>1, <1>2 DEF InboxInv, RowsReadOnce, CreateNotification
    <2>2. RowsReadOnce'
        BY <1>1, <1>2 DEF InboxInv, RowsReadOnce, CreateNotification
    <2>3. ReadByRecipient'
        BY <1>1, <1>2, <2>1 DEF InboxInv, ReadByRecipient, CreateNotification
    <2>4. ReadNotices' = ReadNotices
        BY <2>1 DEF ReadNotices
    <2>5. QED
        BY <1>1, <1>2, <2>2, <2>3, <2>4 DEF InboxInv, CountsTellReadings, CreateNotification
<1>3. ASSUME NEW user \in Users, MarkAllAsRead(user) PROVE InboxInv'
    <2>1. ReadBy(user, UnreadOf(user)) /\ UNCHANGED <<inboxReader, inboxWritten>>
          /\ inboxCounted' = inboxCounted + Cardinality(UnreadOf(user))
        BY <1>3 DEF MarkAllAsRead
    <2>2. /\ RowsReadOnce' /\ ReadByRecipient' /\ Cardinality(UnreadOf(user)) \in Nat
          /\ Cardinality(ReadNotices') = Cardinality(ReadNotices) + Cardinality(UnreadOf(user))
        BY <1>1, <2>1, ReadingUnread
    <2>3. QED
        BY <1>1, <2>1, <2>2 DEF InboxInv, CountsTellReadings
<1>4. ASSUME NEW r \in Readers, FindNotification(r) PROVE InboxInv'
    <2>1. UNCHANGED <<inboxRow, inboxCounted, inboxWritten>>
        BY <1>4 DEF FindNotification
    <2>2. inboxReader' \in [Readers -> NoticeReader]
        BY <1>1, <1>4 DEF InboxInv, FindNotification, NoticeReader
    <2>3. QED
        BY <1>1, <2>1, <2>2
        DEF InboxInv, RowsReadOnce, ReadByRecipient, CountsTellReadings, ReadNotices
<1>5. ASSUME NEW r \in Readers, UpdateReadAt(r) PROVE InboxInv'
    <2> DEFINE user == inboxReader[r].user
               mine == {inboxReader[r].notice} \cap UnreadOf(user)
    <2>1. user \in Users
        BY <1>1 DEF InboxInv, NoticeReader
    <2>2. ReadBy(user, mine) /\ inboxWritten' = inboxWritten + Cardinality(mine) /\ UNCHANGED inboxCounted
          /\ inboxReader' = [inboxReader EXCEPT ![r].pc = "done"]
        BY <1>5 DEF UpdateReadAt
    <2>3. mine \in SUBSET UnreadOf(user)
        OBVIOUS
    <2> HIDE DEF user, mine
    <2>4. /\ RowsReadOnce' /\ ReadByRecipient' /\ Cardinality(mine) \in Nat
          /\ Cardinality(ReadNotices') = Cardinality(ReadNotices) + Cardinality(mine)
        BY <1>1, <2>1, <2>2, <2>3, ReadingUnread
    <2>5. inboxReader' \in [Readers -> NoticeReader]
        BY <1>1, <2>2 DEF InboxInv, NoticeReader
    <2>6. QED
        BY <1>1, <2>2, <2>4, <2>5 DEF InboxInv, CountsTellReadings
<1>6. CASE UNCHANGED inboxVars
    BY <1>1, <1>6 DEF InboxInv, RowsReadOnce, ReadByRecipient, CountsTellReadings, ReadNotices, inboxVars
<1>7. QED
    BY <1>1, <1>2, <1>3, <1>4, <1>5, <1>6 DEF InboxNext

\* However single and collective readings overlap, a notification gets its readAt
\* once, from its recipient, and each reading is counted by exactly one request.
THEOREM ReadOnceCorrect == InboxSpec => []ReadOnce
<1>1. InboxInv => ReadOnce
    <2>1. SUFFICES ASSUME InboxInv PROVE ReadOnce
        OBVIOUS
    <2>2. \A n \in Notices : inboxRow[n].times <= 1
        BY <2>1 DEF InboxInv, RowsReadOnce
    <2>3. QED
        BY <2>1, <2>2 DEF InboxInv, ReadByRecipient, CountsTellReadings, ReadNotices, ReadOnce
<1>2. QED
    BY <1>1, InboxStarts, InboxSteps, PTL DEF InboxSpec

-----------------------------------------------------------------------------
(* The sync provider *)

SyncTyped ==
    /\ syncCaller \in [SyncCallers -> {"new", "running", "wait", "answered", "failed", "refused"}]
    /\ syncStored \in [SyncCallers -> {"none", "request", "failure", "result"}]
    /\ syncCounts \in [SyncQueues -> [DOMAIN NoCounts -> Nat]]
    /\ syncDead \in [SyncQueues -> Nat]
    /\ syncLetters \in Nat /\ syncClosed \in Nat
    /\ \A c \in SyncCallers : syncCaller[c] = "wait" => QueueOf[c] = "REPORT"

Ended == {"wait", "answered", "failed"}

RunningIn(q) == JobsIn(q, {"running"})

EndedIn(q) == JobsIn(q, Ended)

CountsTell ==
    \A q \in SyncQueues :
        /\ syncCounts[q].active = RunningIn(q)
        /\ syncCounts[q].completed + syncCounts[q].failed = EndedIn(q) + LettersIn(q)
        /\ syncDead[q] <= syncCounts[q].failed

\* Until a close the map tells where every job stands.
StoredTells(c) ==
    /\ syncCaller[c] \in {"new", "refused"} => syncStored[c] = "none"
    /\ syncCaller[c] = "running" => syncStored[c] = "request"
    /\ syncCaller[c] = "wait" => syncStored[c] = "result"
    /\ syncCaller[c] = "answered" => syncStored[c] # "none"
    /\ syncCaller[c] = "failed" => syncStored[c] = "failure"

OpenTells ==
    syncClosed = 0 =>
        /\ \A q \in SyncQueues : syncDead[q] = syncCounts[q].failed
        /\ \A c \in SyncCallers : StoredTells(c)

SyncInv == SyncTyped /\ CountsTell /\ OpenTells

LEMMA JobsCounted ==
    ASSUME NEW q, NEW places
    PROVE  /\ IsFiniteSet({c \in SyncCallers : QueueOf[c] = q /\ syncCaller[c] \in places})
           /\ JobsIn(q, places) \in Nat
<1>1. QED
    BY SyncQueueAssumption, PartCounted DEF JobsIn

PlacedIn(f, q, places) == Cardinality({c \in SyncCallers : QueueOf[c] = q /\ f[c] \in places})

CallerMoved(f, g, c, place) == \A o \in SyncCallers : g[o] = IF o = c THEN place ELSE f[o]

\* One request moves, and with it the numbers of its queue.
LEMMA PlaceMoves ==
    ASSUME NEW f, NEW g, NEW c \in SyncCallers, NEW place, NEW q, NEW places,
           CallerMoved(f, g, c, place)
    PROVE  /\ PlacedIn(f, q, places) \in Nat /\ PlacedIn(g, q, places) \in Nat
           /\ PlacedIn(g, q, places) = PlacedIn(f, q, places)
                  + (IF QueueOf[c] = q /\ place \in places THEN 1 ELSE 0)
                  - (IF QueueOf[c] = q /\ f[c] \in places THEN 1 ELSE 0)
<1> DEFINE S == {o \in SyncCallers : QueueOf[o] = q /\ f[o] \in places}
           after == {o \in SyncCallers : QueueOf[o] = q /\ g[o] \in places}
<1>1. IsFiniteSet(S) /\ Cardinality(S) \in Nat
    BY SyncQueueAssumption, PartCounted
<1>3. /\ QueueOf[c] = q /\ place \in places => after = S \cup {c}
      /\ ~(QueueOf[c] = q /\ place \in places) => after = S \ {c}
      /\ c \in S <=> QueueOf[c] = q /\ f[c] \in places
    BY DEF CallerMoved
<1> HIDE DEF S, after
<1>4. /\ Cardinality(S \cup {c}) = IF c \in S THEN Cardinality(S) ELSE Cardinality(S) + 1
      /\ Cardinality(S \ {c}) = IF c \in S THEN Cardinality(S) - 1 ELSE Cardinality(S)
      /\ IsFiniteSet(S \cup {c}) /\ IsFiniteSet(S \ {c})
    BY <1>1, FS_AddElement, FS_RemoveElement
<1>5. Cardinality(S \cup {c}) \in Nat /\ Cardinality(S \ {c}) \in Nat
    BY <1>4, FS_CardinalityType
<1>6. /\ Cardinality(S) \in Nat /\ Cardinality(after) \in Nat
      /\ Cardinality(after) = Cardinality(S)
            + (IF QueueOf[c] = q /\ place \in places THEN 1 ELSE 0)
            - (IF QueueOf[c] = q /\ f[c] \in places THEN 1 ELSE 0)
    <2>1. CASE QueueOf[c] = q /\ place \in places
        <3>1. after = S \cup {c}
            BY <1>3, <2>1
        <3>2. CASE c \in S
            BY <1>1, <1>3, <1>4, <2>1, <3>1, <3>2
        <3>3. CASE c \notin S
            BY <1>1, <1>3, <1>4, <2>1, <3>1, <3>3
        <3>4. QED
            BY <3>2, <3>3
    <2>2. CASE ~(QueueOf[c] = q /\ place \in places)
        <3>1. after = S \ {c}
            BY <1>3, <2>2
        <3>2. CASE c \in S
            BY <1>1, <1>3, <1>4, <1>5, <2>2, <3>1, <3>2
        <3>3. CASE c \notin S
            BY <1>1, <1>3, <1>4, <2>2, <3>1, <3>3
        <3>4. QED
            BY <3>2, <3>3
    <2>3. QED
        BY <2>1, <2>2
<1>7. QED
    BY <1>6 DEF S, after, PlacedIn

LEMMA JobsGo ==
    ASSUME NEW c \in SyncCallers, NEW place, NEW q, CallerMoved(syncCaller, syncCaller', c, place)
    PROVE  /\ RunningIn(q) \in Nat /\ RunningIn(q)' \in Nat
           /\ EndedIn(q) \in Nat /\ EndedIn(q)' \in Nat
           /\ RunningIn(q)' = RunningIn(q)
                + (IF QueueOf[c] = q /\ place \in {"running"} THEN 1 ELSE 0)
                - (IF QueueOf[c] = q /\ syncCaller[c] \in {"running"} THEN 1 ELSE 0)
           /\ EndedIn(q)' = EndedIn(q)
                + (IF QueueOf[c] = q /\ place \in Ended THEN 1 ELSE 0)
                - (IF QueueOf[c] = q /\ syncCaller[c] \in Ended THEN 1 ELSE 0)
<1>2. /\ RunningIn(q) = PlacedIn(syncCaller, q, {"running"})
      /\ EndedIn(q) = PlacedIn(syncCaller, q, Ended)
      /\ RunningIn(q)' = PlacedIn(syncCaller', q, {"running"})
      /\ EndedIn(q)' = PlacedIn(syncCaller', q, Ended)
    BY DEF RunningIn, EndedIn, JobsIn, PlacedIn
<1>3. /\ PlacedIn(syncCaller, q, {"running"}) \in Nat /\ PlacedIn(syncCaller', q, {"running"}) \in Nat
      /\ PlacedIn(syncCaller', q, {"running"}) = PlacedIn(syncCaller, q, {"running"})
                  + (IF QueueOf[c] = q /\ place \in {"running"} THEN 1 ELSE 0)
                  - (IF QueueOf[c] = q /\ syncCaller[c] \in {"running"} THEN 1 ELSE 0)
    BY PlaceMoves
<1>4. /\ PlacedIn(syncCaller, q, Ended) \in Nat /\ PlacedIn(syncCaller', q, Ended) \in Nat
      /\ PlacedIn(syncCaller', q, Ended) = PlacedIn(syncCaller, q, Ended)
                  + (IF QueueOf[c] = q /\ place \in Ended THEN 1 ELSE 0)
                  - (IF QueueOf[c] = q /\ syncCaller[c] \in Ended THEN 1 ELSE 0)
    BY PlaceMoves
<1>5. QED
    BY <1>2, <1>3, <1>4

LEMMA JobsStay ==
    ASSUME UNCHANGED syncCaller, NEW q
    PROVE  RunningIn(q)' = RunningIn(q) /\ EndedIn(q)' = EndedIn(q)
<1>1. QED
    BY DEF RunningIn, EndedIn, JobsIn

LEMMA CountsTyped ==
    ASSUME SyncTyped, NEW q \in SyncQueues
    PROVE  /\ syncCounts[q].active \in Nat /\ syncCounts[q].completed \in Nat /\ syncCounts[q].failed \in Nat
           /\ syncDead[q] \in Nat /\ LettersIn(q) \in Nat
           /\ DOMAIN NoCounts = {"active", "completed", "failed"}
<1>1. DOMAIN NoCounts = {"active", "completed", "failed"}
    BY DEF NoCounts
<1>2. syncCounts[q] \in [{"active", "completed", "failed"} -> Nat]
    BY <1>1 DEF SyncTyped
<1>3. QED
    BY <1>1, <1>2 DEF SyncTyped, LettersIn

LEMMA SyncInitially == SyncQueueInit => SyncInv
<1>1. SUFFICES ASSUME SyncQueueInit PROVE SyncInv
    OBVIOUS
<1>2. NoCounts \in [DOMAIN NoCounts -> Nat]
    BY DEF NoCounts
<1>3. SyncTyped
    BY <1>1, <1>2 DEF SyncQueueInit, SyncTyped
<1>4. \A q : RunningIn(q) = 0 /\ EndedIn(q) = 0
    <2>1. TAKE q
    <2>2. /\ {c \in SyncCallers : QueueOf[c] = q /\ syncCaller[c] \in {"running"}} = {}
          /\ {c \in SyncCallers : QueueOf[c] = q /\ syncCaller[c] \in Ended} = {}
        BY <1>1 DEF SyncQueueInit, Ended
    <2>3. QED
        BY <2>2, FS_EmptySet DEF RunningIn, EndedIn, JobsIn
<1>5. CountsTell
    BY <1>1, <1>4 DEF SyncQueueInit, CountsTell, NoCounts, LettersIn
<1>6. OpenTells
    BY <1>1 DEF SyncQueueInit, OpenTells, StoredTells, NoCounts
<1>7. QED
    BY <1>3, <1>5, <1>6 DEF SyncInv

LEMMA RefusedKeeps ==
    ASSUME SyncInv, NEW c \in SyncCallers, ExportRefused(c)
    PROVE  SyncInv'
<1>1. /\ syncCaller[c] = "new" /\ syncCaller' = [syncCaller EXCEPT ![c] = "refused"]
      /\ UNCHANGED <<syncStored, syncCounts, syncDead, syncLetters, syncClosed>>
    BY DEF ExportRefused
<1>2. SyncTyped'
    BY <1>1 DEF SyncInv, SyncTyped
<1>3. \A q \in SyncQueues : RunningIn(q)' = RunningIn(q) /\ EndedIn(q)' = EndedIn(q)
    <2>1. "refused" \notin {"running"} /\ "refused" \notin Ended /\ "new" \notin {"running"} /\ "new" \notin Ended
        BY DEF Ended
    <2>2. CallerMoved(syncCaller, syncCaller', c, "refused")
        BY <1>1 DEF SyncInv, SyncTyped, CallerMoved
    <2>3. ASSUME NEW q
          PROVE  /\ RunningIn(q) \in Nat /\ RunningIn(q)' \in Nat
                 /\ EndedIn(q) \in Nat /\ EndedIn(q)' \in Nat
                 /\ RunningIn(q)' = RunningIn(q)
                      + (IF QueueOf[c] = q /\ "refused" \in {"running"} THEN 1 ELSE 0)
                      - (IF QueueOf[c] = q /\ syncCaller[c] \in {"running"} THEN 1 ELSE 0)
                 /\ EndedIn(q)' = EndedIn(q)
                      + (IF QueueOf[c] = q /\ "refused" \in Ended THEN 1 ELSE 0)
                      - (IF QueueOf[c] = q /\ syncCaller[c] \in Ended THEN 1 ELSE 0)
        BY <2>2, JobsGo
    <2>4. QED
        BY <1>1, <2>1, <2>3
<1>4. CountsTell' /\ OpenTells'
    BY <1>1, <1>3 DEF SyncInv, SyncTyped, CountsTell, OpenTells, StoredTells, LettersIn
<1>5. QED
    BY <1>2, <1>4 DEF SyncInv

LEMMA EnqueueKeeps ==
    ASSUME SyncInv, NEW c \in SyncCallers, Enqueue(c)
    PROVE  SyncInv'
<1>1. /\ syncCaller[c] = "new" /\ syncCaller' = [syncCaller EXCEPT ![c] = "running"]
      /\ syncStored' = [syncStored EXCEPT ![c] = "request"]
      /\ syncCounts' = [syncCounts EXCEPT ![QueueOf[c]].active = @ + 1]
      /\ UNCHANGED <<syncDead, syncLetters, syncClosed>>
    BY DEF Enqueue
<1>2. /\ QueueOf[c] \in SyncQueues /\ SyncTyped
      /\ \A q \in SyncQueues : syncCounts[q].active \in Nat /\ syncCounts[q].completed \in Nat
                               /\ syncCounts[q].failed \in Nat
      /\ DOMAIN NoCounts = {"active", "completed", "failed"}
    BY SyncQueueAssumption, CountsTyped DEF SyncInv
<1>3. /\ syncCounts' \in [SyncQueues -> [DOMAIN NoCounts -> Nat]]
      /\ \A q \in SyncQueues :
            /\ syncCounts'[q].active = syncCounts[q].active + (IF QueueOf[c] = q THEN 1 ELSE 0)
            /\ syncCounts'[q].completed = syncCounts[q].completed
            /\ syncCounts'[q].failed = syncCounts[q].failed
    BY <1>1, <1>2 DEF SyncTyped
<1>4. SyncTyped'
    BY <1>1, <1>2, <1>3 DEF SyncTyped
<1>5. \A q \in SyncQueues : /\ RunningIn(q)' = RunningIn(q) + (IF QueueOf[c] = q THEN 1 ELSE 0)
                            /\ EndedIn(q)' = EndedIn(q)
    <2>1. "running" \in {"running"} /\ "running" \notin Ended /\ "new" \notin {"running"} /\ "new" \notin Ended
        BY DEF Ended
    <2>2. CallerMoved(syncCaller, syncCaller', c, "running")
        BY <1>1 DEF SyncInv, SyncTyped, CallerMoved
    <2>3. ASSUME NEW q
          PROVE  /\ RunningIn(q) \in Nat /\ RunningIn(q)' \in Nat
                 /\ EndedIn(q) \in Nat /\ EndedIn(q)' \in Nat
                 /\ RunningIn(q)' = RunningIn(q)
                      + (IF QueueOf[c] = q /\ "running" \in {"running"} THEN 1 ELSE 0)
                      - (IF QueueOf[c] = q /\ syncCaller[c] \in {"running"} THEN 1 ELSE 0)
                 /\ EndedIn(q)' = EndedIn(q)
                      + (IF QueueOf[c] = q /\ "running" \in Ended THEN 1 ELSE 0)
                      - (IF QueueOf[c] = q /\ syncCaller[c] \in Ended THEN 1 ELSE 0)
        BY <2>2, JobsGo
    <2>4. QED
        BY <1>1, <1>2, <2>1, <2>3
<1>6. CountsTell'
    BY <1>1, <1>3, <1>5 DEF SyncInv, CountsTell, LettersIn
<1>7. OpenTells'
    BY <1>1, <1>2, <1>3 DEF SyncInv, SyncTyped, OpenTells, StoredTells
<1>8. QED
    BY <1>4, <1>6, <1>7 DEF SyncInv

LEMMA SucceedsKeeps ==
    ASSUME SyncInv, NEW c \in SyncCallers, JobSucceeds(c)
    PROVE  SyncInv'
<1> DEFINE place == IF QueueOf[c] = "REPORT" THEN "wait" ELSE "answered"
<1>1. /\ syncCaller[c] = "running" /\ syncCaller' = [syncCaller EXCEPT ![c] = place]
      /\ syncStored' = [syncStored EXCEPT ![c] = IF QueueOf[c] = "REPORT" THEN "result" ELSE @]
      /\ syncCounts' = [syncCounts EXCEPT ![QueueOf[c]].active = @ - 1, ![QueueOf[c]]["completed"] = @ + 1]
      /\ UNCHANGED <<syncDead, syncLetters, syncClosed>>
    BY DEF JobSucceeds, Count
<1>2. /\ QueueOf[c] \in SyncQueues /\ SyncTyped
      /\ \A q \in SyncQueues : syncCounts[q].active \in Nat /\ syncCounts[q].completed \in Nat
                               /\ syncCounts[q].failed \in Nat
      /\ DOMAIN NoCounts = {"active", "completed", "failed"}
    BY SyncQueueAssumption, CountsTyped DEF SyncInv
<1>3. /\ place \in {"wait", "answered"} /\ (place = "wait" => QueueOf[c] = "REPORT")
      /\ place = "answered" => QueueOf[c] # "REPORT"
    OBVIOUS
<1> HIDE DEF place
<1>4. \A q \in SyncQueues :
          /\ RunningIn(q)' = RunningIn(q) - (IF QueueOf[c] = q THEN 1 ELSE 0)
          /\ EndedIn(q)' = EndedIn(q) + (IF QueueOf[c] = q THEN 1 ELSE 0)
          /\ RunningIn(q)' \in Nat /\ RunningIn(q) \in Nat /\ EndedIn(q) \in Nat
    <2>1. place \notin {"running"} /\ place \in Ended /\ "running" \in {"running"} /\ "running" \notin Ended
        BY <1>3 DEF Ended
    <2>2. CallerMoved(syncCaller, syncCaller', c, place)
        BY <1>1 DEF SyncInv, SyncTyped, CallerMoved
    <2>3. ASSUME NEW q
          PROVE  /\ RunningIn(q) \in Nat /\ RunningIn(q)' \in Nat
                 /\ EndedIn(q) \in Nat /\ EndedIn(q)' \in Nat
                 /\ RunningIn(q)' = RunningIn(q)
                      + (IF QueueOf[c] = q /\ place \in {"running"} THEN 1 ELSE 0)
                      - (IF QueueOf[c] = q /\ syncCaller[c] \in {"running"} THEN 1 ELSE 0)
                 /\ EndedIn(q)' = EndedIn(q)
                      + (IF QueueOf[c] = q /\ place \in Ended THEN 1 ELSE 0)
                      - (IF QueueOf[c] = q /\ syncCaller[c] \in Ended THEN 1 ELSE 0)
        BY <2>2, JobsGo
    <2>4. QED
        BY <1>1, <1>2, <2>1, <2>3
<1>5. syncCounts[QueueOf[c]].active - 1 \in Nat
    BY <1>2, <1>4 DEF SyncInv, CountsTell
<1>6. /\ syncCounts' \in [SyncQueues -> [DOMAIN NoCounts -> Nat]]
      /\ \A q \in SyncQueues :
            /\ syncCounts'[q].active = syncCounts[q].active - (IF QueueOf[c] = q THEN 1 ELSE 0)
            /\ syncCounts'[q].completed = syncCounts[q].completed + (IF QueueOf[c] = q THEN 1 ELSE 0)
            /\ syncCounts'[q].failed = syncCounts[q].failed
    BY <1>1, <1>2, <1>5 DEF SyncTyped
<1>7. SyncTyped'
    BY <1>1, <1>2, <1>3, <1>6 DEF SyncTyped
<1>8. CountsTell'
    <2>1. SUFFICES ASSUME NEW q \in SyncQueues
                   PROVE  /\ syncCounts'[q].active = RunningIn(q)'
                          /\ syncCounts'[q].completed + syncCounts'[q].failed = EndedIn(q)' + LettersIn(q)'
                          /\ syncDead'[q] <= syncCounts'[q].failed
        BY DEF CountsTell
    <2>2. LettersIn(q) \in Nat /\ LettersIn(q)' = LettersIn(q)
        BY <1>1, <1>2, CountsTyped DEF LettersIn
    <2>3. /\ syncCounts[q].active = RunningIn(q)
          /\ syncCounts[q].completed + syncCounts[q].failed = EndedIn(q) + LettersIn(q)
          /\ syncDead[q] <= syncCounts[q].failed
        BY DEF SyncInv, CountsTell
    <2>4. QED
        BY <1>1, <1>2, <1>4, <1>6, <2>2, <2>3
<1>9. OpenTells'
    BY <1>1, <1>2, <1>3, <1>6 DEF SyncInv, SyncTyped, OpenTells, StoredTells
<1>10. QED
    BY <1>7, <1>8, <1>9 DEF SyncInv

LEMMA JobFaultKeeps ==
    ASSUME SyncInv, NEW c \in SyncCallers, JobFails(c)
    PROVE  SyncInv'
<1>1. /\ syncCaller[c] = "running" /\ syncCaller' = [syncCaller EXCEPT ![c] = "failed"]
      /\ syncStored' = [syncStored EXCEPT ![c] = IF @ = "none" THEN @ ELSE "failure"]
      /\ syncCounts' = [syncCounts EXCEPT ![QueueOf[c]].active = @ - 1, ![QueueOf[c]]["failed"] = @ + 1]
      /\ syncDead' = [syncDead EXCEPT ![QueueOf[c]] = @ + 1]
      /\ UNCHANGED <<syncLetters, syncClosed>>
    BY DEF JobFails, Count
<1>2. /\ QueueOf[c] \in SyncQueues /\ SyncTyped
      /\ \A q \in SyncQueues : syncCounts[q].active \in Nat /\ syncCounts[q].completed \in Nat
                               /\ syncCounts[q].failed \in Nat
      /\ DOMAIN NoCounts = {"active", "completed", "failed"}
    BY SyncQueueAssumption, CountsTyped DEF SyncInv
<1>3. \A q \in SyncQueues :
          /\ RunningIn(q)' = RunningIn(q) - (IF QueueOf[c] = q THEN 1 ELSE 0)
          /\ EndedIn(q)' = EndedIn(q) + (IF QueueOf[c] = q THEN 1 ELSE 0)
          /\ RunningIn(q)' \in Nat /\ RunningIn(q) \in Nat /\ EndedIn(q) \in Nat
    <2>1. "failed" \notin {"running"} /\ "failed" \in Ended /\ "running" \in {"running"} /\ "running" \notin Ended
        BY DEF Ended
    <2>2. CallerMoved(syncCaller, syncCaller', c, "failed")
        BY <1>1 DEF SyncInv, SyncTyped, CallerMoved
    <2>3. ASSUME NEW q
          PROVE  /\ RunningIn(q) \in Nat /\ RunningIn(q)' \in Nat
                 /\ EndedIn(q) \in Nat /\ EndedIn(q)' \in Nat
                 /\ RunningIn(q)' = RunningIn(q)
                      + (IF QueueOf[c] = q /\ "failed" \in {"running"} THEN 1 ELSE 0)
                      - (IF QueueOf[c] = q /\ syncCaller[c] \in {"running"} THEN 1 ELSE 0)
                 /\ EndedIn(q)' = EndedIn(q)
                      + (IF QueueOf[c] = q /\ "failed" \in Ended THEN 1 ELSE 0)
                      - (IF QueueOf[c] = q /\ syncCaller[c] \in Ended THEN 1 ELSE 0)
        BY <2>2, JobsGo
    <2>4. QED
        BY <1>1, <1>2, <2>1, <2>3
<1>4. syncCounts[QueueOf[c]].active - 1 \in Nat
    BY <1>2, <1>3 DEF SyncInv, CountsTell
<1>5. /\ syncCounts' \in [SyncQueues -> [DOMAIN NoCounts -> Nat]]
      /\ \A q \in SyncQueues :
            /\ syncCounts'[q].active = syncCounts[q].active - (IF QueueOf[c] = q THEN 1 ELSE 0)
            /\ syncCounts'[q].completed = syncCounts[q].completed
            /\ syncCounts'[q].failed = syncCounts[q].failed + (IF QueueOf[c] = q THEN 1 ELSE 0)
            /\ syncDead'[q] = syncDead[q] + (IF QueueOf[c] = q THEN 1 ELSE 0)
    BY <1>1, <1>2, <1>4 DEF SyncTyped
<1>6. SyncTyped'
    BY <1>1, <1>2, <1>5 DEF SyncTyped
<1>7. CountsTell'
    <2>1. SUFFICES ASSUME NEW q \in SyncQueues
                   PROVE  /\ syncCounts'[q].active = RunningIn(q)'
                          /\ syncCounts'[q].completed + syncCounts'[q].failed = EndedIn(q)' + LettersIn(q)'
                          /\ syncDead'[q] <= syncCounts'[q].failed
        BY DEF CountsTell
    <2>2. LettersIn(q) \in Nat /\ LettersIn(q)' = LettersIn(q) /\ syncDead[q] \in Nat
        BY <1>1, <1>2, CountsTyped DEF LettersIn
    <2>3. /\ syncCounts[q].active = RunningIn(q)
          /\ syncCounts[q].completed + syncCounts[q].failed = EndedIn(q) + LettersIn(q)
          /\ syncDead[q] <= syncCounts[q].failed
        BY DEF SyncInv, CountsTell
    <2>4. QED
        BY <1>1, <1>2, <1>3, <1>5, <2>2, <2>3
<1>8. OpenTells'
    BY <1>1, <1>2, <1>5 DEF SyncInv, SyncTyped, OpenTells, StoredTells
<1>9. QED
    BY <1>6, <1>7, <1>8 DEF SyncInv

LEMMA WaitKeeps ==
    ASSUME SyncInv, NEW c \in SyncCallers, WaitForReportJob(c)
    PROVE  SyncInv'
<1> DEFINE place == IF syncStored[c] = "result" THEN "answered" ELSE "failed"
<1>1. /\ syncCaller[c] = "wait" /\ syncCaller' = [syncCaller EXCEPT ![c] = place]
      /\ UNCHANGED <<syncStored, syncCounts, syncDead, syncLetters, syncClosed>>
    BY DEF WaitForReportJob
<1>2. /\ place \in {"answered", "failed"} /\ (place = "failed" => syncStored[c] # "result")
      /\ (place = "answered" => syncStored[c] = "result")
    OBVIOUS
<1> HIDE DEF place
<1>3. SyncTyped'
    BY <1>1, <1>2 DEF SyncInv, SyncTyped
<1>4. \A q \in SyncQueues : RunningIn(q)' = RunningIn(q) /\ EndedIn(q)' = EndedIn(q)
    <2>1. place \notin {"running"} /\ place \in Ended /\ "wait" \notin {"running"} /\ "wait" \in Ended
        BY <1>2 DEF Ended
    <2>2. CallerMoved(syncCaller, syncCaller', c, place)
        BY <1>1 DEF SyncInv, SyncTyped, CallerMoved
    <2>3. ASSUME NEW q
          PROVE  /\ RunningIn(q) \in Nat /\ RunningIn(q)' \in Nat
                 /\ EndedIn(q) \in Nat /\ EndedIn(q)' \in Nat
                 /\ RunningIn(q)' = RunningIn(q)
                      + (IF QueueOf[c] = q /\ place \in {"running"} THEN 1 ELSE 0)
                      - (IF QueueOf[c] = q /\ syncCaller[c] \in {"running"} THEN 1 ELSE 0)
                 /\ EndedIn(q)' = EndedIn(q)
                      + (IF QueueOf[c] = q /\ place \in Ended THEN 1 ELSE 0)
                      - (IF QueueOf[c] = q /\ syncCaller[c] \in Ended THEN 1 ELSE 0)
        BY <2>2, JobsGo
    <2>4. QED
        BY <1>1, <2>1, <2>3
<1>5. CountsTell' /\ OpenTells'
    BY <1>1, <1>2, <1>4 DEF SyncInv, SyncTyped, CountsTell, OpenTells, StoredTells, LettersIn
<1>6. QED
    BY <1>3, <1>5 DEF SyncInv

LEMMA LetterKeeps ==
    ASSUME SyncInv, AddOutboxDeadLetter
    PROVE  SyncInv'
<1>1. /\ syncLetters' = syncLetters + 1
      /\ syncDead' = [syncDead EXCEPT !["OUTBOX"] = @ + 1]
      /\ syncCounts' = [syncCounts EXCEPT !["OUTBOX"].failed = @ + 1]
      /\ UNCHANGED <<syncCaller, syncStored, syncClosed>>
    BY DEF AddOutboxDeadLetter
<1>2. /\ "OUTBOX" \in SyncQueues /\ SyncTyped
      /\ \A q \in SyncQueues : syncCounts[q].active \in Nat /\ syncCounts[q].completed \in Nat
                               /\ syncCounts[q].failed \in Nat
      /\ DOMAIN NoCounts = {"active", "completed", "failed"}
    BY CountsTyped DEF SyncInv, SyncQueues
<1>3. /\ syncCounts' \in [SyncQueues -> [DOMAIN NoCounts -> Nat]]
      /\ \A q \in SyncQueues :
            /\ syncCounts'[q].active = syncCounts[q].active
            /\ syncCounts'[q].completed = syncCounts[q].completed
            /\ syncCounts'[q].failed = syncCounts[q].failed + (IF q = "OUTBOX" THEN 1 ELSE 0)
            /\ syncDead'[q] = syncDead[q] + (IF q = "OUTBOX" THEN 1 ELSE 0)
    BY <1>1, <1>2 DEF SyncTyped
<1>4. SyncTyped'
    BY <1>1, <1>2, <1>3 DEF SyncTyped
<1>5. CountsTell'
    <2>1. SUFFICES ASSUME NEW q \in SyncQueues
                   PROVE  /\ syncCounts'[q].active = RunningIn(q)'
                          /\ syncCounts'[q].completed + syncCounts'[q].failed = EndedIn(q)' + LettersIn(q)'
                          /\ syncDead'[q] <= syncCounts'[q].failed
        BY DEF CountsTell
    <2>2. /\ LettersIn(q) \in Nat /\ syncDead[q] \in Nat
          /\ LettersIn(q)' = LettersIn(q) + (IF q = "OUTBOX" THEN 1 ELSE 0)
        BY <1>1, <1>2, CountsTyped DEF LettersIn
    <2>3. /\ syncCounts[q].active = RunningIn(q)
          /\ syncCounts[q].completed + syncCounts[q].failed = EndedIn(q) + LettersIn(q)
          /\ syncDead[q] <= syncCounts[q].failed
        BY DEF SyncInv, CountsTell
    <2>4. /\ RunningIn(q)' = RunningIn(q) /\ EndedIn(q)' = EndedIn(q)
          /\ EndedIn(q) \in Nat
        BY <1>1, JobsStay, JobsCounted DEF EndedIn
    <2>5. QED
        BY <1>1, <1>2, <1>3, <2>2, <2>3, <2>4
<1>6. OpenTells'
    BY <1>1, <1>2, <1>3 DEF SyncInv, SyncTyped, OpenTells, StoredTells
<1>7. QED
    BY <1>4, <1>5, <1>6 DEF SyncInv

LEMMA CloseKeeps ==
    ASSUME SyncInv, CloseProvider
    PROVE  SyncInv'
<1>1. /\ syncClosed' = syncClosed + 1 /\ syncStored' = [c \in SyncCallers |-> "none"]
      /\ syncDead' = [q \in SyncQueues |-> 0]
      /\ UNCHANGED <<syncCaller, syncCounts, syncLetters>>
    BY DEF CloseProvider
<1>2. SyncTyped' /\ syncClosed' # 0
    BY <1>1 DEF SyncInv, SyncTyped
<1>3. CountsTell'
    <2>1. SUFFICES ASSUME NEW q \in SyncQueues
                   PROVE  /\ syncCounts'[q].active = RunningIn(q)'
                          /\ syncCounts'[q].completed + syncCounts'[q].failed = EndedIn(q)' + LettersIn(q)'
                          /\ syncDead'[q] <= syncCounts'[q].failed
        BY DEF CountsTell
    <2>2. RunningIn(q)' = RunningIn(q) /\ EndedIn(q)' = EndedIn(q)
        BY <1>1, JobsStay
    <2>3. syncCounts[q].failed \in Nat
        BY CountsTyped DEF SyncInv
    <2>4. QED
        BY <1>1, <2>2, <2>3 DEF SyncInv, CountsTell, LettersIn
<1>4. OpenTells'
    BY <1>2 DEF OpenTells
<1>5. QED
    BY <1>2, <1>3, <1>4 DEF SyncInv

LEMMA SyncStep == SyncInv /\ [SyncQueueNext]_syncVars => SyncInv'
<1>1. SUFFICES ASSUME SyncInv, [SyncQueueNext]_syncVars PROVE SyncInv'
    OBVIOUS
<1>2. CASE UNCHANGED syncVars
    <2>1. UNCHANGED <<syncCaller, syncStored, syncCounts, syncDead, syncLetters, syncClosed>>
        BY <1>2 DEF syncVars
    <2>2. \A q : RunningIn(q)' = RunningIn(q) /\ EndedIn(q)' = EndedIn(q)
        BY <2>1, JobsStay
    <2>3. QED
        BY <1>1, <2>1, <2>2 DEF SyncInv, SyncTyped, CountsTell, OpenTells, StoredTells, LettersIn
<1>3. QED
    BY <1>1, <1>2, RefusedKeeps, EnqueueKeeps, SucceedsKeeps, JobFaultKeeps, WaitKeeps, LetterKeeps,
       CloseKeeps DEF SyncQueueNext

LEMMA SyncTells == SyncInv => QueueTellsJobs
<1>1. SUFFICES ASSUME SyncInv PROVE QueueTellsJobs
    OBVIOUS
<1>2. ASSUME NEW q \in SyncQueues
      PROVE  /\ syncCounts[q].active = JobsIn(q, {"running"})
             /\ syncCounts[q].completed + syncCounts[q].failed - LettersIn(q)
                   = JobsIn(q, {"wait", "answered", "failed"})
             /\ syncDead[q] <= syncCounts[q].failed
    <2>1. /\ syncCounts[q].completed \in Nat /\ syncCounts[q].failed \in Nat /\ LettersIn(q) \in Nat
          /\ EndedIn(q) \in Nat
        BY <1>1, CountsTyped, JobsCounted DEF SyncInv, EndedIn
    <2>2. /\ RunningIn(q) = JobsIn(q, {"running"})
          /\ EndedIn(q) = JobsIn(q, {"wait", "answered", "failed"})
        BY DEF RunningIn, EndedIn, Ended
    <2>3. QED
        BY <1>1, <2>1, <2>2 DEF SyncInv, CountsTell
<1>3. ASSUME syncClosed = 0
      PROVE  Cardinality({c \in SyncCallers : syncStored[c] # "none"})
                = JobsIn("REPORT", {"running", "wait", "answered", "failed"})
                  + JobsIn("OUTBOX", {"running", "answered", "failed"})
    <2> DEFINE reports == {c \in SyncCallers : QueueOf[c] = "REPORT"
                                               /\ syncCaller[c] \in {"running", "wait", "answered", "failed"}}
               events == {c \in SyncCallers : QueueOf[c] = "OUTBOX"
                                              /\ syncCaller[c] \in {"running", "answered", "failed"}}
               stored == {c \in SyncCallers : syncStored[c] # "none"}
    <2>1. IsFiniteSet(reports) /\ IsFiniteSet(events)
        BY SyncQueueAssumption, FS_Subset
    <2>2. stored = reports \cup events
        <3>1. ASSUME NEW c \in SyncCallers PROVE c \in stored <=> c \in reports \/ c \in events
            <4>1. /\ QueueOf[c] \in {"REPORT", "OUTBOX"} /\ StoredTells(c)
                  /\ syncCaller[c] \in {"new", "running", "wait", "answered", "failed", "refused"}
                  /\ (syncCaller[c] = "wait" => QueueOf[c] = "REPORT")
                BY <1>1, <1>3, SyncQueueAssumption DEF SyncQueues, SyncInv, SyncTyped, OpenTells
            <4>2. QED
                BY <4>1 DEF StoredTells
        <3>2. QED
            BY <3>1
    <2>3. reports \cap events = {}
        OBVIOUS
    <2>4. /\ JobsIn("REPORT", {"running", "wait", "answered", "failed"}) = Cardinality(reports)
          /\ JobsIn("OUTBOX", {"running", "answered", "failed"}) = Cardinality(events)
        BY DEF JobsIn
    <2> HIDE DEF reports, events, stored
    <2>5. Cardinality(stored) = Cardinality(reports) + Cardinality(events)
        BY <2>1, <2>2, <2>3, DisjointCounted
    <2>6. QED
        BY <2>4, <2>5 DEF stored
<1>4. syncClosed = 0 => /\ \A q \in SyncQueues : syncDead[q] = syncCounts[q].failed
                        /\ \A c \in SyncCallers : syncCaller[c] = "failed" => syncStored[c] = "failure"
    BY <1>1 DEF SyncInv, OpenTells, StoredTells
<1>5. QED
    BY <1>2, <1>3, <1>4 DEF QueueTellsJobs

\* The counts tell the jobs across failures and closes, every failure has its dead
\* letter and no record leaves the map until a close (SyncQueue.QueueTellsJobs).
THEOREM QueueTells == SyncQueueSpec => []QueueTellsJobs
<1>1. QED
    BY SyncInitially, SyncStep, SyncTells, PTL DEF SyncQueueSpec

-----------------------------------------------------------------------------
(* SLA policies *)

\* A creation brings a whole policy with its targets in order.
InputInOrder(r) ==
    /\ Input(r).kind = "create" =>
          /\ Input(r).name # "keep" /\ Input(r).first # 0 /\ Input(r).resolution # 0
          /\ Input(r).first <= Input(r).resolution
          /\ Input(r).categories \in {"known", "unknown"}
          /\ polRequest[r].pc \in {"name", "write"} => Input(r).categories # "unknown"
    /\ Input(r).kind = "update" => Input(r).categories \in {"keep", "twice"}

\* What an update has validated is the row, unless another has changed it since.
ReadStands(r) ==
    Input(r).kind = "update" /\ polRequest[r].pc \in {"name", "write"} /\ ~polRequest[r].stale
        => /\ polRequest[r].seen = polRow[Input(r).id] /\ polRequest[r].seen # NoPolicy
           /\ TargetsInOrder(Input(r).first, Input(r).resolution, polRequest[r].seen)

TargetsKept ==
    \A p \in Policies : StoredPolicy(p) /\ p \notin polBlind => polRow[p].first <= polRow[p].resolution

NamesUnique ==
    \A p, q \in Policies : p # q /\ polRow[p].name = polRow[q].name => polRow[p].name = "none"

Unaudited == {r \in PolicyRequests : PolicyAt(r, "done")} \ polAudited

PolicyInv ==
    /\ PolicyTypeOK
    /\ \A r \in PolicyRequests : InputInOrder(r) /\ ReadStands(r)
    /\ TargetsKept /\ NamesUnique
    /\ Cardinality(Unaudited) <= polFaults
    /\ \A r \in polAudited : PolicyAt(r, "done")

\* One request goes on, and the table stays.
PolicyMoves(r, input, pc, seen) ==
    /\ polRequest' \in [PolicyRequests -> PolicyRequest]
    /\ polRequest'[r].input = input /\ polRequest'[r].pc = pc /\ polRequest'[r].seen = seen
    /\ polRequest'[r].stale = polRequest[r].stale
    /\ \A q \in PolicyRequests : q # r => polRequest'[q] = polRequest[q]

LEMMA PolicyRequestTyped ==
    ASSUME PolicyTypeOK, NEW r \in PolicyRequests
    PROVE  /\ polRequest[r] \in PolicyRequest /\ Input(r) \in PolicyInput /\ Input(r).id \in Policies
           /\ Input(r).kind \in {"create", "update", "delete"} /\ polRequest[r].stale \in BOOLEAN
           /\ polRequest[r].pc \in {"new", "read", "name", "write", "audit", "done", "refused", "failed"}
<1>1. polRequest[r] \in PolicyRequest
    BY DEF PolicyTypeOK
<1>2. Input(r) \in PolicyInput
    BY <1>1 DEF PolicyRequest, Input
<1>3. QED
    BY <1>1, <1>2 DEF PolicyRequest, PolicyInput

LEMMA PolicyGoesMoves ==
    ASSUME PolicyTypeOK, NEW r \in PolicyRequests,
           NEW pc \in {"new", "read", "name", "write", "audit", "done", "refused", "failed"},
           PolicyGoes(r, pc)
    PROVE  PolicyMoves(r, Input(r), pc, polRequest[r].seen)
<1>1. polRequest' = [polRequest EXCEPT ![r].pc = pc]
    BY DEF PolicyGoes
<1>2. polRequest[r] \in PolicyRequest /\ polRequest \in [PolicyRequests -> PolicyRequest]
    BY DEF PolicyTypeOK
<1>3. [polRequest[r] EXCEPT !.pc = pc] \in PolicyRequest
    BY <1>2 DEF PolicyRequest
<1>4. QED
    BY <1>1, <1>2, <1>3 DEF PolicyMoves, Input, PolicyRequest

LEMMA AuditStays ==
    ASSUME PolicyInv, Unaudited' \subseteq Unaudited, UNCHANGED polFaults
    PROVE  Cardinality(Unaudited') <= polFaults'
<1>1. IsFiniteSet(Unaudited)
    BY PolicyAssumption, FS_Subset DEF Unaudited
<1>2. QED
    BY <1>1, PolicyAssumption, PartCounted DEF PolicyInv, PolicyTypeOK

LEMMA PolicyFrame ==
    ASSUME PolicyInv, NEW r \in PolicyRequests, NEW input, NEW pc, NEW seen,
           PolicyMoves(r, input, pc, seen), UNCHANGED <<polRow, polBlind>>,
           InputInOrder(r)', ReadStands(r)',
           polAudited' \subseteq PolicyRequests, polFaults' \in 0..MaxPolicyFaults,
           Cardinality(Unaudited') <= polFaults', \A q \in polAudited' : PolicyAt(q, "done")'
    PROVE  PolicyInv'
<1>1. PolicyTypeOK'
    BY DEF PolicyInv, PolicyTypeOK, PolicyMoves
<1>2. ASSUME NEW q \in PolicyRequests PROVE InputInOrder(q)' /\ ReadStands(q)'
    <2>1. CASE q = r
        BY <2>1
    <2>2. CASE q # r
        <3>1. polRequest'[q] = polRequest[q] /\ InputInOrder(q) /\ ReadStands(q)
            BY <2>2 DEF PolicyMoves, PolicyInv
        <3>2. QED
            BY <3>1 DEF InputInOrder, ReadStands, Input
    <2>3. QED
        BY <2>1, <2>2
<1>3. TargetsKept' /\ NamesUnique'
    BY DEF PolicyInv, TargetsKept, NamesUnique, StoredPolicy
<1>4. QED
    BY <1>1, <1>2, <1>3 DEF PolicyInv

LEMMA NoInputTyped ==
    /\ NoInput \in PolicyInput /\ NoInput.kind = "delete" /\ NoInput.id \in Policies
    /\ \A p \in Policies : [NoInput EXCEPT !.id = p] \in PolicyInput
                           /\ [NoInput EXCEPT !.id = p].kind = "delete"
<1>1. (CHOOSE p \in Policies : TRUE) \in Policies
    BY PolicyAssumption
<1>2. QED
    BY <1>1 DEF NoInput, PolicyInput

LEMMA PolicyInitially == PolicyInit => PolicyInv
<1>1. SUFFICES ASSUME PolicyInit PROVE PolicyInv
    OBVIOUS
<1>2. PICK row \in {NoPolicy} \cup {policy \in Policy :
                               /\ policy.first <= policy.resolution /\ policy.categories = "none"
                               /\ policy.name = CHOOSE name \in PolicyNames : TRUE} :
          polRow = [p \in Policies |-> IF p = NoInput.id THEN row ELSE NoPolicy]
    BY <1>1 DEF PolicyInit
<1>3. /\ polRequest = [r \in PolicyRequests |-> AtPolicyStart(NoInput)]
      /\ polBlind = {} /\ polAudited = {} /\ polFaults = 0
    BY <1>1 DEF PolicyInit
<1>4. AtPolicyStart(NoInput) \in PolicyRequest
    BY NoInputTyped DEF AtPolicyStart, PolicyRequest
<1>5. PolicyTypeOK
    BY <1>2, <1>3, <1>4, PolicyAssumption DEF PolicyTypeOK
<1>6. \A r \in PolicyRequests : polRequest[r].pc = "new" /\ Input(r).kind = "delete"
    BY <1>3, NoInputTyped DEF AtPolicyStart, Input
<1>7. \A r \in PolicyRequests : InputInOrder(r) /\ ReadStands(r)
    BY <1>6 DEF InputInOrder, ReadStands
<1>8. TargetsKept /\ NamesUnique
    BY <1>2 DEF TargetsKept, NamesUnique, StoredPolicy, NoPolicy
<1>9. Unaudited = {}
    BY <1>6 DEF Unaudited, PolicyAt
<1>10. QED
    BY <1>3, <1>5, <1>7, <1>8, <1>9, FS_EmptySet DEF PolicyInv

\* What a request begins with.
Received(r, input) ==
    /\ polRequest' = [polRequest EXCEPT ![r].pc = "read", ![r].input = input]
    /\ input.kind = "create" =>
          /\ input.name # "keep" /\ input.first # 0 /\ input.resolution # 0
          /\ input.first <= input.resolution /\ input.categories \in {"known", "unknown"}
    /\ input.kind = "update" => input.categories \in {"keep", "twice"}

LEMMA ReceiveKeeps ==
    ASSUME PolicyInv, NEW r \in PolicyRequests, ReceivePolicyRequest(r)
    PROVE  PolicyInv'
<1>1. /\ polRequest[r].pc = "new" /\ UNCHANGED <<polRow, polBlind, polAudited, polFaults>>
    BY DEF ReceivePolicyRequest, PolicyAt
<1>2. \E input \in PolicyInput : Received(r, input)
    <2>1. ASSUME NEW p \in Policies, NEW n \in PolicyNames, NEW f \in Hours, NEW h \in Hours,
                 NEW c \in {"known", "unknown"}, f <= h,
                 polRequest' = [polRequest EXCEPT ![r].pc = "read", ![r].input =
                       [kind |-> "create", id |-> p, name |-> n, first |-> f, resolution |-> h,
                        categories |-> c]]
          PROVE  \E in \in PolicyInput : Received(r, in)
        <3> DEFINE input == [kind |-> "create", id |-> p, name |-> n, first |-> f, resolution |-> h,
                             categories |-> c]
        <3>1. input \in PolicyInput
            BY DEF PolicyInput
        <3>2. /\ input.name # "keep" /\ input.first # 0 /\ input.resolution # 0
              /\ input.first <= input.resolution /\ input.categories \in {"known", "unknown"}
              /\ input.kind = "create"
            BY <2>1, PolicyAssumption DEF Hours
        <3>3. polRequest' = [polRequest EXCEPT ![r].pc = "read", ![r].input = input]
            BY <2>1
        <3> HIDE DEF input
        <3>4. QED
            BY <3>1, <3>2, <3>3 DEF Received
    <2>2. ASSUME NEW p \in Policies, NEW n \in PolicyNames \cup {"keep"}, NEW f \in {0} \cup Hours,
                 NEW h \in {0} \cup Hours, NEW c \in {"keep", "twice"},
                 polRequest' = [polRequest EXCEPT ![r].pc = "read", ![r].input =
                       [kind |-> "update", id |-> p, name |-> n, first |-> f, resolution |-> h,
                        categories |-> c]]
          PROVE  \E in \in PolicyInput : Received(r, in)
        <3> DEFINE input == [kind |-> "update", id |-> p, name |-> n, first |-> f, resolution |-> h,
                             categories |-> c]
        <3>1. input \in PolicyInput /\ input.kind = "update" /\ input.categories \in {"keep", "twice"}
            BY DEF PolicyInput
        <3>2. polRequest' = [polRequest EXCEPT ![r].pc = "read", ![r].input = input]
            BY <2>2
        <3> HIDE DEF input
        <3>3. QED
            BY <3>1, <3>2 DEF Received
    <2>3. ASSUME NEW p \in Policies,
                 polRequest' = [polRequest EXCEPT ![r].pc = "read", ![r].input = [NoInput EXCEPT !.id = p]]
          PROVE  \E in \in PolicyInput : Received(r, in)
        BY <2>3, NoInputTyped DEF Received
    <2>4. QED
        BY <2>1, <2>2, <2>3 DEF ReceivePolicyRequest
<1>3. PICK input \in PolicyInput : Received(r, input)
    BY <1>2
<1>4. PolicyMoves(r, input, "read", polRequest[r].seen)
    <2>1. polRequest[r] \in PolicyRequest /\ polRequest \in [PolicyRequests -> PolicyRequest]
        BY DEF PolicyInv, PolicyTypeOK
    <2>2. [polRequest[r] EXCEPT !.pc = "read", !.input = input] \in PolicyRequest
        BY <2>1 DEF PolicyRequest
    <2>3. QED
        BY <1>3, <2>1, <2>2 DEF Received, PolicyMoves, PolicyRequest
<1>5. InputInOrder(r)' /\ ReadStands(r)'
    BY <1>3, <1>4 DEF Received, InputInOrder, ReadStands, Input, PolicyMoves
<1>6. Unaudited' \subseteq Unaudited /\ \A q \in polAudited : PolicyAt(q, "done")'
    BY <1>1, <1>4 DEF Unaudited, PolicyAt, PolicyMoves, PolicyInv, PolicyTypeOK
<1>7. QED
    BY <1>1, <1>4, <1>5, <1>6, AuditStays, PolicyFrame DEF PolicyInv, PolicyTypeOK

LEMMA ValidateKeeps ==
    ASSUME PolicyInv, NEW r \in PolicyRequests, ValidatePolicy(r)
    PROVE  PolicyInv'
<1> DEFINE seen == polRow[Input(r).id]
<1>1. /\ polRequest[r].pc = "read" /\ UNCHANGED <<polRow, polBlind, polAudited, polFaults>>
    BY DEF ValidatePolicy, PolicyAt
<1>2. /\ polRequest[r] \in PolicyRequest /\ Input(r).id \in Policies
      /\ Input(r).kind \in {"create", "update", "delete"}
      /\ polRow[Input(r).id] \in Policy \cup {NoPolicy}
    BY PolicyRequestTyped DEF PolicyInv, PolicyTypeOK
<1>3. PICK pc \in {"refused", "name", "write"} :
          /\ polRequest' = [polRequest EXCEPT ![r].seen = seen, ![r].pc = pc]
          /\ pc # "refused" /\ Input(r).kind = "create" => Input(r).categories # "unknown"
          /\ pc # "refused" /\ Input(r).kind = "update" =>
                seen # NoPolicy /\ TargetsInOrder(Input(r).first, Input(r).resolution, seen)
    BY <1>2 DEF ValidatePolicy
<1>4. PolicyMoves(r, Input(r), pc, seen)
    <2>1. polRequest \in [PolicyRequests -> PolicyRequest]
        BY DEF PolicyInv, PolicyTypeOK
    <2>2. [polRequest[r] EXCEPT !.seen = seen, !.pc = pc] \in PolicyRequest
        BY <1>2 DEF PolicyRequest
    <2>3. QED
        BY <1>2, <1>3, <2>1, <2>2 DEF PolicyMoves, PolicyRequest, Input
<1>5. InputInOrder(r)' /\ ReadStands(r)'
    <2>1. InputInOrder(r) /\ Input(r)' = Input(r)
        BY <1>4 DEF PolicyInv, PolicyMoves, Input
    <2>2. InputInOrder(r)'
        BY <1>3, <1>4, <2>1 DEF InputInOrder, PolicyMoves
    <2>3. ReadStands(r)'
        BY <1>1, <1>3, <1>4, <2>1 DEF ReadStands, PolicyMoves
    <2>4. QED
        BY <2>2, <2>3
<1>6. Unaudited' \subseteq Unaudited /\ \A q \in polAudited : PolicyAt(q, "done")'
    BY <1>1, <1>4 DEF Unaudited, PolicyAt, PolicyMoves, PolicyInv, PolicyTypeOK
<1>7. QED
    BY <1>1, <1>4, <1>5, <1>6, AuditStays, PolicyFrame DEF PolicyInv, PolicyTypeOK

\* A request that is not audited by its step.
LEMMA UnauditedKeeps ==
    ASSUME PolicyInv, NEW r \in PolicyRequests, NEW pc \in {"write", "audit", "refused", "failed"},
           polRequest[r].pc \in {"name", "write"},
           PolicyGoes(r, pc), pc = "write" => polRequest[r].pc = "name",
           UNCHANGED <<polRow, polBlind, polAudited, polFaults>>
    PROVE  PolicyInv'
<1>1. PolicyMoves(r, Input(r), pc, polRequest[r].seen)
    BY PolicyGoesMoves DEF PolicyInv
<1>2. InputInOrder(r)' /\ ReadStands(r)'
    BY <1>1 DEF InputInOrder, ReadStands, Input, PolicyMoves, PolicyInv
<1>3. Unaudited' \subseteq Unaudited /\ \A q \in polAudited : PolicyAt(q, "done")'
    BY <1>1 DEF Unaudited, PolicyAt, PolicyMoves, PolicyInv, PolicyTypeOK
<1>4. QED
    BY <1>1, <1>2, <1>3, AuditStays, PolicyFrame DEF PolicyInv, PolicyTypeOK

LEMMA CheckNameKeeps ==
    ASSUME PolicyInv, NEW r \in PolicyRequests, CheckPolicyName(r)
    PROVE  PolicyInv'
<1>1. QED
    BY UnauditedKeeps DEF CheckPolicyName, PolicyAt

LEMMA WrittenTyped ==
    ASSUME PolicyInv, NEW r \in PolicyRequests, polRequest[r].pc = "write",
           Input(r).kind = "create" \/ StoredPolicy(Input(r).id),
           Input(r).kind # "delete", Input(r).categories # "twice"
    PROVE  PolicyWritten(Input(r), polRow[Input(r).id]) \in Policy
<1> DEFINE row == polRow[Input(r).id]
           input == Input(r)
<1>1. /\ input \in PolicyInput /\ row \in Policy \cup {NoPolicy} /\ InputInOrder(r)
    BY PolicyRequestTyped DEF PolicyInv, PolicyTypeOK
<1>2. CASE input.kind = "create"
    <2>1. input.name \in PolicyNames /\ input.first \in Hours /\ input.resolution \in Hours
          /\ input.categories = "known"
        BY <1>1, <1>2 DEF InputInOrder, PolicyInput
    <2>2. QED
        BY <2>1, PolicyAssumption DEF PolicyWritten, Policy, Given, Hours
<1>3. CASE input.kind = "update"
    <2>1. row \in Policy
        BY <1>1, <1>3 DEF StoredPolicy
    <2>2. input.name \in PolicyNames \cup {"keep"} /\ input.first \in {0} \cup Hours
          /\ input.resolution \in {0} \cup Hours /\ input.categories = "keep"
        BY <1>1, <1>3 DEF InputInOrder, PolicyInput
    <2>3. QED
        BY <2>1, <2>2 DEF PolicyWritten, Policy, Given
<1>4. QED
    BY <1>1, <1>2, <1>3 DEF PolicyInput

LEMMA WritePolicyKeeps ==
    ASSUME PolicyInv, NEW r \in PolicyRequests, WritePolicy(r)
    PROVE  PolicyInv'
<1> DEFINE p == Input(r).id
           delete == Input(r).kind = "delete"
           new == IF delete THEN NoPolicy ELSE PolicyWritten(Input(r), polRow[p])
           broken == \/ Input(r).kind # "create" /\ ~StoredPolicy(p)
                     \/ ~delete /\ Input(r).categories = "twice"
                     \/ ~delete /\ Holders(Input(r).name) \ {p} # {}
<1>1. /\ polRequest[r].pc = "write" /\ UNCHANGED <<polAudited, polFaults>>
      /\ broken => (PolicyGoes(r, "refused") \/ PolicyGoes(r, "audit")) /\ UNCHANGED <<polRow, polBlind>>
      /\ ~broken =>
            /\ polRow' = [polRow EXCEPT ![p] = new]
            /\ polBlind' = IF polRequest[r].stale THEN polBlind \cup {p} ELSE polBlind
            /\ polRequest' = [q \in PolicyRequests |->
                   IF q = r THEN [polRequest[q] EXCEPT !.pc = "audit"]
                   ELSE IF Input(q).id = p /\ polRequest[q].pc \in {"name", "write"}
                        THEN [polRequest[q] EXCEPT !.stale = TRUE] ELSE polRequest[q]]
    BY DEF WritePolicy, PolicyAt
<1>2. CASE broken
    BY <1>1, <1>2, UnauditedKeeps
<1>3. CASE ~broken
    <2>1. /\ p \in Policies /\ Input(r) \in PolicyInput /\ Input(r).kind \in {"create", "update", "delete"}
          /\ polRequest[r].stale \in BOOLEAN
          /\ polRow \in [Policies -> Policy \cup {NoPolicy}]
        BY PolicyRequestTyped DEF PolicyInv, PolicyTypeOK
    <2>2. /\ Input(r).kind # "create" => StoredPolicy(p)
          /\ ~delete => Input(r).categories # "twice" /\ Holders(Input(r).name) \subseteq {p}
        BY <1>3
    <2>3. new \in Policy \cup {NoPolicy} /\ (~delete => new = PolicyWritten(Input(r), polRow[p]) /\ new \in Policy)
        BY <1>1, <2>1, <2>2, WrittenTyped
    <2>4. /\ polRow' \in [Policies -> Policy \cup {NoPolicy}]
          /\ \A o \in Policies : polRow'[o] = IF o = p THEN new ELSE polRow[o]
        BY <1>1, <1>3, <2>1, <2>3
    <2>5. ASSUME NEW q \in PolicyRequests
          PROVE  /\ polRequest'[q] \in PolicyRequest
                 /\ polRequest'[q].input = polRequest[q].input /\ polRequest'[q].seen = polRequest[q].seen
                 /\ polRequest'[q].pc = IF q = r THEN "audit" ELSE polRequest[q].pc
                 /\ q # r => polRequest'[q].stale = (polRequest[q].stale
                                \/ (Input(q).id = p /\ polRequest[q].pc \in {"name", "write"}))
        <3>1. polRequest[q] \in PolicyRequest /\ polRequest[q].stale \in BOOLEAN
            BY PolicyRequestTyped DEF PolicyInv
        <3>2. [polRequest[q] EXCEPT !.pc = "audit"] \in PolicyRequest
              /\ [polRequest[q] EXCEPT !.stale = TRUE] \in PolicyRequest
            BY <3>1 DEF PolicyRequest
        <3>3. polRequest'[q] =
                 IF q = r THEN [polRequest[q] EXCEPT !.pc = "audit"]
                 ELSE IF Input(q).id = p /\ polRequest[q].pc \in {"name", "write"}
                      THEN [polRequest[q] EXCEPT !.stale = TRUE] ELSE polRequest[q]
            BY <1>1, <1>3
        <3>4. QED
            BY <3>1, <3>2, <3>3 DEF PolicyRequest
    <2> HIDE DEF new, broken
    <2>6. PolicyTypeOK'
        <3>1. polBlind' \subseteq Policies
            BY <1>1, <1>3, <2>1 DEF PolicyInv, PolicyTypeOK
        <3>2. polRequest' \in [PolicyRequests -> PolicyRequest]
            BY <1>1, <1>3, <2>5
        <3>3. QED
            BY <1>1, <2>4, <3>1, <3>2 DEF PolicyInv, PolicyTypeOK
    <2>7. ASSUME NEW q \in PolicyRequests PROVE InputInOrder(q)' /\ ReadStands(q)'
        <3>1. InputInOrder(q) /\ ReadStands(q) /\ Input(q)' = Input(q) /\ Input(q).id \in Policies
            BY <2>5, PolicyRequestTyped DEF PolicyInv, Input
        <3>2. InputInOrder(q)'
            BY <2>5, <3>1 DEF InputInOrder
        <3>3. ReadStands(q)'
            <4>1. CASE q = r
                BY <2>5, <4>1 DEF ReadStands
            <4>2. CASE q # r
                <5>1. SUFFICES ASSUME Input(q).kind = "update", polRequest[q].pc \in {"name", "write"},
                                      ~polRequest'[q].stale
                               PROVE  /\ polRequest[q].seen = polRow'[Input(q).id]
                                      /\ polRequest[q].seen # NoPolicy
                                      /\ TargetsInOrder(Input(q).first, Input(q).resolution, polRequest[q].seen)
                    <6>1. polRequest'[q].pc = polRequest[q].pc /\ polRequest'[q].seen = polRequest[q].seen
                        BY <2>5, <4>2
                    <6>2. QED
                        BY <3>1, <6>1 DEF ReadStands, TargetsInOrder
                <5>2. ~polRequest[q].stale /\ Input(q).id # p
                    BY <2>5, <4>2, <5>1
                <5>3. polRow'[Input(q).id] = polRow[Input(q).id]
                    BY <2>4, <3>1, <5>2
                <5>4. QED
                    BY <3>1, <5>1, <5>2, <5>3 DEF ReadStands
            <4>3. QED
                BY <4>1, <4>2
        <3>4. QED
            BY <3>2, <3>3
    <2>8. TargetsKept'
        <3>1. ASSUME ~delete, p \notin polBlind' PROVE new.first <= new.resolution
            <4>1. /\ new = PolicyWritten(Input(r), polRow[p]) /\ new \in Policy
                  /\ ~polRequest[r].stale
                BY <1>1, <1>3, <2>1, <2>3, <3>1
            <4>2. CASE Input(r).kind = "create"
                BY <4>1, <4>2 DEF PolicyInv, InputInOrder, PolicyWritten, Given
            <4>3. CASE Input(r).kind = "update"
                <5>1. /\ polRequest[r].seen = polRow[p]
                      /\ TargetsInOrder(Input(r).first, Input(r).resolution, polRow[p])
                    BY <1>1, <4>1, <4>3 DEF PolicyInv, ReadStands
                <5>2. QED
                    BY <4>1, <5>1 DEF TargetsInOrder, PolicyWritten, Given
            <4>4. QED
                BY <2>1, <3>1, <4>2, <4>3
        <3>2. delete => new = NoPolicy
            BY DEF new
        <3>3. polBlind \subseteq polBlind'
            BY <1>1, <1>3
        <3>4. QED
            BY <2>4, <3>1, <3>2, <3>3 DEF PolicyInv, TargetsKept, StoredPolicy
    <2>9. NamesUnique'
        <3>1. new.name = "none" \/ \A o \in Policies \ {p} : polRow[o].name # new.name
            <4>1. CASE delete
                BY <4>1 DEF new, NoPolicy
            <4>2. CASE ~delete
                <5>1. new.name = Given(Input(r).name, "keep", polRow[p].name)
                    BY <2>3, <4>2 DEF PolicyWritten
                <5>2. CASE Input(r).name = "keep"
                    <6>1. new.name = polRow[p].name
                        BY <5>1, <5>2 DEF Given
                    <6>2. QED
                        BY <2>1, <6>1 DEF PolicyInv, NamesUnique
                <5>3. CASE Input(r).name # "keep"
                    BY <2>2, <4>2, <5>1, <5>3 DEF Given, Holders
                <5>4. QED
                    BY <5>2, <5>3
            <4>3. QED
                BY <4>1, <4>2
        <3>2. QED
            BY <2>1, <2>4, <3>1 DEF PolicyInv, NamesUnique
    <2>10. Unaudited' \subseteq Unaudited /\ \A q \in polAudited : PolicyAt(q, "done")'
        BY <1>1, <2>5 DEF Unaudited, PolicyAt, PolicyInv, PolicyTypeOK
    <2>11. QED
        BY <1>1, <2>6, <2>7, <2>8, <2>9, <2>10, AuditStays DEF PolicyInv
<1>4. QED
    BY <1>2, <1>3

LEMMA AuditKeeps ==
    ASSUME PolicyInv, NEW r \in PolicyRequests, AuditPolicy(r)
    PROVE  PolicyInv'
<1>1. /\ polAudited' = polAudited \cup {r} /\ PolicyGoes(r, "done")
      /\ polRequest[r].pc = "audit" /\ UNCHANGED <<polRow, polBlind, polFaults>>
    BY DEF AuditPolicy, PolicyAt
<1>2. PolicyMoves(r, Input(r), "done", polRequest[r].seen)
    BY <1>1, PolicyGoesMoves DEF PolicyInv
<1>3. InputInOrder(r)' /\ ReadStands(r)'
    BY <1>2 DEF InputInOrder, ReadStands, Input, PolicyMoves, PolicyInv
<1>4. Unaudited' \subseteq Unaudited /\ \A q \in polAudited' : PolicyAt(q, "done")'
    BY <1>1, <1>2 DEF Unaudited, PolicyAt, PolicyMoves, PolicyInv, PolicyTypeOK
<1>5. QED
    BY <1>1, <1>2, <1>3, <1>4, AuditStays, PolicyFrame DEF PolicyInv, PolicyTypeOK

LEMMA PolicyFaultKeeps ==
    ASSUME PolicyInv, NEW r \in PolicyRequests, PolicyRequestFails(r)
    PROVE  PolicyInv'
<1> DEFINE pc == IF PolicyAt(r, "audit") THEN "done" ELSE "failed"
<1>1. /\ polFaults' = polFaults + 1 /\ polFaults < MaxPolicyFaults /\ PolicyGoes(r, pc)
      /\ polRequest[r].pc # "done" /\ UNCHANGED <<polRow, polBlind, polAudited>>
    BY DEF PolicyRequestFails
<1>2. pc \in {"done", "failed"}
    OBVIOUS
<1> HIDE DEF pc
<1>3. PolicyMoves(r, Input(r), pc, polRequest[r].seen)
    BY <1>1, <1>2, PolicyGoesMoves DEF PolicyInv
<1>4. InputInOrder(r)' /\ ReadStands(r)'
    BY <1>2, <1>3 DEF InputInOrder, ReadStands, Input, PolicyMoves, PolicyInv
<1>5. Unaudited' \subseteq Unaudited \cup {r} /\ \A q \in polAudited' : PolicyAt(q, "done")'
    BY <1>1, <1>3 DEF Unaudited, PolicyAt, PolicyMoves, PolicyInv, PolicyTypeOK
<1>6. polFaults' \in 0..MaxPolicyFaults /\ polFaults \in Nat
    BY <1>1, PolicyAssumption DEF PolicyInv, PolicyTypeOK
<1>7. Cardinality(Unaudited') <= polFaults'
    <2>1. IsFiniteSet(Unaudited)
        BY PolicyAssumption, FS_Subset DEF Unaudited
    <2>2. QED
        BY <1>1, <1>5, <1>6, <2>1, OneMoreCounted DEF PolicyInv
<1>8. QED
    BY <1>1, <1>3, <1>4, <1>5, <1>6, <1>7, PolicyFrame DEF PolicyInv, PolicyTypeOK

LEMMA PolicyStep == PolicyInv /\ [PolicyNext]_polVars => PolicyInv'
<1>1. SUFFICES ASSUME PolicyInv, [PolicyNext]_polVars PROVE PolicyInv'
    OBVIOUS
<1>2. CASE UNCHANGED polVars
    BY <1>1, <1>2 DEF polVars, PolicyInv, PolicyTypeOK, InputInOrder, ReadStands, Input, TargetsKept,
       StoredPolicy, NamesUnique, Unaudited, PolicyAt
<1>3. QED
    BY <1>1, <1>2, ReceiveKeeps, ValidateKeeps, CheckNameKeeps, WritePolicyKeeps, AuditKeeps, PolicyFaultKeeps
       DEF PolicyNext

LEMMA PoliciesTell == PolicyInv => PoliciesConsistent
<1>1. SUFFICES ASSUME PolicyInv PROVE PoliciesConsistent
    OBVIOUS
<1>2. ASSUME NEW n \in PolicyNames PROVE Cardinality(Holders(n)) <= 1
    <2>1. \A p, q \in Holders(n) : p = q
        BY <1>1, PolicyAssumption DEF PolicyInv, NamesUnique, Holders
    <2>2. CASE Holders(n) = {}
        BY <2>2, FS_EmptySet
    <2>3. CASE Holders(n) # {}
        <3>1. PICK p : Holders(n) = {p}
            BY <2>1, <2>3
        <3>2. QED
            BY <3>1, FS_Singleton
    <2>4. QED
        BY <2>2, <2>3
<1>3. QED
    BY <1>1, <1>2 DEF PoliciesConsistent, PolicyInv, TargetsKept, Unaudited

\* Two requests have to overlap before a policy's targets are out of order, no two
\* policies share a name, and every change is audited, faults aside
\* (SlaPolicies.PoliciesConsistent).
THEOREM PoliciesStayConsistent == PolicySpec => []PoliciesConsistent
<1>1. QED
    BY PolicyInitially, PolicyStep, PoliciesTell, PTL DEF PolicySpec

-----------------------------------------------------------------------------
(* Knowledge articles *)

Readable(a) == artRow[a].status \in ArticleStatus

SlugFree(r) ==
    \A b \in Articles \ {artRequest[r].id} : Readable(b) => artRow[b].slug # artRequest[r].slug

\* What a request has found still holds, unless a write has outdated it.
FoundStands(r) ==
    /\ ArticleAt(r, "slugs") \/ ArticleAt(r, "write") =>
          /\ "row" \notin artRequest[r].stale => Allowed(artRequest[r].kind, RowOf(r).status)
          /\ artRequest[r].kind = "create" => RowOf(r).status = "absent"
    /\ ArticleAt(r, "slugs") =>
          /\ artRequest[r].kind \in {"create", "update"} /\ artRequest[r].base # NoSlug
          /\ "row" \notin artRequest[r].stale => artRequest[r].slug = RowOf(r).slug
    /\ ArticleAt(r, "write") /\ artRequest[r].kind = "create" => artRequest[r].slug # NoSlug
    /\ ArticleAt(r, "write") /\ artRequest[r].stale = {} /\ artRequest[r].kind \in {"create", "update"}
          /\ artRequest[r].base # NoSlug => SlugFree(r)

CreationsApart ==
    \A r, q \in ArticleRequests :
        artRequest[r].kind = "create" /\ artRequest[q].kind = "create" /\ r # q
            => artRequest[r].id # artRequest[q].id

BasesKept ==
    \A r \in ArticleRequests :
        /\ artRequest[r].kind = "create" => artRequest[r].base # NoSlug
        /\ artRequest[r].kind \notin {"create", "update"} => artRequest[r].base = NoSlug

RowsKept ==
    /\ \A a \in Articles : artRow[a].status = "absent" => artRow[a].slug = NoSlug
    /\ \A a \in Articles : artRow[a].status = "PUBLISHED" => artRow[a].published
    /\ \A a, b \in Articles : a # b /\ Readable(a) /\ Readable(b) => artRow[a].slug # artRow[b].slug

ArticleInv ==
    /\ ArticleTypeOK
    /\ \A r \in ArticleRequests : FoundStands(r)
    /\ CreationsApart /\ BasesKept /\ RowsKept
    /\ artRevived \subseteq artBlind
    /\ \A r \in artClashes : artRequest[r].stale # {}

ArticleRequest ==
    [kind : ArticleKinds, id : Articles, base : SlugBases \cup {NoSlug}, slug : Seq(Nat),
     pc : {"new", "slugs", "write", "done", "refused", "clash"}, stale : SUBSET {"row", "slugs"}]

LEMMA BasesTyped == NoSlug \in Seq(Nat) /\ \A base \in SlugBases : base \in Seq(Nat)
<1>1. NoSlug \in Seq(Nat)
    BY DEF NoSlug
<1>2. QED
    BY <1>1, ArticleAssumption

LEMMA ArticleRequestTyped ==
    ASSUME ArticleTypeOK, NEW r \in ArticleRequests
    PROVE  /\ artRequest[r] \in ArticleRequest /\ artRequest[r].kind \in ArticleKinds
           /\ artRequest[r].id \in Articles /\ artRequest[r].base \in Seq(Nat)
           /\ artRequest[r].base \in SlugBases \cup {NoSlug} /\ artRequest[r].slug \in Seq(Nat)
           /\ artRequest[r].stale \subseteq {"row", "slugs"} /\ RowOf(r) \in Article
<1>1. artRequest[r] \in ArticleRequest
    BY DEF ArticleTypeOK, ArticleRequest
<1>2. artRequest[r].base \in SlugBases \cup {NoSlug} /\ artRequest[r].id \in Articles
    BY <1>1 DEF ArticleRequest
<1>3. artRequest[r].base \in Seq(Nat)
    BY <1>2, BasesTyped
<1>4. RowOf(r) \in Article
    BY <1>2 DEF ArticleTypeOK, RowOf
<1>5. QED
    BY <1>1, <1>2, <1>3, <1>4 DEF ArticleRequest

LEMMA LeastExists ==
    ASSUME NEW S, S \subseteq Nat, S # {}
    PROVE  Min(S) \in S
<1>1. \E x \in S : \A y \in S : x <= y
    BY SmallestExists
<1>2. QED
    BY <1>1 DEF Min

\* The suffix that buildUniqueSlug tries.
Suffixed(base, n) == Append(base, n)

LEMMA SuffixedApart ==
    ASSUME NEW base \in Seq(Nat), NEW m \in Nat, NEW n \in Nat, Suffixed(base, m) = Suffixed(base, n)
    PROVE  m = n
<1>1. Append(base, m)[Len(base) + 1] = m /\ Append(base, n)[Len(base) + 1] = n
    OBVIOUS
<1>2. QED
    BY <1>1 DEF Suffixed

\* The slug that buildUniqueSlug finds is a slug, not an empty one, and not taken.
LEMMA UniqueSlugIsFree ==
    ASSUME NEW base \in Seq(Nat), base # NoSlug, NEW taken, IsFiniteSet(taken)
    PROVE  /\ BuildUniqueSlug(base, taken) \in Seq(Nat)
           /\ BuildUniqueSlug(base, taken) # NoSlug
           /\ BuildUniqueSlug(base, taken) \notin taken
<1>1. CASE base \notin taken
    BY <1>1 DEF BuildUniqueSlug
<1>2. CASE base \in taken
    <2> DEFINE card == Cardinality(taken)
               range == 2..(card + 2)
               free == {n \in range : Append(base, n) \notin taken}
    <2>1. card \in Nat
        BY FS_CardinalityType
    <2>2. IsFiniteSet(range) /\ Cardinality(range) = card + 1
        <3>1. 2 \in Int /\ card + 2 \in Int /\ ~ (2 > card + 2)
            BY <2>1
        <3> HIDE DEF card
        <3>2. QED
            BY <3>1, <2>1, FS_Interval
    <2>3. free # {}
        <3>1. SUFFICES ASSUME \A n \in range : Suffixed(base, n) \in taken PROVE FALSE
            BY DEF Suffixed
        <3> DEFINE f == [n \in range |-> Suffixed(base, n)]
        <3>2. f \in [range -> taken]
            BY <3>1
        <3>3. Cardinality(taken) < Cardinality(range)
            BY <2>1, <2>2
        <3>4. PICK m \in range, n \in range : m # n /\ f[m] = f[n]
            <4> HIDE DEF f, range
            <4>1. QED
                BY <3>2, <3>3, <2>2, FS_PigeonHole
        <3>5. Suffixed(base, m) = Suffixed(base, n) /\ m \in Nat /\ n \in Nat
            BY <3>4, <2>1
        <3>6. QED
            BY <3>4, <3>5, SuffixedApart
    <2>4. free \subseteq Nat
        BY <2>1
    <2>5. Min(free) \in free
        <3> HIDE DEF free
        <3>1. QED
            BY <2>3, <2>4, LeastExists
    <2>6. Min(free) \in Nat /\ Append(base, Min(free)) \notin taken
        <3>1. \A n \in free : n \in Nat /\ Append(base, n) \notin taken
            BY <2>4
        <3> HIDE DEF free
        <3>2. QED
            BY <2>5, <3>1
    <2>7. BuildUniqueSlug(base, taken) = Append(base, Min(free))
        BY <1>2 DEF BuildUniqueSlug
    <2>8. Len(Append(base, Min(free))) = Len(base) + 1 /\ Append(base, Min(free)) \in Seq(Nat)
        <3> HIDE DEF free
        <3>1. QED
            BY <2>6
    <2>9. Append(base, Min(free)) # NoSlug
        <3> HIDE DEF free
        <3>1. QED
            BY <2>8 DEF NoSlug
    <2>10. QED
        BY <2>6, <2>7, <2>8, <2>9
<1>3. QED
    BY <1>1, <1>2

LEMMA SlugsFinite == IsFiniteSet(Slugs)
<1> DEFINE readable == {b \in Articles : artRow[b].status \in ArticleStatus}
           f == [a \in readable |-> artRow[a].slug]
<1>1. IsFiniteSet(readable)
    BY ArticleAssumption, FS_Subset
<1>2. f \in Surjection(readable, Slugs)
    BY DEF Surjection, Slugs
<1>3. QED
    <2> HIDE DEF f, readable
    <2>1. QED
        BY <1>1, <1>2, FS_Surjection

LEMMA ArticleInitially == ArticleInit => ArticleInv
<1>1. SUFFICES ASSUME ArticleInit PROVE ArticleInv
    OBVIOUS
<1>2. (CHOOSE base \in SlugBases : TRUE) \in Seq(Nat)
    BY ArticleAssumption
<1>3. PICK status \in {"absent"} \cup ArticleStatus, a \in Articles :
          artRow = [b \in Articles |->
              IF a = b /\ status # "absent"
              THEN [status |-> status, slug |-> CHOOSE base \in SlugBases : TRUE,
                    published |-> status = "PUBLISHED"]
              ELSE [status |-> "absent", slug |-> NoSlug, published |-> FALSE]]
    BY <1>1 DEF ArticleInit
<1>4. artRow \in [Articles -> Article]
    <2>1. ASSUME NEW s \in ArticleStatus
          PROVE  [status |-> s, slug |-> CHOOSE base \in SlugBases : TRUE,
                  published |-> s = "PUBLISHED"] \in Article
        BY <1>2 DEF Article
    <2>2. [status |-> "absent", slug |-> NoSlug, published |-> FALSE] \in Article
        BY BasesTyped DEF Article
    <2>3. ASSUME NEW b \in Articles PROVE artRow[b] \in Article
        BY <1>3, <2>1, <2>2
    <2>4. QED
        BY <1>3, <2>3
<1>5. RowsKept
    BY <1>3 DEF RowsKept, Readable, ArticleStatus
<1>6. /\ artRequest \in [ArticleRequests ->
          [kind : ArticleKinds, id : Articles, base : SlugBases \cup {NoSlug}, slug : {NoSlug},
           pc : {"new"}, stale : {{}}]]
      /\ artBlind = {} /\ artRevived = {} /\ artClashes = {}
    BY <1>1 DEF ArticleInit
<1>7. ArticleTypeOK
    <2>1. ASSUME NEW r \in ArticleRequests PROVE artRequest[r] \in ArticleRequest
        BY <1>6, BasesTyped DEF ArticleRequest
    <2>2. artRequest \in [ArticleRequests -> ArticleRequest]
        BY <1>6, <2>1
    <2>3. QED
        BY <1>4, <1>6, <2>2 DEF ArticleTypeOK, ArticleRequest
<1>8. ASSUME NEW r \in ArticleRequests PROVE FoundStands(r)
    BY <1>6 DEF FoundStands, ArticleAt
<1>9. CreationsApart /\ BasesKept
    BY <1>1 DEF ArticleInit, CreationsApart, BasesKept
<1>10. QED
    BY <1>5, <1>6, <1>7, <1>8, <1>9 DEF ArticleInv

\* What no action changes of a request.
RequestsKept ==
    /\ artRequest' \in [ArticleRequests -> ArticleRequest]
    /\ \A q \in ArticleRequests :
          /\ artRequest'[q].kind = artRequest[q].kind /\ artRequest'[q].id = artRequest[q].id
          /\ artRequest'[q].base = artRequest[q].base

LEMMA RequestsKeptKeeps ==
    ASSUME ArticleInv, RequestsKept
    PROVE  CreationsApart' /\ BasesKept'
BY DEF ArticleInv, RequestsKept, CreationsApart, BasesKept

\* A request goes on, and the table stays.
ArticleMoves(r, pc, slug) ==
    /\ RequestsKept
    /\ artRequest'[r].pc = pc /\ artRequest'[r].slug = slug /\ artRequest'[r].stale = artRequest[r].stale
    /\ \A q \in ArticleRequests : q # r => artRequest'[q] = artRequest[q]
    /\ UNCHANGED <<artRow, artBlind, artRevived>>

LEMMA MovedByArticle ==
    ASSUME ArticleTypeOK, NEW r \in ArticleRequests, NEW slug \in Seq(Nat),
           NEW pc \in {"new", "slugs", "write", "done", "refused", "clash"},
           artRequest' = [artRequest EXCEPT ![r].pc = pc, ![r].slug = slug],
           UNCHANGED <<artRow, artBlind, artRevived>>
    PROVE  ArticleMoves(r, pc, slug)
<1>1. artRequest \in [ArticleRequests -> ArticleRequest] /\ artRequest[r] \in ArticleRequest
    BY DEF ArticleTypeOK, ArticleRequest
<1>2. [artRequest[r] EXCEPT !.pc = pc, !.slug = slug] \in ArticleRequest
    BY <1>1 DEF ArticleRequest
<1>3. /\ artRequest' \in [ArticleRequests -> ArticleRequest]
      /\ \A q \in ArticleRequests : q # r => artRequest'[q] = artRequest[q]
      /\ artRequest'[r] = [artRequest[r] EXCEPT !.pc = pc, !.slug = slug]
    BY <1>1, <1>2
<1>4. QED
    BY <1>1, <1>3 DEF ArticleMoves, RequestsKept, ArticleRequest

LEMMA ArticleFrame ==
    ASSUME ArticleInv, NEW r \in ArticleRequests, NEW pc, NEW slug, ArticleMoves(r, pc, slug),
           FoundStands(r)', artClashes' \subseteq artClashes \cup {r},
           artClashes' # artClashes => artRequest[r].stale # {}
    PROVE  ArticleInv'
<1>1. ArticleTypeOK'
    BY DEF ArticleInv, ArticleTypeOK, ArticleMoves, RequestsKept, ArticleRequest
<1>2. ASSUME NEW q \in ArticleRequests PROVE FoundStands(q)'
    <2>1. CASE q = r
        BY <2>1
    <2>2. CASE q # r
        <3>1. artRequest'[q] = artRequest[q] /\ FoundStands(q) /\ UNCHANGED artRow
            BY <2>2 DEF ArticleMoves, ArticleInv
        <3>2. QED
            BY <3>1 DEF FoundStands, SlugFree, Readable, ArticleAt, RowOf
    <2>3. QED
        BY <2>1, <2>2
<1>3. RowsKept' /\ artRevived' \subseteq artBlind'
    BY DEF ArticleInv, ArticleMoves, RowsKept, Readable
<1>4. \A q \in artClashes' : artRequest'[q].stale # {}
    <2>1. \A q \in artClashes : q \in ArticleRequests
        BY DEF ArticleInv, ArticleTypeOK
    <2>2. QED
        BY <2>1 DEF ArticleMoves, ArticleInv
<1>5. QED
    BY <1>1, <1>2, <1>3, <1>4, RequestsKeptKeeps DEF ArticleInv, ArticleMoves

LEMMA FindArticleKeeps ==
    ASSUME ArticleInv, NEW r \in ArticleRequests, FindArticle(r)
    PROVE  ArticleInv'
<1> DEFINE next == IF artRequest[r].base \in {NoSlug, RowOf(r).slug} THEN "write" ELSE "slugs"
           pc == IF Allowed(artRequest[r].kind, RowOf(r).status) THEN next ELSE "refused"
<1>1. ArticleTypeOK
    BY DEF ArticleInv
<1>2. RowOf(r).slug \in Seq(Nat) /\ artRequest[r].id \in Articles /\ RowOf(r) = artRow[artRequest[r].id]
    BY <1>1, ArticleRequestTyped DEF Article, RowOf
<1>3. /\ artRequest' = [artRequest EXCEPT ![r].pc = pc, ![r].slug = RowOf(r).slug]
      /\ UNCHANGED <<artRow, artBlind, artRevived, artClashes>>
    BY DEF FindArticle
<1>4. pc \in {"new", "slugs", "write", "done", "refused", "clash"}
    OBVIOUS
<1>5. ArticleMoves(r, pc, RowOf(r).slug)
    <2> HIDE DEF pc
    <2>1. QED
        BY <1>1, <1>2, <1>3, <1>4, MovedByArticle
<1>6. /\ artRequest'[r].pc = pc /\ artRequest'[r].slug = RowOf(r).slug
      /\ artRequest'[r].kind = artRequest[r].kind /\ artRequest'[r].base = artRequest[r].base
      /\ artRequest'[r].id = artRequest[r].id
      /\ RowOf(r)' = RowOf(r) /\ UNCHANGED artRow
    BY <1>5 DEF ArticleMoves, RequestsKept, RowOf
<1>7. /\ artRequest[r].kind = "create" => artRequest[r].base # NoSlug
      /\ artRequest[r].kind \notin {"create", "update"} => artRequest[r].base = NoSlug
      /\ artRequest[r].kind \in ArticleKinds
    BY <1>1, ArticleRequestTyped DEF ArticleInv, BasesKept
<1>8. artRequest[r].kind = "create" /\ pc # "refused" => RowOf(r).status = "absent" /\ pc = "slugs"
    <2>1. RowOf(r).status = "absent" => RowOf(r).slug = NoSlug
        BY <1>2 DEF ArticleInv, RowsKept
    <2>2. QED
        BY <1>7, <2>1 DEF Allowed
<1>9. pc = "write" /\ artRequest[r].kind = "update" /\ artRequest[r].base # NoSlug => SlugFree(r)'
    <2>1. SUFFICES ASSUME pc = "write", artRequest[r].kind = "update", artRequest[r].base # NoSlug,
                          NEW b \in Articles, b # artRequest[r].id, Readable(b)
                   PROVE  artRow[b].slug # RowOf(r).slug
        BY <1>6 DEF SlugFree, Readable
    <2>2. RowOf(r).status \in {"DRAFT", "PUBLISHED"}
        BY <2>1 DEF Allowed
    <2>3. Readable(artRequest[r].id)
        BY <1>2, <2>2 DEF Readable, ArticleStatus
    <2>4. QED
        BY <1>2, <2>1, <2>3 DEF ArticleInv, RowsKept
<1>10. FoundStands(r)'
    <2>1. /\ pc = "slugs" => artRequest[r].base # NoSlug
          /\ pc \in {"slugs", "write"} => Allowed(artRequest[r].kind, RowOf(r).status)
        OBVIOUS
    <2> HIDE DEF pc
    <2>2. QED
        BY <1>6, <1>7, <1>8, <1>9, <2>1 DEF FoundStands, ArticleAt
<1>11. QED
    BY <1>3, <1>5, <1>10, ArticleFrame

LEMMA ListKeeps ==
    ASSUME ArticleInv, NEW r \in ArticleRequests, ListSlugs(r)
    PROVE  ArticleInv'
<1> DEFINE own == IF artRequest[r].kind = "update" THEN {artRequest[r].slug} ELSE {}
           slug == BuildUniqueSlug(artRequest[r].base, Slugs \ own)
<1>1. ArticleTypeOK /\ ArticleAt(r, "slugs") /\ FoundStands(r)
    BY DEF ArticleInv, ListSlugs
<1>2. /\ artRequest' = [artRequest EXCEPT ![r].pc = "write", ![r].slug = slug]
      /\ UNCHANGED <<artRow, artBlind, artRevived, artClashes>>
    BY DEF ListSlugs
<1>3. /\ artRequest[r].kind \in {"create", "update"} /\ artRequest[r].base # NoSlug
      /\ "row" \notin artRequest[r].stale => artRequest[r].slug = RowOf(r).slug
                                             /\ Allowed(artRequest[r].kind, RowOf(r).status)
      /\ artRequest[r].kind = "create" => RowOf(r).status = "absent"
    BY <1>1 DEF FoundStands, ArticleAt
<1>4. slug \in Seq(Nat) /\ slug # NoSlug /\ slug \notin Slugs \ own
    <2>1. IsFiniteSet(Slugs \ own)
        BY SlugsFinite, FS_Subset
    <2>2. artRequest[r].base \in Seq(Nat)
        BY <1>1, ArticleRequestTyped
    <2> HIDE DEF own
    <2>3. QED
        BY <1>3, <2>1, <2>2, UniqueSlugIsFree
<1>5. ArticleMoves(r, "write", slug)
    <2> HIDE DEF slug
    <2>1. QED
        BY <1>1, <1>2, <1>4, MovedByArticle
<1>6. /\ artRequest'[r].pc = "write" /\ artRequest'[r].slug = slug
      /\ artRequest'[r].kind = artRequest[r].kind /\ artRequest'[r].base = artRequest[r].base
      /\ artRequest'[r].id = artRequest[r].id /\ artRequest'[r].stale = artRequest[r].stale
      /\ RowOf(r)' = RowOf(r) /\ UNCHANGED artRow
    BY <1>5 DEF ArticleMoves, RequestsKept, RowOf
<1>7. artRequest[r].stale = {} => SlugFree(r)'
    <2>1. SUFFICES ASSUME artRequest[r].stale = {},
                          NEW b \in Articles, b # artRequest[r].id, Readable(b), artRow[b].slug = slug
                   PROVE  FALSE
        BY <1>6 DEF SlugFree, Readable
    <2>2. slug \in Slugs
        BY <2>1 DEF Slugs, Readable
    <2>3. slug \in own
        BY <2>2, <1>4
    <2>4. artRequest[r].kind = "update" /\ slug = artRequest[r].slug
        BY <2>3
    <2>5. slug = RowOf(r).slug /\ RowOf(r).status \in {"DRAFT", "PUBLISHED"}
        BY <2>1, <2>4, <1>3 DEF Allowed
    <2>6. artRequest[r].id \in Articles /\ RowOf(r) = artRow[artRequest[r].id]
        BY <1>1, ArticleRequestTyped DEF RowOf
    <2>7. Readable(artRequest[r].id)
        BY <2>5, <2>6 DEF Readable, ArticleStatus
    <2>8. QED
        BY <2>1, <2>5, <2>6, <2>7 DEF ArticleInv, RowsKept
<1>8. FoundStands(r)'
    <2> HIDE DEF slug
    <2>1. QED
        BY <1>3, <1>4, <1>6, <1>7 DEF FoundStands, ArticleAt
<1>9. QED
    BY <1>2, <1>5, <1>8, ArticleFrame

ArticleGone(r) == artRequest[r].kind # "create" /\ RowOf(r).status \notin ArticleStatus

SlugClashes(r) ==
    /\ artRequest[r].kind \in {"create", "update"}
    /\ \E b \in Articles \ {artRequest[r].id} :
          Readable(b) /\ artRow[b].slug = ArticleWritten(r, RowOf(r)).slug

\* The unique index refuses only a slug that was chosen by an outdated list.
LEMMA ClashIsOutdated ==
    ASSUME ArticleInv, NEW r \in ArticleRequests, ArticleAt(r, "write"), ~ ArticleGone(r), SlugClashes(r)
    PROVE  artRequest[r].stale # {}
<1>1. SUFFICES ASSUME artRequest[r].stale = {} PROVE FALSE
    OBVIOUS
<1>2. ArticleTypeOK /\ FoundStands(r) /\ BasesKept /\ RowsKept
    BY DEF ArticleInv
<1>3. PICK b \in Articles \ {artRequest[r].id} :
          Readable(b) /\ artRow[b].slug = ArticleWritten(r, RowOf(r)).slug
    BY DEF SlugClashes
<1>4. artRequest[r].kind \in {"create", "update"} /\ artRequest[r].id \in Articles /\ RowOf(r) \in Article
    BY <1>2, ArticleRequestTyped DEF SlugClashes
<1>5. CASE artRequest[r].base # NoSlug
    <2>1. SlugFree(r)
        BY <1>1, <1>2, <1>4, <1>5 DEF FoundStands
    <2>2. ArticleWritten(r, RowOf(r)).slug = artRequest[r].slug
        <3>1. CASE artRequest[r].kind = "create"
            BY <3>1 DEF ArticleWritten
        <3>2. CASE artRequest[r].kind = "update"
            BY <3>2, <1>4, <1>5 DEF ArticleWritten, Article
        <3>3. QED
            BY <1>4, <3>1, <3>2
    <2>3. QED
        BY <1>3, <2>1, <2>2 DEF SlugFree
<1>6. CASE artRequest[r].base = NoSlug
    <2>1. artRequest[r].kind = "update"
        BY <1>2, <1>4, <1>6 DEF BasesKept
    <2>2. ArticleWritten(r, RowOf(r)).slug = artRow[artRequest[r].id].slug
        BY <1>6, <2>1 DEF ArticleWritten, RowOf
    <2>3. Readable(artRequest[r].id)
        BY <2>1 DEF ArticleGone, Readable, RowOf
    <2>4. QED
        BY <1>2, <1>3, <1>4, <2>2, <2>3 DEF RowsKept
<1>7. QED
    BY <1>5, <1>6

\* What a write leaves of the row.
LEMMA ArticleWrittenTyped ==
    ASSUME ArticleInv, NEW r \in ArticleRequests, ArticleAt(r, "write"), ~ ArticleGone(r)
    PROVE  /\ ArticleWritten(r, RowOf(r)) \in Article
           /\ ArticleWritten(r, RowOf(r)).status # "absent"
           /\ ArticleWritten(r, RowOf(r)).status = "PUBLISHED" => ArticleWritten(r, RowOf(r)).published
           /\ artRequest[r].kind = "create" => /\ RowOf(r).status = "absent" /\ RowOf(r).slug = NoSlug
                                               /\ artRequest[r].slug # NoSlug
           /\ artRequest[r].kind # "create" => RowOf(r).status \in ArticleStatus
           /\ artRequest[r].kind \notin {"create", "update"} =>
                 ArticleWritten(r, RowOf(r)).slug = RowOf(r).slug
           /\ artRequest[r].kind = "update" =>
                 ArticleWritten(r, RowOf(r)).slug \in {artRequest[r].slug, RowOf(r).slug}
           /\ RowOf(r).status = "ARCHIVED" /\ ArticleWritten(r, RowOf(r)).status \in {"DRAFT", "PUBLISHED"}
                 => "row" \in artRequest[r].stale
<1> DEFINE row == RowOf(r)
           slug == artRequest[r].slug
<1>1. /\ row \in Article /\ slug \in Seq(Nat) /\ artRequest[r].kind \in ArticleKinds
      /\ artRequest[r].id \in Articles
    BY ArticleRequestTyped DEF ArticleInv
<1>2. artRequest[r].kind # "create" => row.status \in ArticleStatus
    BY DEF ArticleGone
<1>3. /\ artRequest[r].kind = "create" => row.status = "absent" /\ artRequest[r].slug # NoSlug
      /\ "row" \notin artRequest[r].stale => Allowed(artRequest[r].kind, row.status)
    BY DEF ArticleInv, FoundStands
<1>4. /\ row.status = "absent" => row.slug = NoSlug
      /\ row.status = "PUBLISHED" => row.published
    BY <1>1 DEF ArticleInv, RowsKept, RowOf
<1>5. CASE artRequest[r].kind = "create"
    <2>1. ArticleWritten(r, row) = [status |-> "DRAFT", slug |-> slug, published |-> FALSE]
        BY <1>5 DEF ArticleWritten
    <2>2. QED
        BY <1>1, <1>3, <1>4, <1>5, <2>1 DEF Article, ArticleStatus
<1>6. CASE artRequest[r].kind = "update"
    <2>1. ArticleWritten(r, row) = IF artRequest[r].base = NoSlug THEN row ELSE [row EXCEPT !.slug = slug]
        BY <1>6 DEF ArticleWritten
    <2>2. [row EXCEPT !.slug = slug] \in Article
        BY <1>1 DEF Article
    <2>3. ArticleWritten(r, row) \in Article /\ ArticleWritten(r, row).slug \in {slug, row.slug}
          /\ ArticleWritten(r, row).status = row.status
          /\ ArticleWritten(r, row).published = row.published
        <3>1. CASE artRequest[r].base = NoSlug
            BY <3>1, <2>1, <1>1
        <3>2. CASE artRequest[r].base # NoSlug
            BY <3>2, <2>1, <2>2, <1>1 DEF Article
        <3>3. QED
            BY <3>1, <3>2
    <2>4. row.status = "ARCHIVED" => "row" \in artRequest[r].stale
        BY <1>3, <1>6 DEF Allowed
    <2>5. QED
        BY <1>2, <1>4, <1>6, <2>3, <2>4 DEF ArticleStatus
<1>7. CASE artRequest[r].kind = "publish"
    <2>1. ArticleWritten(r, row) = [row EXCEPT !.status = "PUBLISHED", !.published = TRUE]
        BY <1>7 DEF ArticleWritten
    <2>2. ArticleWritten(r, row) \in Article /\ ArticleWritten(r, row).slug = row.slug
          /\ ArticleWritten(r, row).status = "PUBLISHED" /\ ArticleWritten(r, row).published
        BY <1>1, <2>1 DEF Article, ArticleStatus
    <2>3. row.status = "ARCHIVED" => "row" \in artRequest[r].stale
        BY <1>3, <1>7 DEF Allowed
    <2>4. QED
        BY <1>2, <1>7, <2>2, <2>3
<1>8. CASE artRequest[r].kind = "archive"
    <2>1. ArticleWritten(r, row) = [row EXCEPT !.status = "ARCHIVED"]
        BY <1>8 DEF ArticleWritten
    <2>2. ArticleWritten(r, row) \in Article /\ ArticleWritten(r, row).slug = row.slug
          /\ ArticleWritten(r, row).status = "ARCHIVED"
        BY <1>1, <2>1 DEF Article, ArticleStatus
    <2>3. QED
        BY <1>2, <1>8, <2>2
<1>9. CASE artRequest[r].kind = "delete"
    <2>1. ArticleWritten(r, row) = [row EXCEPT !.status = "deleted"]
        BY <1>9 DEF ArticleWritten
    <2>2. ArticleWritten(r, row) \in Article /\ ArticleWritten(r, row).slug = row.slug
          /\ ArticleWritten(r, row).status = "deleted"
        BY <1>1, <2>1 DEF Article, ArticleStatus
    <2>3. QED
        BY <1>2, <1>9, <2>2
<1>10. QED
    BY <1>1, <1>5, <1>6, <1>7, <1>8, <1>9 DEF ArticleKinds

\* The branch of a write that reaches the table.
RowWritten(r) ==
    /\ ArticleAt(r, "write") /\ ~ ArticleGone(r) /\ ~ SlugClashes(r)
    /\ artRow' = [artRow EXCEPT ![artRequest[r].id] = ArticleWritten(r, RowOf(r))]
    /\ artRequest' = [q \in ArticleRequests |->
           IF q = r THEN [artRequest[q] EXCEPT !.pc = "done"]
           ELSE [artRequest[q] EXCEPT !.stale = @ \cup Outdates(r, q)]]
    /\ artBlind' = IF "row" \in artRequest[r].stale THEN artBlind \cup {artRequest[r].id} ELSE artBlind
    /\ artRevived' = IF RowOf(r).status = "ARCHIVED"
                        /\ ArticleWritten(r, RowOf(r)).status \in {"DRAFT", "PUBLISHED"}
                     THEN artRevived \cup {artRequest[r].id} ELSE artRevived
    /\ UNCHANGED artClashes

LEMMA WrittenRequests ==
    ASSUME ArticleTypeOK, NEW r \in ArticleRequests, RowWritten(r)
    PROVE  /\ RequestsKept
           /\ artRequest'[r].pc = "done"
           /\ \A q \in ArticleRequests : artRequest[q].stale \subseteq artRequest'[q].stale
           /\ \A q \in ArticleRequests : q # r =>
                 /\ artRequest'[q].pc = artRequest[q].pc /\ artRequest'[q].slug = artRequest[q].slug
                 /\ artRequest'[q].stale = artRequest[q].stale \cup Outdates(r, q)
<1>1. artRequest \in [ArticleRequests -> ArticleRequest]
    BY DEF ArticleTypeOK, ArticleRequest
<1>2. ASSUME NEW q \in ArticleRequests
      PROVE  /\ artRequest'[q] \in ArticleRequest
             /\ artRequest'[q].kind = artRequest[q].kind /\ artRequest'[q].id = artRequest[q].id
             /\ artRequest'[q].base = artRequest[q].base
             /\ artRequest[q].stale \subseteq artRequest'[q].stale
             /\ q = r => artRequest'[q].pc = "done"
             /\ q # r => /\ artRequest'[q].pc = artRequest[q].pc /\ artRequest'[q].slug = artRequest[q].slug
                         /\ artRequest'[q].stale = artRequest[q].stale \cup Outdates(r, q)
    <2>1. artRequest[q] \in ArticleRequest
        BY <1>1
    <2>2. CASE q = r
        <3>1. artRequest'[q] = [artRequest[q] EXCEPT !.pc = "done"]
            BY <2>2 DEF RowWritten
        <3>2. QED
            BY <2>1, <2>2, <3>1 DEF ArticleRequest
    <2>3. CASE q # r
        <3>1. artRequest'[q] = [artRequest[q] EXCEPT !.stale = artRequest[q].stale \cup Outdates(r, q)]
            BY <2>3 DEF RowWritten
        <3>2. Outdates(r, q) \subseteq {"row", "slugs"} /\ artRequest[q].stale \subseteq {"row", "slugs"}
            BY <2>1 DEF Outdates, ArticleRequest
        <3>3. QED
            BY <2>1, <2>3, <3>1, <3>2 DEF ArticleRequest
    <2>4. QED
        BY <2>2, <2>3
<1>3. artRequest' \in [ArticleRequests -> ArticleRequest]
    <2>1. \A q \in ArticleRequests : artRequest'[q] \in ArticleRequest
        BY <1>2
    <2>2. QED
        BY <2>1 DEF RowWritten
<1>4. QED
    BY <1>2, <1>3 DEF RequestsKept

\* Whoever stands before a write in another request's way has been outdated by it.
LEMMA OtherRequestsStand ==
    ASSUME ArticleInv, NEW r \in ArticleRequests, RowWritten(r),
           NEW q \in ArticleRequests, q # r
    PROVE  FoundStands(q)'
<1>1. ArticleTypeOK /\ FoundStands(q) /\ CreationsApart /\ ArticleAt(r, "write")
    BY DEF ArticleInv, RowWritten
<1>2. /\ artRequest'[q].pc = artRequest[q].pc /\ artRequest'[q].slug = artRequest[q].slug
      /\ artRequest'[q].stale = artRequest[q].stale \cup Outdates(r, q)
      /\ artRequest'[q].kind = artRequest[q].kind /\ artRequest'[q].id = artRequest[q].id
      /\ artRequest'[q].base = artRequest[q].base
    BY <1>1, WrittenRequests DEF RequestsKept
<1>3. artRequest[q].id \in Articles /\ artRequest[r].id \in Articles /\ artRow \in [Articles -> Article]
    BY <1>1, ArticleRequestTyped DEF ArticleTypeOK
<1>4. CASE artRequest[q].pc \notin {"slugs", "write"}
    BY <1>2, <1>4 DEF FoundStands, ArticleAt
<1>5. CASE artRequest[q].pc \in {"slugs", "write"} /\ artRequest[q].id = artRequest[r].id
    <2>1. "row" \in Outdates(r, q)
        BY <1>5 DEF Outdates
    <2>2. artRequest[q].kind # "create"
        <3>1. SUFFICES ASSUME artRequest[q].kind = "create" PROVE FALSE
            OBVIOUS
        <3>2. RowOf(q).status = "absent"
            BY <1>1, <1>5, <3>1 DEF FoundStands, ArticleAt
        <3>3. artRequest[r].kind # "create"
            BY <1>1, <1>5, <3>1 DEF CreationsApart
        <3>4. RowOf(r).status \in ArticleStatus /\ RowOf(r) = RowOf(q)
            BY <1>5, <3>3 DEF RowWritten, ArticleGone, RowOf
        <3>5. QED
            BY <3>2, <3>4 DEF ArticleStatus
    <2>3. "row" \in artRequest'[q].stale
        BY <1>2, <2>1
    <2>4. QED
        BY <1>1, <1>2, <2>2, <2>3 DEF FoundStands, ArticleAt
<1>6. CASE artRequest[q].pc \in {"slugs", "write"} /\ artRequest[q].id # artRequest[r].id
    <2>1. artRow'[artRequest[q].id] = artRow[artRequest[q].id]
        BY <1>3, <1>6 DEF RowWritten
    <2>2. RowOf(q)' = RowOf(q)
        BY <1>2, <2>1 DEF RowOf
    <2>3. artRequest[q].stale \subseteq artRequest'[q].stale
        BY <1>2
    <2>4. artRequest[q].pc = "write" /\ artRequest'[q].stale = {} /\ SlugFree(q) => SlugFree(q)'
        <3>1. SUFFICES ASSUME artRequest[q].pc = "write", artRequest'[q].stale = {}, SlugFree(q),
                              NEW b \in Articles, b # artRequest[q].id, Readable(b)'
                       PROVE  artRow'[b].slug # artRequest[q].slug
            BY <1>2 DEF SlugFree
        <3>2. CASE b # artRequest[r].id
            <4>1. artRow'[b] = artRow[b]
                BY <1>3, <3>2 DEF RowWritten
            <4>2. QED
                BY <3>1, <4>1 DEF SlugFree, Readable
        <3>3. CASE b = artRequest[r].id
            <4>1. artRow'[b] = ArticleWritten(r, RowOf(r)) /\ RowOf(r) = artRow[b]
                BY <1>3, <3>3 DEF RowWritten, RowOf
            <4>2. Outdates(r, q) = {}
                BY <1>2, <3>1
            <4>3. artRequest[r].slug = RowOf(r).slug
                BY <3>1, <4>2 DEF Outdates
            <4>4. ~ ArticleGone(r)
                BY DEF RowWritten
            <4>5. artRequest[r].kind # "create"
                BY <1>1, <4>3, <4>4, ArticleWrittenTyped
            <4>6. ArticleWritten(r, RowOf(r)).slug = RowOf(r).slug
                BY <1>1, <4>3, <4>4, <4>5, ArticleWrittenTyped
            <4>7. Readable(b)
                BY <1>1, <4>1, <4>4, <4>5, ArticleWrittenTyped DEF Readable
            <4>8. QED
                BY <3>1, <4>1, <4>6, <4>7 DEF SlugFree
        <3>4. QED
            BY <3>2, <3>3
    <2>5. "row" \notin artRequest'[q].stale => "row" \notin artRequest[q].stale
        BY <2>3
    <2>6. artRequest'[q].stale = {} => artRequest[q].stale = {}
        BY <2>3
    <2>7. QED
        BY <1>1, <1>2, <2>2, <2>4, <2>5, <2>6 DEF FoundStands, ArticleAt
<1>7. QED
    BY <1>4, <1>5, <1>6

LEMMA RowWrittenKeeps ==
    ASSUME ArticleInv, NEW r \in ArticleRequests, RowWritten(r)
    PROVE  ArticleInv'
<1> DEFINE a == artRequest[r].id
           written == ArticleWritten(r, RowOf(r))
<1>1. ArticleTypeOK /\ RowsKept /\ ArticleAt(r, "write") /\ ~ ArticleGone(r) /\ ~ SlugClashes(r)
    BY DEF ArticleInv, RowWritten
<1>2. a \in Articles /\ RowOf(r) = artRow[a] /\ artRow \in [Articles -> Article]
    BY <1>1, ArticleRequestTyped DEF RowOf, ArticleTypeOK
<1>3. artRow' = [artRow EXCEPT ![a] = written]
    BY DEF RowWritten
<1>4. written \in Article
    BY <1>1, ArticleWrittenTyped
<1>5. /\ RequestsKept /\ artRequest'[r].pc = "done"
      /\ \A q \in ArticleRequests : artRequest[q].stale \subseteq artRequest'[q].stale
    BY <1>1, WrittenRequests
<1>6. ArticleTypeOK'
    <2>1. artRow' \in [Articles -> Article]
        <3> HIDE DEF a, written
        <3>1. QED
            BY <1>2, <1>3, <1>4
    <2>2. artBlind' \subseteq Articles /\ artRevived' \subseteq Articles /\ artClashes' \subseteq ArticleRequests
        BY <1>1, <1>2 DEF ArticleTypeOK, RowWritten
    <2>3. QED
        BY <1>5, <2>1, <2>2 DEF ArticleTypeOK, RequestsKept, ArticleRequest
<1>7. ASSUME NEW q \in ArticleRequests PROVE FoundStands(q)'
    <2>1. CASE q = r
        BY <1>5, <2>1 DEF FoundStands, ArticleAt
    <2>2. CASE q # r
        BY <2>2, OtherRequestsStand
    <2>3. QED
        BY <2>1, <2>2
<1>8. \A b \in Articles : b # a => artRow'[b] = artRow[b]
    BY <1>2, <1>3
<1>9. artRow'[a] = written
    BY <1>2, <1>3
<1>10. \A b \in Articles : b # a /\ Readable(b) => artRow[b].slug # written.slug \/ written.status \notin ArticleStatus
    <2>1. SUFFICES ASSUME NEW b \in Articles, b # a, Readable(b), artRow[b].slug = written.slug
                   PROVE  FALSE
        OBVIOUS
    <2>2. artRequest[r].kind \notin {"create", "update"}
        BY <1>1, <2>1 DEF SlugClashes
    <2>3. written.slug = artRow[a].slug /\ artRow[a].status \in ArticleStatus
        BY <1>1, <1>2, <2>2, ArticleWrittenTyped
    <2>4. QED
        BY <1>1, <1>2, <2>1, <2>3 DEF RowsKept, Readable
<1>11. RowsKept'
    <2>1. written.status # "absent" /\ (written.status = "PUBLISHED" => written.published)
        BY <1>1, ArticleWrittenTyped
    <2> HIDE DEF a, written
    <2>2. ASSUME NEW b \in Articles
          PROVE  /\ artRow'[b].status = "absent" => artRow'[b].slug = NoSlug
                 /\ artRow'[b].status = "PUBLISHED" => artRow'[b].published
        BY <1>1, <1>8, <1>9, <2>1 DEF RowsKept
    <2>3. ASSUME NEW b \in Articles, NEW c \in Articles, b # c, Readable(b)', Readable(c)'
          PROVE  artRow'[b].slug # artRow'[c].slug
        <3>1. CASE b = a
            BY <1>8, <1>9, <1>10, <2>3, <3>1 DEF Readable
        <3>2. CASE c = a
            BY <1>8, <1>9, <1>10, <2>3, <3>2 DEF Readable
        <3>3. CASE b # a /\ c # a
            BY <1>1, <1>8, <2>3, <3>3 DEF RowsKept, Readable
        <3>4. QED
            BY <3>1, <3>2, <3>3
    <2>4. QED
        BY <2>2, <2>3 DEF RowsKept
<1>12. artRevived' \subseteq artBlind'
    <2>1. RowOf(r).status = "ARCHIVED" /\ written.status \in {"DRAFT", "PUBLISHED"}
              => "row" \in artRequest[r].stale
        BY <1>1, ArticleWrittenTyped
    <2>2. QED
        BY <2>1 DEF RowWritten, ArticleInv
<1>13. \A q \in artClashes' : artRequest'[q].stale # {}
    <2>1. UNCHANGED artClashes /\ \A q \in artClashes : q \in ArticleRequests /\ artRequest[q].stale # {}
        BY <1>1 DEF RowWritten, ArticleInv, ArticleTypeOK
    <2>2. QED
        BY <1>5, <2>1
<1>14. QED
    BY <1>5, <1>6, <1>7, <1>11, <1>12, <1>13, RequestsKeptKeeps DEF ArticleInv

LEMMA WriteArticleKeeps ==
    ASSUME ArticleInv, NEW r \in ArticleRequests, WriteArticle(r)
    PROVE  ArticleInv'
<1>1. ArticleAt(r, "write") /\ ArticleTypeOK
    BY DEF WriteArticle, ArticleInv
<1>2. CASE ArticleGone(r) \/ SlugClashes(r)
    <2> DEFINE pc == IF ArticleGone(r) THEN "refused" ELSE "clash"
    <2>1. /\ artRequest' = [artRequest EXCEPT ![r].pc = pc]
          /\ artClashes' = IF ArticleGone(r) THEN artClashes ELSE artClashes \cup {r}
          /\ UNCHANGED <<artRow, artBlind, artRevived>>
        BY <1>2 DEF WriteArticle, ArticleGone, SlugClashes, Readable, RowOf
    <2>2. artRequest[r] \in ArticleRequest /\ artRequest \in [ArticleRequests -> ArticleRequest]
          /\ artRequest[r].slug \in Seq(Nat)
        BY <1>1, ArticleRequestTyped DEF ArticleTypeOK, ArticleRequest
    <2>3. pc \in {"refused", "clash"} /\ pc \in {"new", "slugs", "write", "done", "refused", "clash"}
        OBVIOUS
    <2>4. artRequest' = [artRequest EXCEPT ![r].pc = pc, ![r].slug = artRequest[r].slug]
        <3> HIDE DEF pc
        <3>1. [artRequest[r] EXCEPT !.pc = pc] = [artRequest[r] EXCEPT !.pc = pc, !.slug = artRequest[r].slug]
            BY <2>2 DEF ArticleRequest
        <3>2. QED
            BY <2>1, <2>2, <3>1
    <2>5. ArticleMoves(r, pc, artRequest[r].slug)
        <3> DEFINE slug == artRequest[r].slug
        <3>1. /\ artRequest' = [artRequest EXCEPT ![r].pc = pc, ![r].slug = slug] /\ slug \in Seq(Nat)
              /\ UNCHANGED <<artRow, artBlind, artRevived>>
            BY <2>1, <2>2, <2>4
        <3> HIDE DEF pc, slug
        <3>2. ArticleMoves(r, pc, slug)
            BY <1>1, <2>3, <3>1, MovedByArticle
        <3>3. QED
            BY <3>2 DEF slug
    <2>6. FoundStands(r)'
        <3> HIDE DEF pc
        <3>1. QED
            BY <2>3, <2>5 DEF FoundStands, ArticleAt, ArticleMoves
    <2>7. artClashes' # artClashes => artRequest[r].stale # {}
        BY <1>1, <1>2, <2>1, ClashIsOutdated
    <2>8. artClashes' \subseteq artClashes \cup {r}
        BY <2>1
    <2>9. QED
        <3> HIDE DEF pc
        <3>1. QED
            BY <2>5, <2>6, <2>7, <2>8, ArticleFrame
<1>3. CASE ~ ArticleGone(r) /\ ~ SlugClashes(r)
    <2>1. RowWritten(r)
        BY <1>1, <1>3 DEF WriteArticle, ArticleGone, SlugClashes, Readable, RowOf, RowWritten
    <2>2. QED
        BY <2>1, RowWrittenKeeps
<1>4. QED
    BY <1>2, <1>3

LEMMA ArticlesStep == ArticleInv /\ [ArticleNext]_artVars => ArticleInv'
<1>1. SUFFICES ASSUME ArticleInv, [ArticleNext]_artVars PROVE ArticleInv'
    OBVIOUS
<1>2. ASSUME NEW r \in ArticleRequests, FindArticle(r) PROVE ArticleInv'
    BY <1>1, <1>2, FindArticleKeeps
<1>3. ASSUME NEW r \in ArticleRequests, ListSlugs(r) PROVE ArticleInv'
    BY <1>1, <1>3, ListKeeps
<1>4. ASSUME NEW r \in ArticleRequests, WriteArticle(r) PROVE ArticleInv'
    BY <1>1, <1>4, WriteArticleKeeps
<1>5. CASE UNCHANGED artVars
    BY <1>1, <1>5 DEF artVars, ArticleInv, ArticleTypeOK, FoundStands, SlugFree, CreationsApart, BasesKept,
                      RowsKept, Readable, ArticleAt, RowOf
<1>6. QED
    BY <1>1, <1>2, <1>3, <1>4, <1>5 DEF ArticleNext

LEMMA ArticlesTell == ArticleInv => ArticlesConsistent
<1>1. SUFFICES ASSUME ArticleInv PROVE ArticlesConsistent
    OBVIOUS
<1>2. \A a \in ReadableArticles(TRUE) : a \in Articles /\ Readable(a)
    BY DEF ReadableArticles, Readable, ArticleStatus
<1>3. \A a \in ReadableArticles(FALSE) : a \in Articles /\ artRow[a].status = "PUBLISHED"
    BY DEF ReadableArticles
<1>4. QED
    BY <1>1, <1>2, <1>3 DEF ArticleInv, RowsKept, ArticlesConsistent

\* For every set of articles, of requests and of slugs: an article leaves the archive
\* only by a request that had read it before (the update by id of ArticlesUseCases
\* checks no status); slugs stay unique, and the unique index refuses one only when
\* buildUniqueSlug had listed the slugs too early; what readers see is published.
THEOREM ArticlesStayConsistent == ArticleSpec => []ArticlesConsistent
<1>1. ArticleInv /\ [ArticleNext]_artVars => ArticleInv'
    BY ArticlesStep
<1>2. ArticleSpec => []ArticleInv
    BY ArticleInitially, <1>1, PTL DEF ArticleSpec
<1>3. QED
    BY <1>2, ArticlesTell, PTL

-----------------------------------------------------------------------------
(* Figures and exports *)

\* A ticket's dates follow each other; and who is not there is assigned to nobody.
TicketDated(t) ==
    /\ figTicket[t].updated <= figNow
    /\ figTicket[t].closed <= figTicket[t].updated /\ figTicket[t].since <= figTicket[t].updated
    /\ figTicket[t].closed # 0 => figTicket[t].since <= figTicket[t].closed
    /\ figTicket[t].mine => figTicket[t].status # "none"

ReportOf(kind) ==
    [kind : {kind}, filter : Filters, pc : {"run", "done"}, now : Times,
     todo : SUBSET StatementsOf[kind], saw : [StatementsOf[kind] -> SUBSET Seen], moves : 0..MaxFigMoves]

StatementsRun(report) == StatementsOf[report.kind] \ report.todo

\* What a statement asks for, as an operator of the filter.
Asks(filter, s, line, now) ==
    CASE s \in {"total", "byStatus"} -> line.status # "none" /\ filter \in {"any", line.status}
      [] s = "breached" -> line.status \notin Resolved \cup {"none"} /\ line.due # 0 /\ line.due < now
      [] s = "resolved" -> line.status \in Resolved
      [] s = "active" -> line.status \notin Resolved \cup {"none"} /\ line.due # 0
      [] s = "closed" -> line.status = "RESOLVED" /\ line.closed # 0
      [] s = "mine" -> line.mine
      [] s = "mineResolved" -> line.mine /\ line.status \in Resolved
      [] s = "mineActive" -> line.mine /\ line.status \notin Resolved

\* What a statement answers of a ticket whose row is this one.
LineOf(t, line) == [id |-> t, status |-> line.status, due |-> line.due]

Told(answer, t) == \E seen \in answer : seen.id = t

\* Every statement that has run answers what it would answer of this row.
AsItIs(report, t, line) ==
    \A s \in StatementsRun(report) :
        /\ Told(report.saw[s], t) <=> Asks(report.filter, s, line, report.now)
        /\ \A seen \in report.saw[s] : seen.id = t => seen = LineOf(t, line)

\* Every statement saw the ticket as it is, or as it was before it was changed once.
AsOnceBefore(report, t, line) ==
    \E was \in Row : \A s \in StatementsRun(report) :
        \/ Told(report.saw[s], t) <=> Asks(report.filter, s, was, report.now)
        \/ Told(report.saw[s], t) <=> Asks(report.filter, s, line, report.now)

\* Tickets that were changed since the report began, and those that were changed again.
Touched(report, lines, once, again) ==
    /\ once \subseteq FigTickets /\ again \subseteq once
    /\ Cardinality(once) + Cardinality(again) <= report.moves
    /\ \A t \in FigTickets \ once : AsItIs(report, t, lines[t])
    /\ \A t \in once \ again : AsOnceBefore(report, t, lines[t])

\* The tickets that the metrics count as closed still are, but for those that were
\* changed, until the overdue ones are counted, which is last; and no others are both.
Reopened(report, lines, once) ==
    /\ once \subseteq FigTickets /\ Cardinality(once) <= report.moves
    /\ "closed" \in report.todo => report.saw["closed"] = {}
    /\ "breached" \in report.todo =>
           /\ report.saw["breached"] = {}
           /\ \A t \in FigTickets \ once : Told(report.saw["closed"], t) => lines[t].status = "RESOLVED"
    /\ "closed" \in report.todo => "breached" \in report.todo
    /\ \A t \in FigTickets \ once : ~(Told(report.saw["closed"], t) /\ Told(report.saw["breached"], t))

SawOnce(answer) == \A seen, other \in answer : seen.id = other.id => seen = other

FigRowsPart ==
    /\ figTicket \in [FigTickets -> Row] /\ figNow \in 1..MaxFigTime
    /\ \A t \in FigTickets : TicketDated(t)

ReportPart ==
    /\ figReport.kind \in DOMAIN StatementsOf /\ figReport \in ReportOf(figReport.kind)
    /\ figReport.pc = "done" => figReport.todo = {}
    /\ \A s \in StatementsOf[figReport.kind] : SawOnce(figReport.saw[s])
    /\ figReport.kind = "metrics" => \E once \in SUBSET FigTickets :
                                       Reopened(figReport, figTicket, once)
    /\ figReport.kind # "metrics" => \E once, again \in SUBSET FigTickets :
                                       Touched(figReport, figTicket, once, again)

SentTickets == {figExport.sent[i] : i \in DOMAIN figExport.sent}

\* Tickets that the export has left behind, though they matched all the time.
MissedTickets ==
    {t \in figExport.steady \ SentTickets : t <= Cursor \/ figReport.pc = "done"}

ExportPart ==
    /\ figExport \in [sent : Seq(FigTickets), skips : Nat, steady : SUBSET FigTickets]
    /\ \A i, j \in DOMAIN figExport.sent : i < j => figExport.sent[i] < figExport.sent[j]
    /\ \A t \in figExport.steady : Matches(figTicket[t])
    /\ figReport.kind = "export" => Cardinality(MissedTickets) <= figExport.skips
    /\ figReport.kind # "export" => figExport.skips = 0
    /\ figExport.skips <= Cursor
    /\ figReport.pc = "run" => figExport.skips = 0 \/ figExport.skips < Cursor

FiguresInv == FigRowsPart /\ ReportPart /\ ExportPart

\* How many elements of S are smaller, and the elements with less than n of these.
RankIn(S, t) == Cardinality({u \in S : u < t})

Firsts(S, n) == {t \in S : RankIn(S, t) < n}

LEMMA RankGrows ==
    ASSUME NEW S, S \subseteq Nat, IsFiniteSet(S), NEW t \in S, NEW u \in S, t < u
    PROVE  RankIn(S, t) \in Nat /\ RankIn(S, u) \in Nat /\ RankIn(S, t) < RankIn(S, u)
<1> DEFINE below(x) == {v \in S : v < x}
<1>1. /\ IsFiniteSet(below(t)) /\ IsFiniteSet(below(u))
      /\ Cardinality(below(t)) \in Nat /\ Cardinality(below(u)) \in Nat
    BY PartCounted
<1>2. Cardinality(below(t) \cup {t}) = Cardinality(below(t)) + 1
    <2>1. t \notin below(t)
        OBVIOUS
    <2>2. QED
        BY <1>1, <2>1, ElementAdded
<1>3. below(t) \cup {t} \subseteq below(u)
    <2>1. \A v \in S : v \in Nat
        OBVIOUS
    <2>2. \A v \in S : v < t => v < u
        BY <2>1
    <2>3. QED
        BY <2>2
<1>4. Cardinality(below(t) \cup {t}) <= Cardinality(below(u))
    BY <1>1, <1>3, PartCounted
<1>5. QED
    BY <1>1, <1>2, <1>4 DEF RankIn

LEMMA RanksApart ==
    ASSUME NEW S, S \subseteq Nat, IsFiniteSet(S), NEW t \in S, NEW u \in S
    PROVE  /\ RankIn(S, t) \in Nat
           /\ RankIn(S, t) < RankIn(S, u) => t < u
           /\ RankIn(S, t) = RankIn(S, u) => t = u
<1>1. RankIn(S, t) \in Nat /\ RankIn(S, u) \in Nat
    BY PartCounted DEF RankIn
<1>2. t < u => RankIn(S, t) < RankIn(S, u)
    BY RankGrows
<1>3. u < t => RankIn(S, u) < RankIn(S, t)
    BY RankGrows
<1>4. t \in Nat /\ u \in Nat
    OBVIOUS
<1>5. QED
    BY <1>1, <1>2, <1>3, <1>4

\* The ranks of the first elements are 0, 1, 2 and so on.
LEMMA RanksTaken ==
    ASSUME NEW S, S \subseteq Nat, IsFiniteSet(S), NEW n \in Nat
    PROVE  /\ IsFiniteSet(Firsts(S, n)) /\ Cardinality(Firsts(S, n)) \in Nat
           /\ \A t \in Firsts(S, n) : RankIn(S, t) \in 0..(Cardinality(Firsts(S, n)) - 1)
           /\ \A i \in 0..(Cardinality(Firsts(S, n)) - 1) : \E t \in Firsts(S, n) : RankIn(S, t) = i
<1> DEFINE T == Firsts(S, n)
           size == Cardinality(T)
           rank == [t \in T |-> RankIn(S, t)]
<1>1. IsFiniteSet(T) /\ size \in Nat /\ T \subseteq S
    <2>1. T \subseteq S
        BY DEF Firsts
    <2>2. QED
        BY <2>1, PartCounted
<1>2. ASSUME NEW t \in T
      PROVE  RankIn(S, t) \in 0..(size - 1)
    <2>1. {u \in S : u < t} \subseteq T \ {t}
        <3>1. SUFFICES ASSUME NEW u \in S, u < t PROVE u \in T /\ u # t
            OBVIOUS
        <3>2. RankIn(S, u) < RankIn(S, t) /\ RankIn(S, u) \in Nat /\ RankIn(S, t) \in Nat
            BY <1>1, <3>1, RankGrows
        <3>3. RankIn(S, t) < n
            BY DEF Firsts
        <3>4. QED
            BY <1>1, <3>1, <3>2, <3>3 DEF Firsts
    <2>2. IsFiniteSet(T \ {t}) /\ Cardinality(T \ {t}) = size - 1 /\ Cardinality(T \ {t}) \in Nat
        BY <1>1, ElementRemoved
    <2>3. RankIn(S, t) \in Nat /\ RankIn(S, t) <= Cardinality(T \ {t})
        BY <2>1, <2>2, PartCounted DEF RankIn
    <2>4. QED
        BY <1>1, <2>2, <2>3
<1>3. IsFiniteSet(0..(size - 1)) /\ Cardinality(0..(size - 1)) = size
    <2>1. 0 \in Int /\ size - 1 \in Int
        BY <1>1
    <2>2. /\ IsFiniteSet(0..(size - 1))
          /\ Cardinality(0..(size - 1)) = IF 0 > size - 1 THEN 0 ELSE (size - 1) - 0 + 1
        BY <2>1, FS_Interval
    <2>3. QED
        BY <1>1, <2>2
<1>4. rank \in Injection(T, 0..(size - 1))
    <2>1. rank \in [T -> 0..(size - 1)]
        BY <1>2
    <2>2. ASSUME NEW t \in T, NEW u \in T, rank[t] = rank[u]
          PROVE  t = u
        BY <1>1, <2>2, RanksApart
    <2>3. QED
        BY <2>1, <2>2 DEF Injection, IsInjective
<1>5. rank \in Surjection(T, 0..(size - 1))
    <2> HIDE DEF rank, size, T
    <2>1. Cardinality(T) = Cardinality(0..(size - 1))
        BY <1>3 DEF size
    <2>2. QED
        BY <1>3, <1>4, <2>1, FS_Injection
<1>6. ASSUME NEW i \in 0..(size - 1)
      PROVE  \E t \in T : RankIn(S, t) = i
    BY <1>5 DEF Surjection
<1>7. QED
    BY <1>1, <1>2, <1>6

\* What FirstOf returns: elements of S in their order, with every smaller element of
\* S, and all of S when they are less than it was asked for.
FirstFits(batch, S, n) ==
    /\ batch \in Seq(S)
    /\ \A i, j \in DOMAIN batch : i < j => batch[i] < batch[j]
    /\ \A t \in S : \A i \in DOMAIN batch : t <= batch[i] => \E j \in DOMAIN batch : batch[j] = t
    /\ Len(batch) < n => \A t \in S : \E j \in DOMAIN batch : batch[j] = t

LEMMA FirstOfFits ==
    ASSUME NEW S, S \subseteq Nat, IsFiniteSet(S), NEW n \in Nat
    PROVE  FirstFits(FirstOf(S, n), S, n)
<1> DEFINE T == Firsts(S, n)
           size == Cardinality(T)
           batch == FirstOf(S, n)
<1>1. batch = [i \in 1..size |-> CHOOSE t \in S : RankIn(S, t) = i - 1]
    BY DEF FirstOf, Firsts, RankIn
<1>2. /\ size \in Nat /\ T \subseteq S
      /\ \A t \in T : RankIn(S, t) \in 0..(size - 1)
      /\ \A i \in 0..(size - 1) : \E t \in T : RankIn(S, t) = i
    <2>1. T \subseteq S
        BY DEF Firsts
    <2>2. QED
        BY <2>1, RanksTaken
<1> HIDE DEF size, batch
<1>3. ASSUME NEW i \in 1..size
      PROVE  /\ batch[i] \in S /\ RankIn(S, batch[i]) = i - 1 /\ batch[i] \in T
    <2>1. PICK t \in T : RankIn(S, t) = i - 1
        <3>1. i - 1 \in 0..(size - 1)
            BY <1>2
        <3>2. QED
            BY <1>2, <3>1
    <2>2. batch[i] = CHOOSE u \in S : RankIn(S, u) = i - 1
        BY <1>1
    <2>3. batch[i] \in S /\ RankIn(S, batch[i]) = i - 1
        BY <1>2, <2>1, <2>2
    <2>4. batch[i] = t
        <3>1. t \in S /\ batch[i] \in S /\ RankIn(S, batch[i]) = RankIn(S, t)
            BY <1>2, <2>1, <2>3
        <3>2. QED
            BY <3>1, RanksApart
    <2>5. QED
        BY <2>1, <2>3, <2>4
<1>4. batch \in Seq(S) /\ Len(batch) = size /\ DOMAIN batch = 1..size
    BY <1>1, <1>2, <1>3
<1>5. ASSUME NEW t \in T
      PROVE  \E j \in DOMAIN batch : batch[j] = t
    <2> DEFINE j == RankIn(S, t) + 1
    <2>1. j \in 1..size /\ RankIn(S, t) = j - 1
        BY <1>2
    <2>2. batch[j] \in S /\ RankIn(S, batch[j]) = RankIn(S, t)
        BY <1>3, <2>1
    <2>3. batch[j] = t
        BY <1>2, <2>2, RanksApart
    <2>4. QED
        BY <1>4, <2>1, <2>3
<1>6. ASSUME NEW i \in DOMAIN batch, NEW j \in DOMAIN batch, i < j
      PROVE  batch[i] < batch[j]
    <2>1. /\ i \in 1..size /\ j \in 1..size
          /\ batch[i] \in S /\ batch[j] \in S
          /\ RankIn(S, batch[i]) = i - 1 /\ RankIn(S, batch[j]) = j - 1
        BY <1>3, <1>4
    <2>2. RankIn(S, batch[i]) < RankIn(S, batch[j])
        BY <1>2, <1>6, <2>1
    <2>3. QED
        BY <2>1, <2>2, RanksApart
<1>7. ASSUME NEW t \in S, NEW i \in DOMAIN batch, t <= batch[i]
      PROVE  \E j \in DOMAIN batch : batch[j] = t
    <2>1. batch[i] \in T /\ batch[i] \in S
        BY <1>3, <1>4
    <2>2. CASE t = batch[i]
        BY <2>2
    <2>3. CASE t < batch[i]
        <3>1. RankIn(S, t) \in Nat /\ RankIn(S, batch[i]) \in Nat /\ RankIn(S, t) < RankIn(S, batch[i])
            BY <2>1, <2>3, RankGrows
        <3>2. RankIn(S, batch[i]) < n
            BY <2>1 DEF Firsts
        <3>3. t \in T
            BY <3>1, <3>2 DEF Firsts
        <3>4. QED
            BY <1>5, <3>3
    <2>4. t \in Nat /\ batch[i] \in Nat
        BY <2>1
    <2>5. QED
        BY <1>7, <2>2, <2>3, <2>4
<1>8. ASSUME Len(batch) < n
      PROVE  \A t \in S : t \in T
    <2>1. SUFFICES ASSUME S \ T # {} PROVE FALSE
        OBVIOUS
    <2>2. PICK x \in S \ T : \A y \in S \ T : x <= y
        <3>1. S \ T \subseteq Nat
            OBVIOUS
        <3>2. QED
            BY <2>1, <3>1, SmallestExists
    <2>3. {u \in S : u < x} \subseteq T
        <3>1. x \in Nat
            OBVIOUS
        <3>2. \A u \in S : u < x => u \in T
            BY <2>2, <3>1
        <3>3. QED
            BY <3>2
    <2>4. IsFiniteSet(T)
        BY RanksTaken
    <2>5. RankIn(S, x) \in Nat /\ RankIn(S, x) <= size
        BY <2>3, <2>4, PartCounted DEF RankIn, size
    <2>6. RankIn(S, x) < n
        BY <1>2, <1>4, <1>8, <2>5
    <2>7. QED
        BY <2>2, <2>6 DEF Firsts
<1>9. QED
    BY <1>4, <1>5, <1>6, <1>7, <1>8 DEF FirstFits, batch

LEMMA NoneMissed == Cardinality({}) = 0
BY FS_EmptySet

LEMMA FiguresInitially == FiguresInit => FiguresInv
<1>1. SUFFICES ASSUME FiguresInit PROVE FiguresInv
    OBVIOUS
<1>2. PICK kind \in DOMAIN StatementsOf, filter \in Filters :
           /\ figReport = [kind |-> kind, filter |-> filter, pc |-> "run", now |-> 2,
                           todo |-> StatementsOf[kind], saw |-> [s \in StatementsOf[kind] |-> {}],
                           moves |-> 0]
           /\ figExport = [sent |-> <<>>, skips |-> 0,
                           steady |-> {t \in FigTickets : filter \in {"any", figTicket[t].status}
                                                          /\ figTicket[t] # NoRow}]
    BY <1>1 DEF FiguresInit
<1>3. figNow = 2 /\ 2 \in 1..MaxFigTime /\ 2 \in Times /\ 0 \in Times /\ 0 \in 0..MaxFigMoves
    BY <1>1, FiguresAssumption DEF FiguresInit, Times
<1>4. /\ figTicket \in [FigTickets -> Row]
      /\ \A t \in FigTickets : TicketDated(t) /\ (figTicket[t] # NoRow => figTicket[t].status # "none")
    <2> DEFINE rows == {NoRow} \cup
           {line \in Row : /\ line.due \in 0..2
                          /\ \/ line.status = "OPEN" /\ line.updated = 1 /\ line.since = 0 /\ line.closed = 0
                             \/ line.status = "RESOLVED" /\ line.updated = 1 /\ line.since = 1 /\ line.closed \in 0..1
                             \/ line.status = "CLOSED" /\ line.updated = 2 /\ line.since = 1 /\ line.closed = 2}
    <2>1. figTicket \in [FigTickets -> rows]
        BY <1>1 DEF FiguresInit
    <2>2. NoRow \in Row
        BY <1>3 DEF NoRow, Row
    <2>3. \A line \in rows :
              /\ line \in Row
              /\ line.updated <= 2 /\ line.closed <= line.updated /\ line.since <= line.updated
              /\ line.closed # 0 => line.since <= line.closed
              /\ line.mine => line.status # "none"
              /\ line # NoRow => line.status # "none"
        <3>1. SUFFICES ASSUME NEW line \in rows
              PROVE  /\ line \in Row
                     /\ line.updated <= 2 /\ line.closed <= line.updated /\ line.since <= line.updated
                     /\ line.closed # 0 => line.since <= line.closed
                     /\ line.mine => line.status # "none"
                     /\ line # NoRow => line.status # "none"
            OBVIOUS
        <3>2. CASE line = NoRow
            BY <2>2, <3>2 DEF NoRow
        <3>3. CASE line # NoRow
            BY <3>3
        <3>4. QED
            BY <3>2, <3>3
    <2>4. \A t \in FigTickets : figTicket[t] \in rows
        BY <2>1
    <2> HIDE DEF rows
    <2>5. QED
        BY <1>3, <2>1, <2>3, <2>4 DEF TicketDated
<1>5. FigRowsPart
    BY <1>3, <1>4 DEF FigRowsPart
<1>6. figReport.kind = kind /\ figReport \in ReportOf(kind)
    <2>1. [s \in StatementsOf[kind] |-> {}] \in [StatementsOf[kind] -> SUBSET Seen]
        OBVIOUS
    <2>2. QED
        BY <1>2, <1>3, <2>1 DEF ReportOf
<1>7. StatementsRun(figReport) = {}
    BY <1>2 DEF StatementsRun
<1>8. Touched(figReport, figTicket, {}, {})
    <2>1. \A t \in FigTickets : AsItIs(figReport, t, figTicket[t])
        BY <1>7 DEF AsItIs
    <2>2. figReport.moves = 0
        BY <1>2
    <2>3. QED
        BY <2>1, <2>2, NoneMissed DEF Touched
<1>9. ReportPart
    <2>1. figReport.pc = "run" /\ \A s \in StatementsOf[kind] : figReport.saw[s] = {}
        BY <1>2
    <2>2. \A s \in StatementsOf[kind] : SawOnce(figReport.saw[s])
        BY <2>1 DEF SawOnce
    <2>3. kind = "metrics" => Reopened(figReport, figTicket, {})
        <3>1. SUFFICES ASSUME kind = "metrics" PROVE Reopened(figReport, figTicket, {})
            OBVIOUS
        <3>2. /\ figReport.saw["closed"] = {} /\ figReport.saw["breached"] = {}
              /\ "breached" \in figReport.todo /\ figReport.moves = 0
            BY <1>2, <2>1, <3>1 DEF StatementsOf
        <3>3. QED
            BY <3>2, NoneMissed DEF Reopened, Told
    <2>4. \E once, again \in SUBSET FigTickets : Touched(figReport, figTicket, once, again)
        BY <1>8
    <2>5. QED
        BY <1>2, <1>6, <2>1, <2>2, <2>3, <2>4 DEF ReportPart
<1>10. Cursor = 0 /\ figExport.sent = <<>> /\ figExport.skips = 0 /\ figReport.pc = "run"
    BY <1>2 DEF Cursor
<1>11. MissedTickets = {}
    BY <1>2, <1>10, FiguresAssumption DEF MissedTickets, FigTickets
<1>12. ExportPart
    <2>1. figExport \in [sent : Seq(FigTickets), skips : Nat, steady : SUBSET FigTickets]
        <3>1. <<>> \in Seq(FigTickets)
            OBVIOUS
        <3>2. QED
            BY <1>2, <3>1
    <2>2. \A t \in figExport.steady : Matches(figTicket[t])
        BY <1>2, <1>4 DEF Matches
    <2>3. DOMAIN figExport.sent = {}
        BY <1>10
    <2>4. QED
        BY <1>10, <1>11, <2>1, <2>2, <2>3, NoneMissed DEF ExportPart
<1>13. QED
    BY <1>5, <1>9, <1>12 DEF FiguresInv

\* What a statement answers is one line of every ticket that it asks for, as it stands.
LEMMA StatementSees ==
    ASSUME FiguresInv, NEW s \in StatementsOf[figReport.kind], RunStatement(s)
    PROVE  /\ figReport' \in ReportOf(figReport.kind)
           /\ figReport'.kind = figReport.kind /\ figReport'.now = figReport.now
           /\ figReport'.filter = figReport.filter /\ figReport'.moves = figReport.moves
           /\ figReport'.todo = figReport.todo \ {s} /\ s \in figReport.todo
           /\ figReport'.pc = IF figReport.todo = {s} THEN "done" ELSE "run"
           /\ \A r \in StatementsOf[figReport.kind] : r # s => figReport'.saw[r] = figReport.saw[r]
           /\ figReport.kind = "metrics" /\ s = "breached" => figReport.todo = {s}
           /\ \E now \in Times :
                 /\ figReport.kind # "metrics" => now = figReport.now
                 /\ figReport'.saw[s] = {LineOf(t, figTicket[t]) : t \in {u \in FigTickets : Where(s, figTicket[u], now)}}
<1> DEFINE now == IF figReport.kind = "metrics" THEN figNow ELSE figReport.now
           answer == {LineOf(t, figTicket[t]) : t \in {u \in FigTickets : Where(s, figTicket[u], now)}}
<1>1. /\ figReport.kind \in DOMAIN StatementsOf /\ figReport \in ReportOf(figReport.kind)
      /\ figTicket \in [FigTickets -> Row] /\ figNow \in Times
    BY FiguresAssumption DEF FiguresInv, ReportPart, FigRowsPart, Times
<1>2. now \in Times
    BY <1>1 DEF ReportOf
<1>3. answer \subseteq Seen
    <2>1. SUFFICES ASSUME NEW u \in FigTickets, Where(s, figTicket[u], now)
                   PROVE  LineOf(u, figTicket[u]) \in Seen
        OBVIOUS
    <2>2. figTicket[u] \in Row
        BY <1>1
    <2>3. TicketDated(u)
        BY DEF FiguresInv, FigRowsPart
    <2>4. s \in {"total", "byStatus", "breached", "resolved", "active", "closed", "mine",
                 "mineResolved", "mineActive"}
        BY <1>1 DEF StatementsOf
    <2>5. figTicket[u].status # "none"
        BY <2>1, <2>3, <2>4 DEF Where, Matches, TicketDated, Resolved
    <2>6. figTicket[u].status \in Status /\ figTicket[u].due \in Times
        BY <2>2, <2>5 DEF Row
    <2>7. QED
        BY <2>6 DEF LineOf, Seen
<1>4. /\ s \in figReport.todo
      /\ figReport' = [figReport EXCEPT !.todo = @ \ {s}, !.saw[s] = answer,
                                        !.pc = IF figReport.todo = {s} THEN "done" ELSE "run"]
    BY DEF RunStatement, LineOf
<1>5. figReport.kind = "metrics" /\ s = "breached" => figReport.todo = {s}
    BY DEF RunStatement
<1>6. QED
    BY <1>1, <1>2, <1>3, <1>4, <1>5 DEF ReportOf

LEMMA WhereAsks ==
    ASSUME NEW s, NEW line, NEW now
    PROVE  /\ Where(s, line, now) <=> Asks(figReport.filter, s, line, now)
           /\ Matches(line) <=> line.status # "none" /\ figReport.filter \in {"any", line.status}
BY DEF Where, Asks, Matches

\* What a statement that runs answers fits the tickets that were left alone.
LEMMA AnswerFits ==
    ASSUME NEW answer, NEW asked, asked \subseteq FigTickets,
           answer = {LineOf(t, figTicket[t]) : t \in asked}
    PROVE  /\ SawOnce(answer)
           /\ \A t \in FigTickets : Told(answer, t) <=> t \in asked
           /\ \A t \in FigTickets : \A seen \in answer : seen.id = t => seen = LineOf(t, figTicket[t])
<1>1. \A t : LineOf(t, figTicket[t]).id = t
    BY DEF LineOf
<1>2. \A seen \in answer : seen.id \in asked /\ seen = LineOf(seen.id, figTicket[seen.id])
    BY <1>1
<1>3. SawOnce(answer)
    BY <1>2 DEF SawOnce
<1>4. ASSUME NEW t \in FigTickets
      PROVE  Told(answer, t) <=> t \in asked
    <2>1. t \in asked => LineOf(t, figTicket[t]) \in answer
        OBVIOUS
    <2>2. QED
        BY <1>1, <1>2, <2>1 DEF Told
<1>5. QED
    BY <1>2, <1>3, <1>4

LEMMA TouchedStatement ==
    ASSUME NEW report, NEW reportNow, NEW s \in StatementsOf[report.kind], NEW lines,
           NEW once, NEW again, Touched(report, lines, once, again),
           reportNow.kind = report.kind, reportNow.now = report.now, reportNow.filter = report.filter,
           reportNow.moves = report.moves, reportNow.todo = report.todo \ {s},
           \A r \in StatementsOf[report.kind] : r # s => reportNow.saw[r] = report.saw[r],
           \A t \in FigTickets :
               /\ Told(reportNow.saw[s], t) <=> Asks(report.filter, s, lines[t], report.now)
               /\ \A seen \in reportNow.saw[s] : seen.id = t => seen = LineOf(t, lines[t])
    PROVE  Touched(reportNow, lines, once, again)
<1>1. \A r \in StatementsRun(reportNow) : r # s => r \in StatementsRun(report) /\ reportNow.saw[r] = report.saw[r]
    BY DEF StatementsRun
<1>2. ASSUME NEW t \in FigTickets, AsItIs(report, t, lines[t])
      PROVE  AsItIs(reportNow, t, lines[t])
    BY <1>1, <1>2 DEF AsItIs
<1>3. ASSUME NEW t \in FigTickets, AsOnceBefore(report, t, lines[t])
      PROVE  AsOnceBefore(reportNow, t, lines[t])
    <2>1. PICK was \in Row : \A r \in StatementsRun(report) :
              \/ Told(report.saw[r], t) <=> Asks(report.filter, r, was, report.now)
              \/ Told(report.saw[r], t) <=> Asks(report.filter, r, lines[t], report.now)
        BY <1>3 DEF AsOnceBefore
    <2>2. \A r \in StatementsRun(reportNow) :
              \/ Told(reportNow.saw[r], t) <=> Asks(reportNow.filter, r, was, reportNow.now)
              \/ Told(reportNow.saw[r], t) <=> Asks(reportNow.filter, r, lines[t], reportNow.now)
        BY <1>1, <2>1
    <2>3. QED
        BY <2>2 DEF AsOnceBefore
<1>4. QED
    BY <1>2, <1>3 DEF Touched

\* The closed ones are counted as they are; the overdue ones last, of which none is
\* resolved.
LEMMA ReopenedStatement ==
    ASSUME NEW report, NEW reportNow, NEW s \in {"closed", "breached"}, NEW lines, NEW once,
           Reopened(report, lines, once), reportNow.moves = report.moves,
           s \in report.todo, reportNow.todo = report.todo \ {s},
           s = "breached" => report.todo = {s},
           \A r \in {"closed", "breached"} : r # s => reportNow.saw[r] = report.saw[r],
           s = "closed" => \A t \in FigTickets : Told(reportNow.saw[s], t) => lines[t].status = "RESOLVED",
           s = "breached" => \A t \in FigTickets : Told(reportNow.saw[s], t) => lines[t].status # "RESOLVED"
    PROVE  Reopened(reportNow, lines, once)
<1>1. CASE s = "closed"
    <2>1. /\ "breached" \in report.todo /\ "breached" \in reportNow.todo /\ "closed" \notin reportNow.todo
          /\ reportNow.saw["breached"] = {}
          /\ \A t \in FigTickets : Told(reportNow.saw["closed"], t) => lines[t].status = "RESOLVED"
        BY <1>1 DEF Reopened
    <2>2. \A t : ~Told(reportNow.saw["breached"], t)
        BY <2>1 DEF Told
    <2>3. QED
        BY <2>1, <2>2 DEF Reopened
<1>2. CASE s = "breached"
    <2>1. reportNow.todo = {} /\ reportNow.saw["closed"] = report.saw["closed"]
        BY <1>2
    <2>2. \A t \in FigTickets \ once : Told(reportNow.saw["closed"], t) => lines[t].status = "RESOLVED"
        BY <1>2, <2>1 DEF Reopened
    <2>3. QED
        BY <1>2, <2>1, <2>2 DEF Reopened
<1>3. QED
    BY <1>1, <1>2

LEMMA RunStatementKeeps ==
    ASSUME FiguresInv, NEW s \in StatementsOf[figReport.kind], RunStatement(s)
    PROVE  FiguresInv'
<1>1. /\ figReport' \in ReportOf(figReport.kind)
      /\ figReport'.kind = figReport.kind /\ figReport'.now = figReport.now
      /\ figReport'.filter = figReport.filter /\ figReport'.moves = figReport.moves
      /\ figReport'.todo = figReport.todo \ {s} /\ s \in figReport.todo
      /\ figReport'.pc = IF figReport.todo = {s} THEN "done" ELSE "run"
      /\ \A r \in StatementsOf[figReport.kind] : r # s => figReport'.saw[r] = figReport.saw[r]
      /\ figReport.kind = "metrics" /\ s = "breached" => figReport.todo = {s}
    BY StatementSees
<1>2. PICK now \in Times :
          /\ figReport.kind # "metrics" => now = figReport.now
          /\ figReport'.saw[s] = {LineOf(t, figTicket[t]) : t \in {u \in FigTickets : Where(s, figTicket[u], now)}}
    BY StatementSees
<1>3. UNCHANGED <<figTicket, figNow, figExport>> /\ figReport.kind # "export" /\ figReport.pc = "run"
    BY DEF RunStatement, StatementsOf
<1>4. FigRowsPart'
    <2>1. \A t \in FigTickets : TicketDated(t)'
        BY <1>3 DEF FiguresInv, FigRowsPart, TicketDated
    <2>2. QED
        BY <1>3, <2>1 DEF FiguresInv, FigRowsPart
<1>5. /\ SawOnce(figReport'.saw[s])
      /\ \A t \in FigTickets : Told(figReport'.saw[s], t) <=> Where(s, figTicket[t], now)
      /\ \A t \in FigTickets : \A seen \in figReport'.saw[s] : seen.id = t => seen = LineOf(t, figTicket[t])
    <2> DEFINE asked == {u \in FigTickets : Where(s, figTicket[u], now)}
               answer == figReport'.saw[s]
    <2>1. answer = {LineOf(t, figTicket[t]) : t \in asked} /\ asked \subseteq FigTickets
        BY <1>2
    <2>2. \A t \in FigTickets : t \in asked <=> Where(s, figTicket[t], now)
        OBVIOUS
    <2> HIDE DEF asked, answer
    <2>3. /\ SawOnce(answer)
          /\ \A t \in FigTickets : Told(answer, t) <=> t \in asked
          /\ \A t \in FigTickets : \A seen \in answer : seen.id = t => seen = LineOf(t, figTicket[t])
        BY <2>1, AnswerFits
    <2>4. QED
        BY <2>2, <2>3 DEF answer
<1>6. \A r \in StatementsOf[figReport.kind] : SawOnce(figReport'.saw[r])
    BY <1>1, <1>5 DEF FiguresInv, ReportPart
<1>7. ASSUME figReport.kind = "metrics"
      PROVE  \E once \in SUBSET FigTickets : Reopened(figReport', figTicket', once)
    <2>1. PICK once \in SUBSET FigTickets : Reopened(figReport, figTicket, once)
        BY <1>7 DEF FiguresInv, ReportPart
    <2>2. s \in {"closed", "breached"} /\ StatementsOf[figReport.kind] = {"closed", "breached"}
        BY <1>7 DEF StatementsOf
    <2>3. /\ s = "closed" => \A t \in FigTickets :
                 Told(figReport'.saw[s], t) => figTicket[t].status = "RESOLVED"
          /\ s = "breached" => \A t \in FigTickets :
                 Told(figReport'.saw[s], t) => figTicket[t].status # "RESOLVED"
        BY <1>5 DEF Where, Resolved
    <2>4. Reopened(figReport', figTicket, once)
        BY <1>1, <1>7, <2>1, <2>2, <2>3, ReopenedStatement
    <2>5. QED
        BY <1>3, <2>4
<1>8. ASSUME figReport.kind # "metrics"
      PROVE  \E once, again \in SUBSET FigTickets : Touched(figReport', figTicket', once, again)
    <2>1. PICK once \in SUBSET FigTickets, again \in SUBSET FigTickets :
              Touched(figReport, figTicket, once, again)
        BY <1>8 DEF FiguresInv, ReportPart
    <2>2. now = figReport.now
        BY <1>2, <1>8
    <2>3. \A t \in FigTickets :
              /\ Told(figReport'.saw[s], t) <=> Asks(figReport.filter, s, figTicket[t], figReport.now)
              /\ \A seen \in figReport'.saw[s] : seen.id = t => seen = LineOf(t, figTicket[t])
        BY <1>5, <2>2, WhereAsks
    <2>4. Touched(figReport', figTicket, once, again)
        BY <1>1, <2>1, <2>3, TouchedStatement
    <2>5. QED
        BY <1>3, <2>4
<1>9. ReportPart'
    <2>1. figReport'.pc = "done" => figReport'.todo = {}
        BY <1>1
    <2>2. QED
        BY <1>1, <1>6, <1>7, <1>8, <2>1 DEF FiguresInv, ReportPart
<1>10. ExportPart'
    <2>1. Cursor' = Cursor /\ figExport.skips = 0
        BY <1>3 DEF Cursor, FiguresInv, ExportPart
    <2>2. \A t \in figExport.steady : Matches(figTicket[t])'
        BY <1>1, <1>3 DEF Matches, FiguresInv, ExportPart
    <2>3. QED
        BY <1>1, <1>3, <2>1, <2>2 DEF FiguresInv, ExportPart
<1>11. QED
    BY <1>4, <1>9, <1>10 DEF FiguresInv

LEMMA FigTickKeeps ==
    ASSUME FiguresInv, FigTick
    PROVE  FiguresInv'
<1>1. /\ figNow' = figNow + 1 /\ figNow' \in 1..MaxFigTime /\ figNow \in Nat
      /\ UNCHANGED <<figTicket, figReport, figExport>>
    BY FiguresAssumption DEF FigTick, FiguresInv, FigRowsPart
<1>2. FigRowsPart'
    <2>1. ASSUME NEW t \in FigTickets
          PROVE  TicketDated(t)'
        <3>1. figTicket[t] \in Row /\ TicketDated(t)
            BY DEF FiguresInv, FigRowsPart
        <3>2. figTicket[t].updated \in Int
            BY <3>1 DEF Row, Times
        <3>3. QED
            BY <1>1, <3>1, <3>2 DEF TicketDated
    <2>2. QED
        BY <1>1, <2>1 DEF FiguresInv, FigRowsPart
<1>3. ReportPart'
    BY <1>1 DEF FiguresInv, ReportPart
<1>4. ExportPart'
    <2>1. Cursor' = Cursor /\ MissedTickets' = MissedTickets
        BY <1>1 DEF Cursor, MissedTickets, SentTickets
    <2>2. \A t \in figExport.steady : Matches(figTicket[t])'
        BY <1>1 DEF Matches, FiguresInv, ExportPart
    <2>3. QED
        BY <1>1, <2>1, <2>2 DEF FiguresInv, ExportPart
<1>5. QED
    BY <1>2, <1>3, <1>4 DEF FiguresInv

LEMMA TicketsFinite == IsFiniteSet(FigTickets) /\ FigTickets \subseteq Nat
<1>1. 1 \in Int /\ LastTicket \in Int
    BY FiguresAssumption
<1>2. QED
    BY <1>1, FS_Interval DEF FigTickets

\* What others do to a ticket touches it, or touches it again.
LEMMA TouchedMove ==
    ASSUME NEW report, NEW reportNow, NEW lines, NEW linesNow, NEW t \in FigTickets,
           NEW once, NEW again, Touched(report, lines, once, again),
           report.moves \in Nat, reportNow.moves = report.moves + 1,
           reportNow.kind = report.kind, reportNow.now = report.now, reportNow.filter = report.filter,
           reportNow.todo = report.todo, reportNow.saw = report.saw,
           lines[t] \in Row, \A u \in FigTickets : u # t => linesNow[u] = lines[u]
    PROVE  \E onceNow, againNow \in SUBSET FigTickets : Touched(reportNow, linesNow, onceNow, againNow)
<1>1. IsFiniteSet(FigTickets)
    BY TicketsFinite
<1>2. /\ once \subseteq FigTickets /\ again \subseteq once
      /\ IsFiniteSet(once) /\ IsFiniteSet(again)
      /\ Cardinality(once) \in Nat /\ Cardinality(again) \in Nat
      /\ Cardinality(once) + Cardinality(again) <= report.moves
    <2>1. once \subseteq FigTickets /\ again \subseteq once /\ again \subseteq FigTickets
        BY DEF Touched
    <2>2. QED
        BY <1>1, <2>1, PartCounted DEF Touched
<1>3. StatementsRun(reportNow) = StatementsRun(report)
    BY DEF StatementsRun
<1>4. ASSUME NEW u \in FigTickets, u # t
      PROVE  /\ AsItIs(report, u, lines[u]) => AsItIs(reportNow, u, linesNow[u])
             /\ AsOnceBefore(report, u, lines[u]) => AsOnceBefore(reportNow, u, linesNow[u])
    BY <1>3, <1>4 DEF AsItIs, AsOnceBefore
<1>5. AsItIs(report, t, lines[t]) => AsOnceBefore(reportNow, t, linesNow[t])
    <2>1. SUFFICES ASSUME AsItIs(report, t, lines[t])
                   PROVE  AsOnceBefore(reportNow, t, linesNow[t])
        OBVIOUS
    <2>2. \A s \in StatementsRun(reportNow) :
              Told(reportNow.saw[s], t) <=> Asks(reportNow.filter, s, lines[t], reportNow.now)
        BY <1>3, <2>1 DEF AsItIs
    <2>3. QED
        BY <2>2 DEF AsOnceBefore
<1>6. CASE t \notin once
    <2>1. /\ Cardinality(once \cup {t}) = Cardinality(once) + 1 /\ t \notin again
          /\ again \subseteq once \cup {t} /\ once \cup {t} \subseteq FigTickets
        BY <1>2, <1>6, ElementAdded
    <2>2. Touched(reportNow, linesNow, once \cup {t}, again)
        <3>1. \A u \in FigTickets \ (once \cup {t}) : AsItIs(reportNow, u, linesNow[u])
            BY <1>4 DEF Touched
        <3>2. \A u \in (once \cup {t}) \ again : AsOnceBefore(reportNow, u, linesNow[u])
            BY <1>2, <1>4, <1>5, <1>6 DEF Touched
        <3>3. QED
            BY <1>2, <2>1, <3>1, <3>2 DEF Touched
    <2>3. QED
        BY <2>1, <2>2
<1>7. CASE t \in once
    <2>1. /\ Cardinality(again \cup {t}) <= Cardinality(again) + 1 /\ Cardinality(again \cup {t}) \in Nat
          /\ again \cup {t} \subseteq once /\ again \cup {t} \subseteq FigTickets
        BY <1>2, <1>7, OneMoreCounted
    <2>2. Touched(reportNow, linesNow, once, again \cup {t})
        <3>1. \A u \in FigTickets \ once : AsItIs(reportNow, u, linesNow[u])
            BY <1>4, <1>7 DEF Touched
        <3>2. \A u \in once \ (again \cup {t}) : AsOnceBefore(reportNow, u, linesNow[u])
            BY <1>2, <1>4 DEF Touched
        <3>3. QED
            BY <1>2, <2>1, <3>1, <3>2 DEF Touched
    <2>3. QED
        BY <1>2, <2>1, <2>2
<1>8. QED
    BY <1>6, <1>7

LEMMA ReopenedMove ==
    ASSUME NEW report, NEW reportNow, NEW lines, NEW linesNow, NEW t \in FigTickets,
           NEW once, Reopened(report, lines, once),
           report.moves \in Nat, reportNow.moves = report.moves + 1,
           reportNow.todo = report.todo, reportNow.saw = report.saw,
           \A u \in FigTickets : u # t => linesNow[u] = lines[u]
    PROVE  \E onceNow \in SUBSET FigTickets : Reopened(reportNow, linesNow, onceNow)
<1> DEFINE onceNow == once \cup {t}
<1>1. once \subseteq FigTickets /\ onceNow \subseteq FigTickets /\ Cardinality(once) <= report.moves
    BY DEF Reopened
<1>2. /\ Cardinality(onceNow) <= Cardinality(once) + 1 /\ Cardinality(onceNow) \in Nat
      /\ Cardinality(once) \in Nat
    BY <1>1, TicketsFinite, PartCounted, OneMoreCounted
<1>3. Cardinality(onceNow) <= reportNow.moves
    BY <1>1, <1>2
<1>4. \A u \in FigTickets \ onceNow : u \in FigTickets \ once /\ linesNow[u] = lines[u]
    OBVIOUS
<1> HIDE DEF onceNow
<1>5. Reopened(reportNow, linesNow, onceNow)
    BY <1>1, <1>3, <1>4 DEF Reopened
<1>6. QED
    BY <1>1, <1>5

\* A row that a change may leave.
LineFits(line) ==
    /\ line \in Row /\ line.status # "none" /\ line.updated = figNow
    /\ line.closed <= figNow /\ line.since <= figNow
    /\ line.closed # 0 => line.since <= line.closed

LEMMA MovedKeeps ==
    ASSUME FiguresInv, NEW t \in FigTickets, NEW line, LineFits(line), Moved(t, line)
    PROVE  FiguresInv'
<1>1. /\ figTicket \in [FigTickets -> Row] /\ figNow \in 1..MaxFigTime
      /\ figReport.kind \in DOMAIN StatementsOf /\ figReport \in ReportOf(figReport.kind)
      /\ figExport \in [sent : Seq(FigTickets), skips : Nat, steady : SUBSET FigTickets]
    BY DEF FiguresInv, FigRowsPart, ReportPart, ExportPart
<1>2. /\ figTicket' = [figTicket EXCEPT ![t] = line] /\ figNow' = figNow
      /\ figTicket' \in [FigTickets -> Row] /\ figTicket'[t] = line
      /\ \A u \in FigTickets : u # t => figTicket'[u] = figTicket[u]
    BY <1>1 DEF Moved, LineFits
<1>3. /\ figReport' = [figReport EXCEPT !.moves = @ + 1] /\ figReport.moves < MaxFigMoves
      /\ figReport.moves \in Nat /\ figReport.moves + 1 \in 0..MaxFigMoves
    BY <1>1, FiguresAssumption DEF Moved, ReportOf
<1>4. /\ figReport' \in ReportOf(figReport.kind) /\ figReport'.moves = figReport.moves + 1
      /\ figReport'.kind = figReport.kind /\ figReport'.now = figReport.now
      /\ figReport'.filter = figReport.filter /\ figReport'.todo = figReport.todo
      /\ figReport'.saw = figReport.saw /\ figReport'.pc = figReport.pc
    BY <1>1, <1>3 DEF ReportOf
<1>5. /\ figExport' \in [sent : Seq(FigTickets), skips : Nat, steady : SUBSET FigTickets]
      /\ figExport'.sent = figExport.sent /\ figExport'.skips = figExport.skips
      /\ figExport'.steady = IF Matches(line) THEN figExport.steady ELSE figExport.steady \ {t}
    BY <1>1 DEF Moved
<1>6. FigRowsPart'
    <2>1. ASSUME NEW u \in FigTickets
          PROVE  TicketDated(u)'
        <3>1. CASE u = t
            <4>1. figTicket'[u] = line /\ figNow' = figNow /\ figNow \in Int
                BY <1>1, <1>2, <3>1
            <4>2. QED
                BY <4>1 DEF TicketDated, LineFits
        <3>2. CASE u # t
            BY <1>2, <3>2 DEF TicketDated, FiguresInv, FigRowsPart
        <3>3. QED
            BY <3>1, <3>2
    <2>2. QED
        BY <1>1, <1>2, <2>1 DEF FigRowsPart
<1>7. ReportPart'
    <2>1. ASSUME figReport.kind # "metrics"
          PROVE  \E once, again \in SUBSET FigTickets : Touched(figReport', figTicket', once, again)
        <3>1. PICK once \in SUBSET FigTickets, again \in SUBSET FigTickets :
                  Touched(figReport, figTicket, once, again)
            BY <2>1 DEF FiguresInv, ReportPart
        <3>2. figTicket[t] \in Row /\ \A u \in FigTickets : u # t => figTicket'[u] = figTicket[u]
            BY <1>1, <1>2
        <3>3. /\ figReport.moves \in Nat /\ figReport'.moves = figReport.moves + 1
              /\ figReport'.kind = figReport.kind /\ figReport'.now = figReport.now
              /\ figReport'.filter = figReport.filter /\ figReport'.todo = figReport.todo
              /\ figReport'.saw = figReport.saw
            BY <1>3, <1>4
        <3>4. QED
            BY <3>1, <3>2, <3>3, TouchedMove
    <2>2. ASSUME figReport.kind = "metrics"
          PROVE  \E once \in SUBSET FigTickets : Reopened(figReport', figTicket', once)
        <3>1. PICK once \in SUBSET FigTickets : Reopened(figReport, figTicket, once)
            BY <2>2 DEF FiguresInv, ReportPart
        <3>2. /\ figReport.moves \in Nat /\ figReport'.moves = figReport.moves + 1
              /\ figReport'.todo = figReport.todo /\ figReport'.saw = figReport.saw
              /\ \A u \in FigTickets : u # t => figTicket'[u] = figTicket[u]
            BY <1>2, <1>3, <1>4
        <3>3. QED
            BY <3>1, <3>2, ReopenedMove
    <2>3. QED
        BY <1>4, <2>1, <2>2 DEF FiguresInv, ReportPart
<1>8. ExportPart'
    <2>1. Cursor' = Cursor /\ SentTickets' = SentTickets
        BY <1>5 DEF Cursor, SentTickets
    <2>2. \A u \in FigTickets : Matches(figTicket[u])' <=> Matches(figTicket'[u])
        BY <1>4 DEF Matches
    <2>3. ASSUME NEW u \in figExport'.steady
          PROVE  u \in figExport.steady /\ Matches(figTicket'[u])
        <3>1. u \in figExport.steady /\ u \in FigTickets /\ Matches(figTicket[u])
            BY <1>1, <1>5 DEF FiguresInv, ExportPart
        <3>2. u = t => Matches(line)
            BY <1>5
        <3>3. QED
            BY <1>2, <3>1, <3>2
    <2>4. MissedTickets' \subseteq MissedTickets
        BY <1>4, <2>1, <2>3 DEF MissedTickets
    <2>5. figReport.kind = "export" => Cardinality(MissedTickets') <= figExport'.skips
        <3>1. SUFFICES ASSUME figReport.kind = "export"
                       PROVE  Cardinality(MissedTickets') <= figExport'.skips
            OBVIOUS
        <3>2. IsFiniteSet(FigTickets) /\ MissedTickets \subseteq FigTickets
            BY <1>1, TicketsFinite DEF MissedTickets
        <3>3. IsFiniteSet(MissedTickets)
            BY <3>2, PartCounted
        <3>4. /\ Cardinality(MissedTickets') \in Nat /\ Cardinality(MissedTickets) \in Nat
              /\ Cardinality(MissedTickets') <= Cardinality(MissedTickets)
            BY <2>4, <3>3, PartCounted
        <3>5. Cardinality(MissedTickets) <= figExport.skips
            BY <3>1 DEF FiguresInv, ExportPart
        <3>6. QED
            BY <1>1, <1>5, <3>4, <3>5
    <2>6. \A u \in figExport'.steady : Matches(figTicket[u])'
        <3>1. \A u \in figExport'.steady : u \in FigTickets
            BY <1>5
        <3>2. QED
            BY <2>2, <2>3, <3>1
    <2>7. QED
        BY <1>4, <1>5, <2>1, <2>5, <2>6 DEF FiguresInv, ExportPart
<1>9. QED
    BY <1>6, <1>7, <1>8 DEF FiguresInv

LEMMA TicketMovesKeep ==
    ASSUME FiguresInv, NEW t \in FigTickets,
           TicketOpened(t) \/ StatusUpdated(t) \/ TicketAssigned(t)
    PROVE  FiguresInv'
<1>1. /\ figTicket[t] \in Row /\ TicketDated(t) /\ figNow \in 1..MaxFigTime
      /\ figNow \in Times /\ 0 \in Times /\ MaxFigTime \in Nat
    BY FiguresAssumption DEF FiguresInv, FigRowsPart, Times
<1>2. /\ figTicket[t].updated \in Nat /\ figTicket[t].closed \in Nat /\ figTicket[t].since \in Nat
      /\ figNow \in Nat
    BY <1>1 DEF Row, Times
<1>3. CASE TicketOpened(t)
    <2>1. PICK due \in {0, figNow} :
              Moved(t, [NoRow EXCEPT !.status = "OPEN", !.due = due, !.updated = figNow])
        BY <1>3 DEF TicketOpened
    <2>2. LineFits([NoRow EXCEPT !.status = "OPEN", !.due = due, !.updated = figNow])
        <3>1. due \in Times
            BY <1>1
        <3>2. /\ NoRow \in Row /\ NoRow.closed = 0 /\ NoRow.since = 0
            BY <1>1 DEF NoRow, Row
        <3> DEFINE line == [NoRow EXCEPT !.status = "OPEN", !.due = due, !.updated = figNow]
        <3>3. line \in Row /\ line.status = "OPEN" /\ line.updated = figNow /\ line.closed = 0 /\ line.since = 0
            BY <1>1, <3>1, <3>2 DEF Row, Status
        <3> HIDE DEF line
        <3>4. LineFits(line)
            BY <1>2, <3>3 DEF LineFits
        <3>5. QED
            BY <3>4 DEF line
    <2>3. QED
        BY <2>1, <2>2, MovedKeeps
<1>4. CASE StatusUpdated(t)
    <2> DEFINE line(status) ==
            [figTicket[t] EXCEPT !.status = status, !.closed = ClosingDate(status), !.updated = figNow,
                 !.since = IF status \notin Resolved THEN 0 ELSE IF @ = 0 THEN figNow ELSE @]
    <2>1. PICK status \in FigStatuses : Moved(t, line(status))
        BY <1>4 DEF StatusUpdated
    <2>2. status \in Status /\ status # "none"
        BY FiguresAssumption DEF Status
    <2>3. ClosingDate(status) \in {0, figNow}
        BY DEF ClosingDate
    <2>4. /\ line(status) \in Row /\ line(status).status = status /\ line(status).updated = figNow
          /\ line(status).closed = ClosingDate(status)
          /\ line(status).since \in {0, figNow, figTicket[t].since}
        BY <1>1, <2>2, <2>3 DEF Row
    <2>5. figTicket[t].since <= figNow
        BY <1>1, <1>2 DEF TicketDated
    <2> HIDE DEF line
    <2>6. LineFits(line(status))
        BY <1>2, <2>2, <2>3, <2>4, <2>5 DEF LineFits
    <2>7. QED
        BY <2>1, <2>6, MovedKeeps
<1>5. CASE TicketAssigned(t)
    <2> DEFINE line == [figTicket[t] EXCEPT !.mine = ~@, !.updated = figNow]
    <2>1. Moved(t, line) /\ figTicket[t].status # "none"
        BY <1>5 DEF TicketAssigned
    <2>2. /\ line \in Row /\ line.status = figTicket[t].status /\ line.updated = figNow
          /\ line.closed = figTicket[t].closed /\ line.since = figTicket[t].since
        BY <1>1 DEF Row
    <2> HIDE DEF line
    <2>3. LineFits(line)
        BY <1>1, <1>2, <2>1, <2>2 DEF LineFits, TicketDated
    <2>4. QED
        BY <2>1, <2>3, MovedKeeps
<1>6. QED
    BY <1>3, <1>4, <1>5

LEMMA SentNumbers ==
    ASSUME NEW sent \in Seq(FigTickets), NEW i \in DOMAIN sent
    PROVE  sent[i] \in FigTickets /\ sent[i] \in Nat
<1>1. sent[i] \in FigTickets
    OBVIOUS
<1>2. QED
    BY <1>1, TicketsFinite

LEMMA CursorFits ==
    ASSUME FiguresInv
    PROVE  /\ Cursor \in 0..LastTicket
           /\ Cursor = 0 <=> figExport.sent = <<>>
           /\ Cursor # 0 => Cursor \in SentTickets
           /\ \A i \in DOMAIN figExport.sent : figExport.sent[i] <= Cursor /\ figExport.sent[i] \in FigTickets
<1>1. /\ figExport.sent \in Seq(FigTickets)
      /\ \A i, j \in DOMAIN figExport.sent : i < j => figExport.sent[i] < figExport.sent[j]
    BY DEF FiguresInv, ExportPart
<1>2. CASE figExport.sent = <<>>
    BY <1>2, FiguresAssumption DEF Cursor
<1>3. CASE figExport.sent # <<>>
    <2> DEFINE last == Len(figExport.sent)
    <2>1. last \in DOMAIN figExport.sent /\ \A i \in DOMAIN figExport.sent : i <= last /\ i \in Nat
        BY <1>1, <1>3
    <2>2. Cursor = figExport.sent[last] /\ Cursor \in FigTickets
        BY <1>1, <1>3, <2>1 DEF Cursor
    <2>3. ASSUME NEW i \in DOMAIN figExport.sent
          PROVE  figExport.sent[i] <= Cursor /\ figExport.sent[i] \in FigTickets
        <3>1. figExport.sent[i] \in FigTickets /\ figExport.sent[i] \in Nat
            BY <1>1, SentNumbers
        <3>2. i = last \/ i < last
            BY <2>1
        <3>3. CASE i < last
            <4>1. figExport.sent[i] < figExport.sent[last]
                BY <1>1, <2>1, <3>3
            <4>2. figExport.sent[last] \in Nat
                BY <1>1, <2>1, SentNumbers
            <4>3. QED
                BY <2>2, <3>1, <4>1, <4>2
        <3>4. QED
            BY <2>2, <3>1, <3>2, <3>3
    <2>4. QED
        BY <1>3, <2>1, <2>2, <2>3, FiguresAssumption DEF SentTickets, FigTickets
<1>4. QED
    BY <1>2, <1>3

\* Behind the cursor are the tickets that match, but for one.
LEMMA BehindFits ==
    ASSUME NEW cursor \in 0..LastTicket
    PROVE  /\ Behind(cursor) \subseteq FigTickets /\ IsFiniteSet(Behind(cursor))
           /\ \A t \in Behind(cursor) : cursor < t /\ Matches(figTicket[t])
           /\ \A t \in FigTickets : cursor < t /\ Matches(figTicket[t]) /\ t \notin Behind(cursor) =>
                 /\ cursor # 0
                 /\ \A u \in FigTickets : cursor <= u /\ Matches(figTicket[u]) => t <= u
<1> DEFINE from == {t \in FigTickets : t >= cursor /\ Matches(figTicket[t])}
<1>1. Behind(cursor) = IF cursor = 0 THEN from ELSE {t \in from : \E u \in from : u < t}
    BY DEF Behind
<1>2. cursor \in Nat /\ \A t \in FigTickets : t \in Nat /\ t # 0
    BY FiguresAssumption DEF FigTickets
<1>3. Behind(cursor) \subseteq FigTickets
    BY <1>1
<1>4. IsFiniteSet(Behind(cursor))
    BY <1>3, TicketsFinite, PartCounted
<1>5. ASSUME NEW t \in Behind(cursor)
      PROVE  cursor < t /\ Matches(figTicket[t])
    <2>1. CASE cursor = 0
        BY <1>1, <1>2, <2>1
    <2>2. CASE cursor # 0
        <3>1. t \in from /\ \E u \in from : u < t
            BY <1>1, <2>2
        <3>2. PICK u \in from : u < t
            BY <3>1
        <3>3. u \in Nat /\ t \in Nat /\ cursor <= u
            BY <1>2, <3>1, <3>2
        <3>4. QED
            BY <1>2, <3>1, <3>2, <3>3
    <2>3. QED
        BY <2>1, <2>2
<1>6. ASSUME NEW t \in FigTickets, cursor < t, Matches(figTicket[t]), t \notin Behind(cursor)
      PROVE  /\ cursor # 0
             /\ \A u \in FigTickets : cursor <= u /\ Matches(figTicket[u]) => t <= u
    <2>1. t \in from
        BY <1>2, <1>6
    <2>2. cursor # 0
        BY <1>1, <1>6, <2>1
    <2>3. \A u \in from : ~(u < t)
        BY <1>1, <1>6, <2>1, <2>2
    <2>4. QED
        BY <1>2, <2>2, <2>3
<1>7. QED
    BY <1>3, <1>4, <1>5, <1>6

\* What is sent after a batch.
LEMMA SentFollows ==
    ASSUME NEW sent \in Seq(FigTickets), NEW cursor \in Nat, NEW batch \in Seq(FigTickets),
           \A i, j \in DOMAIN sent : i < j => sent[i] < sent[j],
           \A i \in DOMAIN sent : sent[i] <= cursor,
           \A i, j \in DOMAIN batch : i < j => batch[i] < batch[j],
           \A i \in DOMAIN batch : cursor < batch[i]
    PROVE  /\ sent \o batch \in Seq(FigTickets)
           /\ \A i, j \in DOMAIN (sent \o batch) : i < j => (sent \o batch)[i] < (sent \o batch)[j]
           /\ \A i \in DOMAIN sent : \E j \in DOMAIN (sent \o batch) : (sent \o batch)[j] = sent[i]
           /\ \A i \in DOMAIN batch : \E j \in DOMAIN (sent \o batch) : (sent \o batch)[j] = batch[i]
           /\ batch # <<>> => /\ sent \o batch # <<>>
                              /\ (sent \o batch)[Len(sent \o batch)] = batch[Len(batch)]
                              /\ Len(batch) \in DOMAIN batch
<1> DEFINE all == sent \o batch
           m == Len(sent)
           n == Len(batch)
<1>1. /\ m \in Nat /\ n \in Nat /\ DOMAIN sent = 1..m /\ DOMAIN batch = 1..n
      /\ all \in Seq(FigTickets) /\ Len(all) = m + n /\ DOMAIN all = 1..(m + n)
    OBVIOUS
<1>2. \A i \in 1..(m + n) : all[i] = IF i <= m THEN sent[i] ELSE batch[i - m]
    OBVIOUS
<1>3. /\ \A i \in 1..m : sent[i] \in Nat
      /\ \A i \in 1..n : batch[i] \in Nat
    BY <1>1, SentNumbers
<1> HIDE DEF all, m, n
<1>4. ASSUME NEW i \in 1..(m + n), NEW j \in 1..(m + n), i < j
      PROVE  all[i] < all[j]
    <2>1. CASE j <= m
        <3>1. i \in 1..m /\ j \in 1..m /\ all[i] = sent[i] /\ all[j] = sent[j]
            BY <1>1, <1>2, <1>4, <2>1
        <3>2. QED
            BY <1>1, <1>4, <3>1
    <2>2. CASE i <= m /\ ~(j <= m)
        <3>1. i \in 1..m /\ j - m \in 1..n /\ all[i] = sent[i] /\ all[j] = batch[j - m]
            BY <1>1, <1>2, <2>2
        <3>2. sent[i] <= cursor /\ cursor < batch[j - m] /\ sent[i] \in Nat /\ batch[j - m] \in Nat
            BY <1>1, <1>3, <3>1
        <3>3. QED
            BY <3>1, <3>2
    <2>3. CASE ~(i <= m)
        <3>1. /\ i - m \in 1..n /\ j - m \in 1..n /\ i - m < j - m
              /\ all[i] = batch[i - m] /\ all[j] = batch[j - m]
            BY <1>1, <1>2, <1>4, <2>3
        <3>2. QED
            BY <1>1, <3>1
    <2>4. QED
        BY <2>1, <2>2, <2>3
<1>5. ASSUME NEW i \in 1..m
      PROVE  i \in 1..(m + n) /\ all[i] = sent[i]
    BY <1>1, <1>2
<1>6. ASSUME NEW i \in 1..n
      PROVE  i + m \in 1..(m + n) /\ all[i + m] = batch[i]
    <2>1. i + m \in 1..(m + n) /\ ~(i + m <= m) /\ (i + m) - m = i
        BY <1>1
    <2>2. QED
        BY <1>2, <2>1
<1>7. ASSUME batch # <<>>
      PROVE  /\ all # <<>> /\ all[Len(all)] = batch[Len(batch)] /\ Len(batch) \in DOMAIN batch
    <2>1. n \in 1..n
        <3>1. n # 0
            BY <1>7 DEF n
        <3>2. QED
            BY <1>1, <3>1
    <2>2. Len(all) = n + m /\ Len(all) # 0
        BY <1>1, <2>1
    <2>3. all # <<>>
        BY <2>2
    <2>4. QED
        BY <1>1, <1>6, <2>1, <2>2, <2>3 DEF n
<1>8. QED
    BY <1>1, <1>4, <1>5, <1>6, <1>7 DEF all

LEMMA ExportBatchKeeps ==
    ASSUME FiguresInv, ExportBatch
    PROVE  FiguresInv'
<1> DEFINE batch == FirstOf(Behind(Cursor), BatchOfExport)
           sent == figExport.sent
<1>1. /\ figReport.kind = "export" /\ figReport.pc = "run"
      /\ figExport' = [figExport EXCEPT
             !.sent = @ \o batch,
             !.skips = IF Cursor # 0 /\ ~Matches(figTicket[Cursor]) THEN @ + 1 ELSE @]
      /\ figReport' = [figReport EXCEPT !.pc = IF Len(batch) < BatchOfExport THEN "done" ELSE "run"]
      /\ figTicket' = figTicket /\ figNow' = figNow
    BY DEF ExportBatch
<1>2. /\ figReport \in ReportOf(figReport.kind) /\ figReport.kind \in DOMAIN StatementsOf
      /\ figExport \in [sent : Seq(FigTickets), skips : Nat, steady : SUBSET FigTickets]
    BY DEF FiguresInv, ReportPart, ExportPart
<1>3. /\ Cursor \in 0..LastTicket /\ Cursor \in Nat
      /\ Cursor = 0 <=> sent = <<>>
      /\ Cursor # 0 => Cursor \in SentTickets
      /\ \A i \in DOMAIN sent : sent[i] <= Cursor /\ sent[i] \in FigTickets
    BY CursorFits, FiguresAssumption
<1>4. /\ Behind(Cursor) \subseteq FigTickets /\ Behind(Cursor) \subseteq Nat /\ IsFiniteSet(Behind(Cursor))
      /\ \A t \in Behind(Cursor) : Cursor < t /\ Matches(figTicket[t])
      /\ \A t \in FigTickets : Cursor < t /\ Matches(figTicket[t]) /\ t \notin Behind(Cursor) =>
            /\ Cursor # 0
            /\ \A u \in FigTickets : Cursor <= u /\ Matches(figTicket[u]) => t <= u
    BY <1>3, BehindFits, TicketsFinite
<1>5. FirstFits(batch, Behind(Cursor), BatchOfExport) /\ BatchOfExport \in Nat \ {0}
    BY <1>4, FirstOfFits, FiguresAssumption
<1> HIDE DEF batch
<1>6. /\ batch \in Seq(FigTickets) /\ batch \in Seq(Behind(Cursor))
      /\ \A i, j \in DOMAIN batch : i < j => batch[i] < batch[j]
      /\ \A i \in DOMAIN batch : batch[i] \in Behind(Cursor) /\ Cursor < batch[i] /\ batch[i] \in FigTickets
      /\ \A t \in Behind(Cursor) : \A i \in DOMAIN batch :
             t <= batch[i] => \E j \in DOMAIN batch : batch[j] = t
      /\ Len(batch) < BatchOfExport => \A t \in Behind(Cursor) : \E j \in DOMAIN batch : batch[j] = t
    <2>1. batch \in Seq(Behind(Cursor))
        BY <1>5 DEF FirstFits
    <2>2. \A i \in DOMAIN batch : batch[i] \in Behind(Cursor)
        BY <2>1
    <2>3. batch \in Seq(FigTickets)
        BY <1>4, <2>1
    <2>4. QED
        BY <1>4, <1>5, <2>1, <2>2, <2>3 DEF FirstFits
<1>7. sent \in Seq(FigTickets) /\ \A i, j \in DOMAIN sent : i < j => sent[i] < sent[j]
    BY DEF FiguresInv, ExportPart
<1> HIDE DEF sent
<1>8. /\ sent \o batch \in Seq(FigTickets)
      /\ \A i, j \in DOMAIN (sent \o batch) : i < j => (sent \o batch)[i] < (sent \o batch)[j]
      /\ \A i \in DOMAIN sent : \E j \in DOMAIN (sent \o batch) : (sent \o batch)[j] = sent[i]
      /\ \A i \in DOMAIN batch : \E j \in DOMAIN (sent \o batch) : (sent \o batch)[j] = batch[i]
      /\ batch # <<>> => /\ sent \o batch # <<>>
                         /\ (sent \o batch)[Len(sent \o batch)] = batch[Len(batch)]
                         /\ Len(batch) \in DOMAIN batch
    BY <1>3, <1>6, <1>7, SentFollows
<1>9. /\ figExport'.sent = sent \o batch /\ figExport'.steady = figExport.steady
      /\ figExport'.skips = IF Cursor # 0 /\ ~Matches(figTicket[Cursor]) THEN figExport.skips + 1 ELSE figExport.skips
      /\ figExport.skips \in Nat
      /\ figExport' \in [sent : Seq(FigTickets), skips : Nat, steady : SUBSET FigTickets]
    <2>1. /\ figExport'.sent = sent \o batch /\ figExport'.steady = figExport.steady
          /\ figExport.skips \in Nat /\ figExport.steady \in SUBSET FigTickets
          /\ figExport'.skips = IF Cursor # 0 /\ ~Matches(figTicket[Cursor]) THEN figExport.skips + 1
                                ELSE figExport.skips
        BY <1>1, <1>2 DEF sent
    <2>2. figExport' = [sent |-> figExport'.sent, skips |-> figExport'.skips, steady |-> figExport'.steady]
        BY <1>1, <1>2
    <2>3. figExport'.skips \in Nat
        BY <2>1
    <2>4. QED
        BY <1>8, <2>1, <2>2, <2>3
<1>10. /\ figReport' \in ReportOf("export") /\ figReport'.kind = "export"
       /\ figReport'.now = figReport.now /\ figReport'.filter = figReport.filter
       /\ figReport'.todo = figReport.todo /\ figReport'.saw = figReport.saw
       /\ figReport'.moves = figReport.moves
       /\ figReport'.pc = IF Len(batch) < BatchOfExport THEN "done" ELSE "run"
    BY <1>1, <1>2 DEF ReportOf
<1>11. FigRowsPart'
    <2>1. \A t \in FigTickets : TicketDated(t)'
        BY <1>1 DEF FiguresInv, FigRowsPart, TicketDated
    <2>2. QED
        BY <1>1, <2>1 DEF FiguresInv, FigRowsPart
<1>12. ReportPart'
    <2>1. figReport'.todo = {} /\ StatementsOf["export"] = {}
        BY <1>1, <1>2, <1>10 DEF ReportOf, StatementsOf
    <2>2. PICK once \in SUBSET FigTickets, again \in SUBSET FigTickets :
              Touched(figReport, figTicket, once, again)
        BY <1>1 DEF FiguresInv, ReportPart
    <2>3. Touched(figReport', figTicket', once, again)
        BY <1>1, <1>10, <2>2 DEF Touched, AsItIs, AsOnceBefore, StatementsRun
    <2>4. QED
        BY <1>2, <1>10, <1>1, <2>1, <2>3 DEF ReportPart
<1>13. /\ Cursor' \in Nat /\ Cursor <= Cursor'
       /\ batch # <<>> => Cursor' = batch[Len(batch)] /\ Cursor < Cursor' /\ Len(batch) \in DOMAIN batch
       /\ batch = <<>> => Cursor' = Cursor
    <2>1. CASE batch = <<>>
        <3>1. sent \o batch = sent
            BY <1>7, <2>1
        <3>2. Cursor' = Cursor
            BY <1>9, <3>1 DEF Cursor, sent
        <3>3. QED
            BY <1>3, <2>1, <3>2
    <2>2. CASE batch # <<>>
        <3>1. Cursor' = batch[Len(batch)] /\ Len(batch) \in DOMAIN batch
            BY <1>8, <1>9, <2>2 DEF Cursor
        <3>2. Cursor < Cursor' /\ Cursor' \in Nat
            BY <1>6, <3>1, TicketsFinite
        <3>3. QED
            BY <1>3, <2>2, <3>1, <3>2
    <2>3. QED
        BY <2>1, <2>2
<1>14. ASSUME NEW t \in MissedTickets', t \notin MissedTickets
       PROVE  /\ t \in FigTickets /\ Matches(figTicket[t]) /\ Cursor < t /\ Cursor # 0
              /\ ~Matches(figTicket[Cursor])
              /\ \A u \in FigTickets : Cursor <= u /\ Matches(figTicket[u]) => t <= u
    <2>1. /\ t \in figExport.steady /\ t \in FigTickets
          /\ ~\E j \in DOMAIN (sent \o batch) : (sent \o batch)[j] = t
          /\ t <= Cursor' \/ figReport'.pc = "done"
        BY <1>2, <1>9, <1>10 DEF MissedTickets, SentTickets
    <2>2. t \notin SentTickets
        BY <1>8, <2>1 DEF SentTickets, sent
    <2>3. t \in Nat /\ Cursor < t
        <3>1. ~(t <= Cursor)
            BY <1>14, <2>1, <2>2 DEF MissedTickets
        <3>2. QED
            BY <1>3, <2>1, <3>1, TicketsFinite
    <2>4. Matches(figTicket[t])
        BY <2>1 DEF FiguresInv, ExportPart
    <2>5. ~\E j \in DOMAIN batch : batch[j] = t
        BY <1>8, <2>1
    <2>6. t \notin Behind(Cursor)
        <3>1. CASE figReport'.pc = "done"
            BY <1>6, <1>10, <2>5, <3>1
        <3>2. CASE t <= Cursor'
            <4>1. batch # <<>>
                BY <1>3, <1>13, <2>3, <3>2
            <4>2. t <= batch[Len(batch)] /\ Len(batch) \in DOMAIN batch
                BY <1>13, <3>2, <4>1
            <4>3. QED
                BY <1>6, <2>5, <4>2
        <3>3. QED
            BY <2>1, <3>1, <3>2
    <2>7. /\ Cursor # 0
          /\ \A u \in FigTickets : Cursor <= u /\ Matches(figTicket[u]) => t <= u
        BY <1>4, <2>1, <2>3, <2>4, <2>6
    <2>8. ~Matches(figTicket[Cursor])
        <3>1. Cursor \in FigTickets
            BY <1>3, <2>7, FiguresAssumption DEF FigTickets
        <3>2. QED
            BY <1>3, <2>3, <2>7, <3>1
    <2>9. QED
        BY <2>1, <2>3, <2>4, <2>7, <2>8
<1>15. Cardinality(MissedTickets') <= figExport'.skips
    <2>1. IsFiniteSet(MissedTickets) /\ Cardinality(MissedTickets) \in Nat
        <3>1. MissedTickets \subseteq FigTickets
            BY <1>2 DEF MissedTickets
        <3>2. QED
            BY <3>1, TicketsFinite, PartCounted
    <2>2. Cardinality(MissedTickets) <= figExport.skips
        BY <1>1 DEF FiguresInv, ExportPart
    <2>3. CASE MissedTickets' \subseteq MissedTickets
        <3>1. Cardinality(MissedTickets') <= Cardinality(MissedTickets) /\ Cardinality(MissedTickets') \in Nat
            BY <2>1, <2>3, PartCounted
        <3>2. figExport.skips <= figExport'.skips /\ figExport'.skips \in Nat
            BY <1>9
        <3>3. QED
            BY <1>9, <2>1, <2>2, <3>1, <3>2
    <2>4. CASE ~(MissedTickets' \subseteq MissedTickets)
        <3>1. PICK e \in MissedTickets' : e \notin MissedTickets
            BY <2>4
        <3>2. MissedTickets' \subseteq MissedTickets \cup {e}
            <4>1. SUFFICES ASSUME NEW t \in MissedTickets', t \notin MissedTickets
                           PROVE  t = e
                OBVIOUS
            <4>2. t <= e /\ e <= t
                <5>1. /\ t \in FigTickets /\ Matches(figTicket[t]) /\ Cursor < t
                      /\ \A u \in FigTickets : Cursor <= u /\ Matches(figTicket[u]) => t <= u
                    BY <1>14, <4>1
                <5>2. /\ e \in FigTickets /\ Matches(figTicket[e]) /\ Cursor < e
                      /\ \A u \in FigTickets : Cursor <= u /\ Matches(figTicket[u]) => e <= u
                    BY <1>14, <3>1
                <5>3. Cursor <= t /\ Cursor <= e
                    BY <1>3, <5>1, <5>2, TicketsFinite
                <5>4. QED
                    BY <5>1, <5>2, <5>3
            <4>3. t \in Nat /\ e \in Nat
                BY <1>14, <3>1, <4>1, TicketsFinite
            <4>4. QED
                BY <4>2, <4>3
        <3>3. Cardinality(MissedTickets') <= Cardinality(MissedTickets) + 1 /\ Cardinality(MissedTickets') \in Nat
            BY <2>1, <3>2, OneMoreCounted
        <3>4. figExport'.skips = figExport.skips + 1
            BY <1>9, <1>14, <3>1
        <3>5. QED
            BY <1>9, <2>1, <2>2, <3>3, <3>4
    <2>5. QED
        BY <2>3, <2>4
<1>16. /\ figExport'.skips <= Cursor'
       /\ figReport'.pc = "run" => figExport'.skips = 0 \/ figExport'.skips < Cursor'
    <2>1. figExport.skips = 0 \/ figExport.skips < Cursor
        BY <1>1 DEF FiguresInv, ExportPart
    <2>2. figExport'.skips <= Cursor
        BY <1>3, <1>9, <2>1
    <2>3. figReport'.pc = "run" => batch # <<>>
        <3>1. SUFFICES ASSUME batch = <<>> PROVE figReport'.pc # "run"
            OBVIOUS
        <3>2. Len(batch) = 0
            BY <3>1
        <3>3. QED
            BY <1>5, <1>10, <3>2
    <2>4. figExport'.skips \in Nat
        BY <1>9
    <2>5. QED
        BY <1>3, <1>13, <2>2, <2>3, <2>4
<1>17. ExportPart'
    <2>1. \A t \in figExport'.steady : Matches(figTicket[t])'
        BY <1>1, <1>9, <1>10 DEF Matches, FiguresInv, ExportPart
    <2>2. \A i, j \in DOMAIN figExport'.sent : i < j => figExport'.sent[i] < figExport'.sent[j]
        BY <1>8, <1>9
    <2>3. QED
        BY <1>9, <1>10, <1>15, <1>16, <2>1, <2>2 DEF ExportPart
<1>18. QED
    BY <1>11, <1>12, <1>17 DEF FiguresInv

Ids(answer) == {seen.id : seen \in answer}

LEMMA IdsCounted ==
    ASSUME NEW answer, answer \subseteq Seen, SawOnce(answer)
    PROVE  /\ Ids(answer) \subseteq FigTickets /\ IsFiniteSet(Ids(answer))
           /\ Cardinality(answer) = Cardinality(Ids(answer)) /\ Cardinality(answer) \in Nat
           /\ \A t : t \in Ids(answer) <=> Told(answer, t)
<1> DEFINE f == [seen \in answer |-> seen.id]
<1>1. Ids(answer) \subseteq FigTickets
    BY DEF Ids, Seen
<1>2. IsFiniteSet(Ids(answer)) /\ Cardinality(Ids(answer)) \in Nat
    BY <1>1, TicketsFinite, PartCounted
<1>3. f \in Injection(answer, Ids(answer)) /\ f \in Surjection(answer, Ids(answer))
    <2>1. f \in [answer -> Ids(answer)]
        BY DEF Ids
    <2>2. ASSUME NEW x \in answer, NEW y \in answer, f[x] = f[y]
          PROVE  x = y
        BY <2>2 DEF SawOnce
    <2>3. \A i \in Ids(answer) : \E x \in answer : f[x] = i
        BY DEF Ids
    <2> HIDE DEF f
    <2>4. QED
        BY <2>1, <2>2, <2>3 DEF Injection, IsInjective, Surjection
<1>4. Cardinality(answer) = Cardinality(Ids(answer))
    <2> HIDE DEF f
    <2>1. QED
        BY <1>2, <1>3, FS_Injection
<1>5. QED
    BY <1>1, <1>2, <1>4 DEF Ids, Told

LEMMA BothCounted ==
    ASSUME NEW B, IsFiniteSet(B), NEW D, IsFiniteSet(D), NEW A, A \subseteq B \cup D
    PROVE  /\ Cardinality(A) \in Nat /\ Cardinality(B) \in Nat /\ Cardinality(D) \in Nat
           /\ Cardinality(A) <= Cardinality(B) + Cardinality(D)
<1>1. IsFiniteSet(D \ B) /\ Cardinality(D \ B) <= Cardinality(D) /\ Cardinality(D) \in Nat
      /\ Cardinality(D \ B) \in Nat
    BY PartCounted
<1>2. /\ IsFiniteSet(B \cup (D \ B)) /\ Cardinality(B) \in Nat
      /\ Cardinality(B \cup (D \ B)) = Cardinality(B) + Cardinality(D \ B)
    BY <1>1, DisjointCounted
<1>3. A \subseteq B \cup (D \ B)
    OBVIOUS
<1>4. Cardinality(A) \in Nat /\ Cardinality(A) <= Cardinality(B \cup (D \ B))
    BY <1>2, <1>3, PartCounted
<1>5. QED
    BY <1>1, <1>2, <1>4

LEMMA WithinAgrees ==
    ASSUME NEW m \in Nat, NEW n \in Nat, NEW d \in Nat, m <= n + d, n <= m + d
    PROVE  Difference(m, n) <= d
BY DEF Difference

\* Of the tickets that were left alone, a report that is done tells what they are.
ToldOf(once) ==
    \A t \in FigTickets \ once : \A s \in StatementsOf[figReport.kind] :
        /\ Told(figReport.saw[s], t) <=> Asks(figReport.filter, s, figTicket[t], figReport.now)
        /\ \A seen \in figReport.saw[s] : seen.id = t => seen = LineOf(t, figTicket[t])

LEMMA ReportTells ==
    ASSUME FiguresInv, figReport.pc = "done", figReport.kind # "metrics"
    PROVE  /\ figReport.moves \in Nat
           /\ \A s \in StatementsOf[figReport.kind] : figReport.saw[s] \subseteq Seen /\ SawOnce(figReport.saw[s])
           /\ \A t \in FigTickets : TicketDated(t) /\ figTicket[t] \in Row
           /\ \E once, again \in SUBSET FigTickets :
                 /\ ToldOf(once) /\ again \subseteq once
                 /\ IsFiniteSet(once) /\ IsFiniteSet(again)
                 /\ Cardinality(once) \in Nat /\ Cardinality(again) \in Nat
                 /\ Cardinality(once) + Cardinality(again) <= figReport.moves
                 /\ \A t \in once \ again : AsOnceBefore(figReport, t, figTicket[t])
<1>1. PICK once \in SUBSET FigTickets, again \in SUBSET FigTickets :
          Touched(figReport, figTicket, once, again)
    BY DEF FiguresInv, ReportPart
<1>2. StatementsRun(figReport) = StatementsOf[figReport.kind]
    BY DEF FiguresInv, ReportPart, StatementsRun
<1>3. ToldOf(once)
    BY <1>1, <1>2 DEF ToldOf, Touched, AsItIs
<1>4. /\ IsFiniteSet(once) /\ IsFiniteSet(again)
      /\ Cardinality(once) \in Nat /\ Cardinality(again) \in Nat
    BY TicketsFinite, PartCounted
<1>5. /\ figReport.moves \in Nat
      /\ \A s \in StatementsOf[figReport.kind] : figReport.saw[s] \subseteq Seen /\ SawOnce(figReport.saw[s])
    BY FiguresAssumption DEF FiguresInv, ReportPart, ReportOf
<1>6. \A t \in FigTickets : TicketDated(t) /\ figTicket[t] \in Row
    BY DEF FiguresInv, FigRowsPart
<1>7. QED
    BY <1>1, <1>3, <1>4, <1>5, <1>6 DEF Touched

LEMMA PartOfAnswer ==
    ASSUME NEW answer, answer \subseteq Seen, SawOnce(answer), NEW part, part \subseteq answer
    PROVE  part \subseteq Seen /\ SawOnce(part)
BY DEF SawOnce

\* Two answers that agree of the tickets that were left alone agree up to the others.
LEMMA AnswersAgree ==
    ASSUME NEW a, a \subseteq Seen, SawOnce(a), NEW b, b \subseteq Seen, SawOnce(b),
           NEW once, once \subseteq FigTickets, IsFiniteSet(once),
           \A t \in FigTickets \ once : Told(a, t) => Told(b, t)
    PROVE  /\ Cardinality(a) \in Nat /\ Cardinality(b) \in Nat
           /\ Cardinality(a) <= Cardinality(b) + Cardinality(once)
<1>1. /\ Ids(a) \subseteq FigTickets /\ \A t : t \in Ids(a) <=> Told(a, t)
      /\ Cardinality(a) = Cardinality(Ids(a)) /\ Cardinality(a) \in Nat
    BY IdsCounted
<1>2. /\ IsFiniteSet(Ids(b)) /\ \A t : t \in Ids(b) <=> Told(b, t)
      /\ Cardinality(b) = Cardinality(Ids(b)) /\ Cardinality(b) \in Nat
    BY IdsCounted
<1>3. Ids(a) \subseteq Ids(b) \cup once
    BY <1>1, <1>2
<1>4. Cardinality(Ids(a)) <= Cardinality(Ids(b)) + Cardinality(once)
    BY <1>2, <1>3, BothCounted
<1>5. QED
    BY <1>1, <1>2, <1>4

LEMMA OverviewAgrees ==
    ASSUME FiguresInv, figReport.pc = "done", figReport.kind = "overview"
    PROVE  /\ Agree(Figure("total"), Figure("byStatus"))
           /\ figReport.filter = "any" => Figure("breached") <= Figure("total") + figReport.moves
           /\ figReport.filter = "any" =>
                  Agree(Figure("resolved"), FigureOf("byStatus", LAMBDA line : line.status \in Resolved))
<1> DEFINE saw(s) == figReport.saw[s]
           ended == {seen \in figReport.saw["byStatus"] : seen.status \in Resolved}
<1>1. {"total", "byStatus", "breached", "resolved"} = StatementsOf[figReport.kind]
    BY DEF StatementsOf
<1>2. PICK once \in SUBSET FigTickets, again \in SUBSET FigTickets :
          /\ ToldOf(once) /\ IsFiniteSet(once)
          /\ Cardinality(once) \in Nat /\ Cardinality(again) \in Nat
          /\ Cardinality(once) + Cardinality(again) <= figReport.moves
    BY ReportTells
<1>3. /\ figReport.moves \in Nat /\ Cardinality(once) <= figReport.moves
      /\ \A s \in {"total", "byStatus", "breached", "resolved"} :
             figReport.saw[s] \subseteq Seen /\ SawOnce(figReport.saw[s])
    BY <1>1, <1>2, ReportTells
<1>4. ended \subseteq Seen /\ SawOnce(ended)
    BY <1>3, PartOfAnswer
<1>5. ASSUME NEW t \in FigTickets \ once
      PROVE  /\ Told(saw("total"), t) <=> Told(saw("byStatus"), t)
             /\ figReport.filter = "any" => (Told(saw("breached"), t) => Told(saw("total"), t))
             /\ figReport.filter = "any" => (Told(saw("resolved"), t) <=> Told(ended, t))
    <2>1. /\ Told(saw("total"), t) <=> Asks(figReport.filter, "total", figTicket[t], figReport.now)
          /\ Told(saw("byStatus"), t) <=> Asks(figReport.filter, "byStatus", figTicket[t], figReport.now)
          /\ Told(saw("breached"), t) <=> Asks(figReport.filter, "breached", figTicket[t], figReport.now)
          /\ Told(saw("resolved"), t) <=> Asks(figReport.filter, "resolved", figTicket[t], figReport.now)
          /\ \A seen \in saw("byStatus") : seen.id = t => seen = LineOf(t, figTicket[t])
        BY <1>1, <1>2 DEF ToldOf
    <2>2. Told(ended, t) <=> Told(saw("byStatus"), t) /\ figTicket[t].status \in Resolved
        BY <2>1 DEF Told, LineOf
    <2> HIDE DEF saw, ended
    <2>3. QED
        BY <2>1, <2>2 DEF Asks, Resolved
<1>6. /\ Cardinality(saw("total")) \in Nat /\ Cardinality(saw("byStatus")) \in Nat
      /\ Cardinality(saw("total")) <= Cardinality(saw("byStatus")) + Cardinality(once)
      /\ Cardinality(saw("byStatus")) <= Cardinality(saw("total")) + Cardinality(once)
    BY <1>2, <1>3, <1>5, AnswersAgree
<1>7. ASSUME figReport.filter = "any"
      PROVE  /\ Cardinality(saw("breached")) \in Nat
             /\ Cardinality(saw("breached")) <= Cardinality(saw("total")) + Cardinality(once)
             /\ Cardinality(saw("resolved")) \in Nat /\ Cardinality(ended) \in Nat
             /\ Cardinality(saw("resolved")) <= Cardinality(ended) + Cardinality(once)
             /\ Cardinality(ended) <= Cardinality(saw("resolved")) + Cardinality(once)
    <2> HIDE DEF ended
    <2>1. QED
        BY <1>2, <1>3, <1>4, <1>5, <1>7, AnswersAgree
<1>8. Agree(Figure("total"), Figure("byStatus"))
    <2>1. Difference(Cardinality(saw("total")), Cardinality(saw("byStatus"))) <= figReport.moves
        BY <1>2, <1>3, <1>6, WithinAgrees
    <2>2. QED
        BY <2>1 DEF Agree, Figure
<1>9. ASSUME figReport.filter = "any"
      PROVE  Figure("breached") <= Figure("total") + figReport.moves
    BY <1>2, <1>3, <1>6, <1>7, <1>9 DEF Figure
<1>10. ASSUME figReport.filter = "any"
       PROVE  Agree(Figure("resolved"), FigureOf("byStatus", LAMBDA line : line.status \in Resolved))
    <2>1. FigureOf("byStatus", LAMBDA line : line.status \in Resolved) = Cardinality(ended)
        BY DEF FigureOf
    <2> HIDE DEF ended
    <2>2. Difference(Cardinality(saw("resolved")), Cardinality(ended)) <= figReport.moves
        BY <1>2, <1>3, <1>7, <1>10, WithinAgrees
    <2>3. QED
        BY <2>1, <2>2 DEF Agree, Figure
<1>11. QED
    BY <1>8, <1>9, <1>10

LEMMA SlaAgrees ==
    ASSUME FiguresInv, figReport.pc = "done", figReport.kind = "sla"
    PROVE  Difference(FigureOf("active", Breached), Figure("breached"))
               <= figReport.moves + FigureOf("active", LAMBDA line : line.due = figReport.now)
<1> DEFINE late == {seen \in figReport.saw["active"] : figReport.now >= seen.due}
           due == {seen \in figReport.saw["active"] : seen.due = figReport.now}
           breached == figReport.saw["breached"]
<1>1. {"active", "breached"} = StatementsOf[figReport.kind]
    BY DEF StatementsOf
<1>2. PICK once \in SUBSET FigTickets, again \in SUBSET FigTickets :
          /\ ToldOf(once) /\ IsFiniteSet(once)
          /\ Cardinality(once) \in Nat /\ Cardinality(again) \in Nat
          /\ Cardinality(once) + Cardinality(again) <= figReport.moves
    BY ReportTells
<1>3. /\ figReport.moves \in Nat /\ Cardinality(once) <= figReport.moves
      /\ \A s \in {"active", "breached"} : figReport.saw[s] \subseteq Seen /\ SawOnce(figReport.saw[s])
      /\ \A t \in FigTickets : figTicket[t].due \in Nat
      /\ figReport.now \in Nat
    <2>1. figReport.now \in Nat
        BY FiguresAssumption DEF FiguresInv, ReportPart, ReportOf, Times
    <2>2. \A t \in FigTickets : figTicket[t].due \in Nat
        BY FiguresAssumption DEF FiguresInv, FigRowsPart, Row, Times
    <2>3. QED
        BY <1>1, <1>2, <2>1, <2>2, ReportTells
<1>4. /\ late \subseteq Seen /\ SawOnce(late) /\ due \subseteq Seen /\ SawOnce(due)
      /\ breached \subseteq Seen /\ SawOnce(breached)
    BY <1>3, PartOfAnswer
<1>5. ASSUME NEW t \in FigTickets \ once
      PROVE  /\ Told(late, t) => Told(breached, t) \/ Told(due, t)
             /\ Told(breached, t) => Told(late, t)
    <2>1. /\ Told(figReport.saw["active"], t) <=> Asks(figReport.filter, "active", figTicket[t], figReport.now)
          /\ Told(breached, t) <=> Asks(figReport.filter, "breached", figTicket[t], figReport.now)
          /\ \A seen \in figReport.saw["active"] : seen.id = t => seen = LineOf(t, figTicket[t])
        BY <1>1, <1>2 DEF ToldOf
    <2>2. /\ Told(late, t) <=> Told(figReport.saw["active"], t) /\ figReport.now >= figTicket[t].due
          /\ Told(due, t) <=> Told(figReport.saw["active"], t) /\ figTicket[t].due = figReport.now
        BY <2>1 DEF Told, LineOf
    <2> HIDE DEF late, due, breached
    <2>3. figTicket[t].due \in Nat
        BY <1>3
    <2>4. QED
        BY <1>3, <2>1, <2>2, <2>3 DEF Asks
<1>6. /\ FigureOf("active", Breached) = Cardinality(late)
      /\ FigureOf("active", LAMBDA line : line.due = figReport.now) = Cardinality(due)
      /\ Figure("breached") = Cardinality(breached)
    BY DEF FigureOf, Breached, Figure
<1> HIDE DEF late, due, breached
<1>7. /\ Ids(late) \subseteq FigTickets /\ \A t : t \in Ids(late) <=> Told(late, t)
      /\ Cardinality(late) = Cardinality(Ids(late)) /\ Cardinality(late) \in Nat /\ IsFiniteSet(Ids(late))
      /\ Ids(due) \subseteq FigTickets /\ \A t : t \in Ids(due) <=> Told(due, t)
      /\ Cardinality(due) = Cardinality(Ids(due)) /\ Cardinality(due) \in Nat /\ IsFiniteSet(Ids(due))
      /\ Ids(breached) \subseteq FigTickets /\ \A t : t \in Ids(breached) <=> Told(breached, t)
      /\ Cardinality(breached) = Cardinality(Ids(breached)) /\ Cardinality(breached) \in Nat
      /\ IsFiniteSet(Ids(breached))
    BY <1>4, IdsCounted
<1>8. Cardinality(breached) <= Cardinality(late) + Cardinality(once)
    BY <1>2, <1>4, <1>5, AnswersAgree
<1>9. Cardinality(late) <= Cardinality(breached) + Cardinality(due) + Cardinality(once)
    <2>1. Ids(late) \subseteq (Ids(breached) \cup Ids(due)) \cup once
        BY <1>5, <1>7
    <2>2. IsFiniteSet(Ids(breached) \cup Ids(due))
        BY <1>7, FS_Union
    <2>3. Cardinality(Ids(late)) <= Cardinality(Ids(breached) \cup Ids(due)) + Cardinality(once)
        BY <1>2, <2>1, <2>2, BothCounted
    <2>4. /\ Cardinality(Ids(breached) \cup Ids(due)) <= Cardinality(Ids(breached)) + Cardinality(Ids(due))
          /\ Cardinality(Ids(breached) \cup Ids(due)) \in Nat
        BY <1>7, BothCounted
    <2>5. QED
        BY <1>2, <1>7, <2>3, <2>4
<1>10. Difference(Cardinality(late), Cardinality(breached)) <= figReport.moves + Cardinality(due)
    <2>1. figReport.moves + Cardinality(due) \in Nat
        BY <1>3, <1>7
    <2>2. /\ Cardinality(late) <= Cardinality(breached) + (figReport.moves + Cardinality(due))
          /\ Cardinality(breached) <= Cardinality(late) + (figReport.moves + Cardinality(due))
        BY <1>2, <1>3, <1>7, <1>8, <1>9
    <2>3. QED
        BY <1>7, <2>1, <2>2, WithinAgrees
<1>11. QED
    BY <1>6, <1>10

\* A ticket that the agent's figures count twice has been theirs before and after it
\* was changed, or was changed again.
LEMMA AgentAgrees ==
    ASSUME FiguresInv, figReport.pc = "done", figReport.kind = "agent"
    PROVE  Agree(Figure("mine"), Figure("mineResolved") + Figure("mineActive"))
<1> DEFINE M == Ids(figReport.saw["mine"])
           R == Ids(figReport.saw["mineResolved"])
           A == Ids(figReport.saw["mineActive"])
<1>1. {"mine", "mineResolved", "mineActive"} = StatementsOf[figReport.kind]
    BY DEF StatementsOf
<1>2. PICK once \in SUBSET FigTickets, again \in SUBSET FigTickets :
          /\ ToldOf(once) /\ again \subseteq once
          /\ IsFiniteSet(once) /\ IsFiniteSet(again)
          /\ Cardinality(once) \in Nat /\ Cardinality(again) \in Nat
          /\ Cardinality(once) + Cardinality(again) <= figReport.moves
          /\ \A t \in once \ again : AsOnceBefore(figReport, t, figTicket[t])
    BY ReportTells
<1>3. /\ figReport.moves \in Nat /\ figReport.todo = {}
      /\ \A s \in {"mine", "mineResolved", "mineActive"} :
             figReport.saw[s] \subseteq Seen /\ SawOnce(figReport.saw[s])
    BY <1>1, ReportTells DEF FiguresInv, ReportPart
<1>4. /\ M \subseteq FigTickets /\ R \subseteq FigTickets /\ A \subseteq FigTickets
      /\ IsFiniteSet(M) /\ IsFiniteSet(R) /\ IsFiniteSet(A)
      /\ Figure("mine") = Cardinality(M) /\ Figure("mineResolved") = Cardinality(R)
      /\ Figure("mineActive") = Cardinality(A)
      /\ \A t : /\ t \in M <=> Told(figReport.saw["mine"], t)
                /\ t \in R <=> Told(figReport.saw["mineResolved"], t)
                /\ t \in A <=> Told(figReport.saw["mineActive"], t)
    BY <1>3, IdsCounted DEF Figure
<1>5. ASSUME NEW t \in FigTickets \ once
      PROVE  (t \in M <=> t \in R \cup A) /\ t \notin R \cap A
    <2>1. /\ t \in M <=> Asks(figReport.filter, "mine", figTicket[t], figReport.now)
          /\ t \in R <=> Asks(figReport.filter, "mineResolved", figTicket[t], figReport.now)
          /\ t \in A <=> Asks(figReport.filter, "mineActive", figTicket[t], figReport.now)
        BY <1>1, <1>2, <1>4 DEF ToldOf
    <2> HIDE DEF M, R, A
    <2>2. QED
        BY <2>1 DEF Asks
<1>6. ASSUME NEW t \in once \ again, t \in R \cap A
      PROVE  t \in M
    <2>1. PICK was \in Row : \A s \in StatementsOf[figReport.kind] :
              \/ Told(figReport.saw[s], t) <=> Asks(figReport.filter, s, was, figReport.now)
              \/ Told(figReport.saw[s], t) <=> Asks(figReport.filter, s, figTicket[t], figReport.now)
        BY <1>2, <1>3 DEF AsOnceBefore, StatementsRun
    <2>2. /\ (t \in M <=> was.mine) \/ (t \in M <=> figTicket[t].mine)
          /\ \/ t \in R <=> was.mine /\ was.status \in Resolved
             \/ t \in R <=> figTicket[t].mine /\ figTicket[t].status \in Resolved
          /\ \/ t \in A <=> was.mine /\ was.status \notin Resolved
             \/ t \in A <=> figTicket[t].mine /\ figTicket[t].status \notin Resolved
        <3>1. /\ \/ t \in M <=> Asks(figReport.filter, "mine", was, figReport.now)
                 \/ t \in M <=> Asks(figReport.filter, "mine", figTicket[t], figReport.now)
              /\ \/ t \in R <=> Asks(figReport.filter, "mineResolved", was, figReport.now)
                 \/ t \in R <=> Asks(figReport.filter, "mineResolved", figTicket[t], figReport.now)
              /\ \/ t \in A <=> Asks(figReport.filter, "mineActive", was, figReport.now)
                 \/ t \in A <=> Asks(figReport.filter, "mineActive", figTicket[t], figReport.now)
            BY <1>1, <1>4, <2>1
        <3> HIDE DEF M, R, A
        <3>2. \A line : /\ Asks(figReport.filter, "mine", line, figReport.now) <=> line.mine
                        /\ Asks(figReport.filter, "mineResolved", line, figReport.now)
                               <=> line.mine /\ line.status \in Resolved
                        /\ Asks(figReport.filter, "mineActive", line, figReport.now)
                               <=> line.mine /\ line.status \notin Resolved
            BY DEF Asks
        <3>3. QED
            BY <3>1, <3>2
    <2> HIDE DEF M, R, A
    <2>3. was.mine /\ figTicket[t].mine
        BY <1>6, <2>2
    <2>4. QED
        BY <2>2, <2>3
<1> HIDE DEF M, R, A
<1>7. Cardinality(M) <= Cardinality(R) + Cardinality(A) + figReport.moves
    <2>1. M \subseteq (R \cup A) \cup once /\ IsFiniteSet(R \cup A)
        BY <1>4, <1>5, FS_Union
    <2>2. Cardinality(M) <= Cardinality(R \cup A) + Cardinality(once) /\ Cardinality(R \cup A) \in Nat
        BY <1>2, <2>1, BothCounted
    <2>3. /\ Cardinality(R \cup A) <= Cardinality(R) + Cardinality(A)
          /\ Cardinality(R) \in Nat /\ Cardinality(A) \in Nat /\ Cardinality(M) \in Nat
        BY <1>4, BothCounted, FS_CardinalityType
    <2>4. QED
        BY <1>2, <1>3, <2>2, <2>3
<1>8. Cardinality(R) + Cardinality(A) <= Cardinality(M) + figReport.moves
    <2> DEFINE N == R \cap A
               extra == (R \cup A) \ M
    <2>1. /\ IsFiniteSet(R \cup A) /\ IsFiniteSet(N) /\ Cardinality(N) \in Nat
          /\ Cardinality(R \cup A) \in Nat /\ Cardinality(R) \in Nat /\ Cardinality(A) \in Nat
          /\ Cardinality(R \cup A) = Cardinality(R) + Cardinality(A) - Cardinality(N)
        <3>1. IsFiniteSet(R \cup A) /\ Cardinality(R \cup A) = Cardinality(R) + Cardinality(A) - Cardinality(R \cap A)
            BY <1>4, FS_Union
        <3>2. IsFiniteSet(N)
            BY <1>4, PartCounted
        <3>3. QED
            BY <1>4, <3>1, <3>2, FS_CardinalityType
    <2>2. extra \subseteq once /\ N \cap M \subseteq once /\ extra \cap (N \cap M) = {}
        BY <1>4, <1>5
    <2>3. /\ IsFiniteSet(extra) /\ IsFiniteSet(N \cap M)
          /\ Cardinality(extra) \in Nat /\ Cardinality(N \cap M) \in Nat
        BY <1>2, <2>2, PartCounted
    <2>4. Cardinality(extra) + Cardinality(N \cap M) <= Cardinality(once)
        <3>1. extra \cup (N \cap M) \subseteq once
            BY <2>2
        <3>2. Cardinality(extra \cup (N \cap M)) = Cardinality(extra) + Cardinality(N \cap M)
            BY <2>2, <2>3, DisjointCounted
        <3>3. Cardinality(extra \cup (N \cap M)) <= Cardinality(once)
            BY <1>2, <3>1, PartCounted
        <3>4. QED
            BY <3>2, <3>3
    <2>5. N \ M \subseteq again
        BY <1>4, <1>5, <1>6
    <2>6. IsFiniteSet(N \ M) /\ Cardinality(N \ M) \in Nat /\ Cardinality(N \ M) <= Cardinality(again)
        BY <1>2, <2>5, PartCounted
    <2>7. Cardinality(N) <= Cardinality(N \cap M) + Cardinality(N \ M)
        <3>1. N \subseteq (N \cap M) \cup (N \ M)
            OBVIOUS
        <3>2. QED
            BY <2>3, <2>6, <3>1, BothCounted
    <2>8. Cardinality(R \cup A) <= Cardinality(M) + Cardinality(extra) /\ Cardinality(M) \in Nat
        <3>1. R \cup A \subseteq M \cup extra
            OBVIOUS
        <3>2. QED
            BY <1>4, <2>3, <3>1, BothCounted
    <2> HIDE DEF N, extra
    <2>9. QED
        BY <1>2, <1>3, <2>1, <2>3, <2>4, <2>6, <2>7, <2>8
<1>9. Difference(Cardinality(M), Cardinality(R) + Cardinality(A)) <= figReport.moves
    <2>1. Cardinality(M) \in Nat /\ Cardinality(R) \in Nat /\ Cardinality(A) \in Nat
        BY <1>4, FS_CardinalityType
    <2>2. QED
        BY <1>3, <1>7, <1>8, <2>1, WithinAgrees
<1>10. QED
    BY <1>4, <1>9 DEF Agree

LEMMA MetricsAgree ==
    ASSUME FiguresInv, figReport.kind = "metrics"
    PROVE  figReport.pc = "done" => Cardinality(Both("closed", "breached")) <= figReport.moves
<1>1. SUFFICES ASSUME figReport.pc = "done"
               PROVE  Cardinality(Both("closed", "breached")) <= figReport.moves
    OBVIOUS
<1>2. PICK once \in SUBSET FigTickets : Reopened(figReport, figTicket, once)
    BY DEF FiguresInv, ReportPart
<1>3. /\ figReport.moves \in Nat
      /\ figReport.saw["closed"] \subseteq Seen /\ figReport.saw["breached"] \subseteq Seen
    BY FiguresAssumption DEF FiguresInv, ReportPart, ReportOf, StatementsOf
<1>4. Both("closed", "breached") \subseteq once
    <2>1. SUFFICES ASSUME NEW t \in Both("closed", "breached") PROVE t \in once
        OBVIOUS
    <2>2. t \in FigTickets /\ Told(figReport.saw["closed"], t) /\ Told(figReport.saw["breached"], t)
        BY <1>3 DEF Both, Told, Seen
    <2>3. QED
        BY <1>2, <2>2 DEF Reopened
<1>5. IsFiniteSet(once) /\ Cardinality(once) \in Nat
    BY TicketsFinite, PartCounted
<1>6. /\ Cardinality(Both("closed", "breached")) \in Nat
      /\ Cardinality(Both("closed", "breached")) <= Cardinality(once)
    BY <1>4, <1>5, PartCounted
<1>7. QED
    BY <1>2, <1>3, <1>5, <1>6 DEF Reopened

LEMMA FiguresTell ==
    ASSUME FiguresInv
    PROVE  FiguresAgree /\ ComplianceExplained /\ ExportComplete
<1>1. FiguresAgree
    <2>1. SUFFICES ASSUME figReport.pc = "done" PROVE FiguresAgree
        BY DEF FiguresAgree
    <2>2. figReport.kind \in {"overview", "sla", "metrics", "agent", "export"}
        BY DEF FiguresInv, ReportPart, StatementsOf
    <2>3. CASE figReport.kind = "overview"
        BY <2>1, <2>3, OverviewAgrees DEF FiguresAgree
    <2>4. CASE figReport.kind = "sla"
        BY <2>1, <2>4, SlaAgrees DEF FiguresAgree
    <2>5. CASE figReport.kind = "agent"
        BY <2>1, <2>5, AgentAgrees DEF FiguresAgree
    <2>6. CASE figReport.kind = "metrics"
        BY <2>1, <2>6, MetricsAgree DEF FiguresAgree
    <2>7. CASE figReport.kind = "export"
        BY <2>7 DEF FiguresAgree
    <2>8. QED
        BY <2>2, <2>3, <2>4, <2>5, <2>6, <2>7
<1>2. ComplianceExplained
    <2>1. SUFFICES ASSUME NEW t \in FigTickets, figTicket[t].status \in Resolved, figTicket[t].due # 0
                   PROVE  /\ Compliant(figTicket[t]) => figTicket[t].since <= figTicket[t].due
                          /\ ~Compliant(figTicket[t]) /\ figTicket[t].since <= figTicket[t].due
                                 => figTicket[t].updated > figTicket[t].since
        BY DEF ComplianceExplained
    <2>2. TicketDated(t) /\ figTicket[t] \in Row
        BY DEF FiguresInv, FigRowsPart
    <2>3. /\ figTicket[t].due \in Nat /\ figTicket[t].closed \in Nat
          /\ figTicket[t].updated \in Nat /\ figTicket[t].since \in Nat
        BY <2>2, FiguresAssumption DEF Row, Times
    <2>4. QED
        BY <2>2, <2>3 DEF TicketDated, Compliant
<1>3. ExportComplete
    <2>1. \A i, j \in DOMAIN figExport.sent : i < j => figExport.sent[i] < figExport.sent[j]
        BY DEF FiguresInv, ExportPart
    <2>2. ASSUME figReport.kind = "export", figReport.pc = "done"
          PROVE  Cardinality(figExport.steady \ {figExport.sent[i] : i \in DOMAIN figExport.sent}) <= figExport.skips
        <3>1. figExport.steady \ {figExport.sent[i] : i \in DOMAIN figExport.sent} = MissedTickets
            BY <2>2 DEF MissedTickets, SentTickets
        <3>2. QED
            BY <2>2, <3>1 DEF FiguresInv, ExportPart
    <2>3. QED
        BY <2>1, <2>2 DEF ExportComplete
<1>4. QED
    BY <1>1, <1>2, <1>3

LEMMA FiguresTyped ==
    ASSUME FiguresInv
    PROVE  FiguresTypeOK
<1>1. /\ figReport.kind \in DOMAIN StatementsOf /\ figReport \in ReportOf(figReport.kind)
      /\ figExport \in [sent : Seq(FigTickets), skips : Nat, steady : SUBSET FigTickets]
      /\ figTicket \in [FigTickets -> Row] /\ figNow \in 1..MaxFigTime
      /\ figExport.skips <= Cursor
    BY DEF FiguresInv, FigRowsPart, ReportPart, ExportPart
<1>2. figExport.skips \in 0..LastTicket
    BY <1>1, CursorFits, FiguresAssumption
<1>3. QED
    BY <1>1, <1>2 DEF FiguresTypeOK, ReportOf

LEMMA FiguresStep == FiguresInv /\ [FiguresNext]_figVars => FiguresInv'
<1>1. SUFFICES ASSUME FiguresInv, [FiguresNext]_figVars PROVE FiguresInv'
    OBVIOUS
<1>2. CASE UNCHANGED figVars
    <2>1. /\ figTicket' = figTicket /\ figNow' = figNow /\ figReport' = figReport /\ figExport' = figExport
        BY <1>2 DEF figVars
    <2>2. FigRowsPart'
        BY <1>1, <2>1 DEF FiguresInv, FigRowsPart, TicketDated
    <2>3. ReportPart'
        BY <1>1, <2>1 DEF FiguresInv, ReportPart
    <2>4. ExportPart'
        <3>1. Cursor' = Cursor /\ MissedTickets' = MissedTickets
            BY <2>1 DEF Cursor, MissedTickets, SentTickets
        <3>2. QED
            BY <1>1, <2>1, <3>1 DEF FiguresInv, ExportPart, Matches
    <2>5. QED
        BY <2>2, <2>3, <2>4 DEF FiguresInv
<1>3. CASE FigTick
    BY <1>1, <1>3, FigTickKeeps
<1>4. CASE ExportBatch
    BY <1>1, <1>4, ExportBatchKeeps
<1>5. ASSUME NEW s \in StatementsOf[figReport.kind], RunStatement(s)
      PROVE  FiguresInv'
    BY <1>1, <1>5, RunStatementKeeps
<1>6. ASSUME NEW t \in FigTickets, TicketOpened(t) \/ StatusUpdated(t) \/ TicketAssigned(t)
      PROVE  FiguresInv'
    BY <1>1, <1>6, TicketMovesKeep
<1>7. QED
    BY <1>1, <1>2, <1>3, <1>4, <1>5, <1>6 DEF FiguresNext

LEMMA FiguresInvariant == FiguresSpec => []FiguresInv
<1>1. FiguresInv /\ [FiguresNext]_figVars => FiguresInv'
    BY FiguresStep
<1>2. QED
    BY FiguresInitially, <1>1, PTL DEF FiguresSpec

\* For any number of tickets and of changes by others: what a report tells of tickets
\* that were left alone agrees in all its figures, and in particular the metrics count
\* none of them both as resolved and as overdue; a ticket that counts as compliant was
\* resolved in time; and an export sends the tickets in order, each once, and misses
\* none that matched all the time, but for one whenever it had lost its place.
THEOREM FiguresHold == FiguresSpec => [](FiguresAgree /\ ComplianceExplained /\ ExportComplete)
<1>1. FiguresInv => FiguresAgree /\ ComplianceExplained /\ ExportComplete
    BY FiguresTell
<1>2. QED
    BY <1>1, FiguresInvariant, PTL

==================================================================================
