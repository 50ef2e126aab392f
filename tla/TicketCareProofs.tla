---------------------------- MODULE TicketCareProofs ----------------------------
(***************************************************************************)
(* What happens to a ticket besides its status: breaches of its SLA, its   *)
(* survey, its priority, its attachments and comments, and who gets it.    *)
(* For each an inductive invariant that relates what overlapping requests  *)
(* have read to the rows, and the counts of what faults may have cost.     *)
(***************************************************************************)
EXTENDS SlaMonitor, TicketSatisfaction, TicketPriority, TicketThread, TicketRouting,
        FiniteSetTheorems, WellFoundedInduction, TLAPS

-----------------------------------------------------------------------------
(* Counting *)

\* A part of a set that has been counted is counted too.
LEMMA PartCounted ==
    ASSUME NEW A, IsFiniteSet(A), NEW B, B \subseteq A
    PROVE  /\ IsFiniteSet(B)
           /\ Cardinality(B) \in Nat /\ Cardinality(A) \in Nat
           /\ Cardinality(B) <= Cardinality(A)
<1>1. B \in SUBSET A
    OBVIOUS
<1>2. IsFiniteSet(B) /\ Cardinality(B) <= Cardinality(A)
    BY <1>1, FS_Subset
<1>3. QED
    BY <1>2, FS_CardinalityType

\* What a fault leaves unexplained is one element at most.
LEMMA OneMoreCounted ==
    ASSUME NEW A, IsFiniteSet(A), NEW e, NEW B, B \subseteq A \cup {e}
    PROVE  /\ IsFiniteSet(B)
           /\ Cardinality(B) \in Nat /\ Cardinality(A) \in Nat
           /\ Cardinality(B) <= Cardinality(A) + 1
<1>1. /\ IsFiniteSet(A \cup {e})
      /\ Cardinality(A \cup {e}) = IF e \in A THEN Cardinality(A) ELSE Cardinality(A) + 1
    BY FS_AddElement
<1>2. /\ IsFiniteSet(B)
      /\ Cardinality(B) \in Nat /\ Cardinality(A \cup {e}) \in Nat
      /\ Cardinality(B) <= Cardinality(A \cup {e})
    BY <1>1, PartCounted
<1>3. Cardinality(A) \in Nat
    BY FS_CardinalityType
<1>4. QED
    BY <1>1, <1>2, <1>3

\* A new element, and an element that goes, count for one.
LEMMA ElementAdded ==
    ASSUME NEW A, IsFiniteSet(A), NEW e, e \notin A
    PROVE  /\ IsFiniteSet(A \cup {e}) /\ Cardinality(A) \in Nat
           /\ Cardinality(A \cup {e}) = Cardinality(A) + 1
<1>1. QED
    BY FS_AddElement, FS_CardinalityType

LEMMA ElementRemoved ==
    ASSUME NEW A, IsFiniteSet(A), NEW e \in A
    PROVE  /\ IsFiniteSet(A \ {e}) /\ Cardinality(A) \in Nat /\ Cardinality(A \ {e}) \in Nat
           /\ Cardinality(A \ {e}) = Cardinality(A) - 1
<1>1. QED
    BY FS_RemoveElement, FS_CardinalityType

LEMMA DisjointCounted ==
    ASSUME NEW A, IsFiniteSet(A), NEW B, IsFiniteSet(B), A \cap B = {}
    PROVE  /\ IsFiniteSet(A \cup B)
           /\ Cardinality(A) \in Nat /\ Cardinality(B) \in Nat
           /\ Cardinality(A \cup B) = Cardinality(A) + Cardinality(B)
<1>1. /\ IsFiniteSet(A \cup B)
      /\ Cardinality(A \cup B) = Cardinality(A) + Cardinality(B) - Cardinality(A \cap B)
    BY FS_Union
<1>2. Cardinality(A \cap B) = 0
    BY FS_EmptySet
<1>3. QED
    BY <1>1, <1>2, FS_CardinalityType

LEMMA ThreeCounted ==
    ASSUME NEW S, IsFiniteSet(S), NEW A, NEW B, NEW C,
           A \subseteq S, B \subseteq S, C \subseteq S,
           A \cap B = {}, A \cap C = {}, B \cap C = {}
    PROVE  /\ Cardinality(S) \in Nat
           /\ Cardinality(A) \in Nat /\ Cardinality(B) \in Nat /\ Cardinality(C) \in Nat
           /\ Cardinality(A) + Cardinality(B) + Cardinality(C) <= Cardinality(S)
<1>1. /\ IsFiniteSet(A) /\ IsFiniteSet(B) /\ IsFiniteSet(C)
      /\ Cardinality(S) \in Nat
    BY PartCounted
<1>2. /\ IsFiniteSet(A \cup B) /\ Cardinality(A) \in Nat /\ Cardinality(B) \in Nat
      /\ Cardinality(A \cup B) = Cardinality(A) + Cardinality(B)
    BY <1>1, DisjointCounted
<1>3. (A \cup B) \cap C = {} /\ (A \cup B) \cup C \subseteq S
    OBVIOUS
<1>4. /\ Cardinality(C) \in Nat
      /\ Cardinality((A \cup B) \cup C) = Cardinality(A \cup B) + Cardinality(C)
    BY <1>1, <1>2, <1>3, DisjointCounted
<1>5. Cardinality((A \cup B) \cup C) <= Cardinality(S)
    BY <1>3, PartCounted
<1>6. QED
    BY <1>1, <1>2, <1>4, <1>5

LEMMA SmallestExists ==
    ASSUME NEW S, S \subseteq Nat, S # {}
    PROVE  \E x \in S : \A y \in S : x <= y
<1>1. PICK x \in S : \A y \in S : ~ (<<y, x>> \in OpToRel(<, Nat))
    BY NatLessThanWellFounded, WFMin, Zenon
<1>2. \A y \in S : ~ (y < x)
    BY <1>1 DEF OpToRel
<1>3. \A y \in S : x <= y
    BY <1>2
<1>4. QED
    BY <1>3

-----------------------------------------------------------------------------
(* The SLA monitor *)

Recording == {m \in Monitors : slaRun[m].pc = "record"}

Publishing(t) == {m \in Monitors : slaRun[m].pc = "publish" /\ NoticeType(m) = t}

\* Runs that may still add an entry, and those that may still add a notification.
ToRecord == {m \in Monitors : slaRun[m].pc \in {"new", "history", "record"}}

ToPublish == {m \in Monitors : slaRun[m].pc \in {"new", "history", "record", "look", "publish"}}

\* Once something is told twice, or is told and about to be told again, every
\* telling is of a run that overlapped another one.
ByOverlaps(count, coming, overlaps) ==
    count > 0 /\ (count > 1 \/ coming # {}) => count + Cardinality(coming) <= Cardinality(overlaps)

MonitorInv ==
    /\ MonitorTypeOK
    /\ \A m, n \in Monitors : m # n /\ MonitorRunning(m) /\ MonitorRunning(n) => m \in slaOverlaps
    /\ slaBreached + Cardinality(ToRecord) <= Cardinality(Monitors)
    /\ \A t \in NoticeTypes : slaNotices[t] + Cardinality(ToPublish) <= Cardinality(Monitors)
    /\ ByOverlaps(slaBreached, Recording, slaOverlaps)
    /\ \A t \in NoticeTypes : ByOverlaps(slaNotices[t], Publishing(t), slaOverlaps)
    /\ slaNotices["SLA_EXPIRED"] > 0 => slaBreached > 0
    /\ \A m \in Monitors : slaRun[m].pc \in {"look", "publish", "done"} /\ slaRun[m].seen.active
                              /\ slaRun[m].seen.sla = "BREACHED" => slaBreached > 0
    /\ \A m \in Monitors : MonitorRunning(m) => slaRun[m].seen.active

\* Nobody tells anything, and no more are about to.
LEMMA NothingTold ==
    ASSUME NEW count \in Nat, NEW V, IsFiniteSet(V), NEW W, W \subseteq V,
           NEW P, IsFiniteSet(P), NEW O, O \subseteq P, ByOverlaps(count, V, O)
    PROVE  ByOverlaps(count, W, P)
<1>1. /\ Cardinality(W) \in Nat /\ Cardinality(V) \in Nat
      /\ Cardinality(W) <= Cardinality(V)
    BY PartCounted
<1>2. /\ Cardinality(O) \in Nat /\ Cardinality(P) \in Nat
      /\ Cardinality(O) <= Cardinality(P)
    BY PartCounted
<1>3. QED
    BY <1>1, <1>2 DEF ByOverlaps

\* One of those that were about to tell does: if there are others, all overlap.
LEMMA OneTells ==
    ASSUME NEW count \in Nat, NEW V, IsFiniteSet(V), NEW m \in V, NEW O, IsFiniteSet(O),
           ByOverlaps(count, V, O), \A x, y \in V : x # y => x \in O
    PROVE  ByOverlaps(count + 1, V \ {m}, O)
<1>1. /\ Cardinality(V) \in Nat /\ Cardinality(V \ {m}) = Cardinality(V) - 1
      /\ Cardinality(O) \in Nat
    BY ElementRemoved, FS_CardinalityType
<1>2. CASE count > 0
    BY <1>1, <1>2 DEF ByOverlaps
<1>3. CASE count = 0 /\ V \ {m} = {}
    BY <1>3 DEF ByOverlaps
<1>4. CASE count = 0 /\ V \ {m} # {}
    <2>1. V \subseteq O
        BY <1>4
    <2>2. Cardinality(V) <= Cardinality(O)
        BY <2>1, PartCounted
    <2>3. QED
        BY <1>1, <2>2, <1>4 DEF ByOverlaps
<1>5. QED
    BY <1>2, <1>3, <1>4

MonitorPcs == {"new", "history", "record", "look", "publish", "done", "failed"}

\* Only the position of one run changes.
LEMMA RunMoves ==
    ASSUME MonitorInv, NEW m \in Monitors, NEW pc \in MonitorPcs, GoesTo(m, pc)
    PROVE  /\ slaRun' \in [Monitors -> [pc : MonitorPcs, seen : SlaTicket]]
           /\ \A n \in Monitors : /\ slaRun'[n].seen = slaRun[n].seen
                                  /\ slaRun'[n].pc = IF n = m THEN pc ELSE slaRun[n].pc
                                  /\ NoticeType(n)' = NoticeType(n)
<1>1. slaRun \in [Monitors -> [pc : MonitorPcs, seen : SlaTicket]]
    BY DEF MonitorInv, MonitorTypeOK, MonitorPcs
<1>2. slaRun' = [slaRun EXCEPT ![m] = [slaRun[m] EXCEPT !.pc = pc]]
    BY DEF GoesTo
<1>3. [slaRun[m] EXCEPT !.pc = pc] \in [pc : MonitorPcs, seen : SlaTicket]
    BY <1>1
<1>4. slaRun' \in [Monitors -> [pc : MonitorPcs, seen : SlaTicket]]
    BY <1>1, <1>2, <1>3
<1>5. \A n \in Monitors : /\ slaRun'[n].seen = slaRun[n].seen
                          /\ slaRun'[n].pc = IF n = m THEN pc ELSE slaRun[n].pc
    BY <1>1, <1>2
<1>6. QED
    BY <1>4, <1>5 DEF NoticeType

LEMMA MonitorSetsFinite ==
    /\ IsFiniteSet(Monitors) /\ Cardinality(Monitors) \in Nat
    /\ IsFiniteSet(Recording) /\ Cardinality(Recording) \in Nat
    /\ IsFiniteSet(ToRecord) /\ Cardinality(ToRecord) \in Nat
    /\ IsFiniteSet(ToPublish) /\ Cardinality(ToPublish) \in Nat
    /\ \A t : IsFiniteSet(Publishing(t)) /\ Cardinality(Publishing(t)) \in Nat
<1>1. IsFiniteSet(Monitors)
    BY MonitorAssumption
<1>2. /\ Recording \in SUBSET Monitors /\ ToRecord \in SUBSET Monitors
      /\ ToPublish \in SUBSET Monitors /\ \A t : Publishing(t) \in SUBSET Monitors
    BY DEF Recording, ToRecord, ToPublish, Publishing
<1>3. QED
    BY <1>1, <1>2, FS_Subset, FS_CardinalityType

\* A step that tells nothing: it may lead to a telling only of what nobody has told.
LEMMA MonitorGoesOn ==
    ASSUME MonitorInv, NEW m \in Monitors, NEW pc \in MonitorPcs \ {"new", "history"}, GoesTo(m, pc),
           MonitorRunning(m), slaFaults' \in 0..MaxMonitorFaults,
           UNCHANGED <<slaTicket, slaBreached, slaNotices, slaOverlaps, slaMoves>>,
           pc = "record" => slaRun[m].pc = "history" /\ slaBreached = 0,
           pc = "publish" => slaNotices[NoticeType(m)] = 0,
           pc \in {"look", "publish", "done"} /\ slaRun[m].seen.sla = "BREACHED" => slaBreached > 0
    PROVE  MonitorInv'
<1>1. /\ slaRun' \in [Monitors -> [pc : MonitorPcs, seen : SlaTicket]]
      /\ \A n \in Monitors : /\ slaRun'[n].seen = slaRun[n].seen
                             /\ slaRun'[n].pc = IF n = m THEN pc ELSE slaRun[n].pc
                             /\ NoticeType(n)' = NoticeType(n)
    BY RunMoves
<1>2. MonitorTypeOK'
    BY <1>1 DEF MonitorInv, MonitorTypeOK, MonitorPcs
<1>3. \A n \in Monitors : MonitorRunning(n)' => MonitorRunning(n)
    BY <1>1 DEF MonitorRunning
<1>4. ToRecord' \subseteq ToRecord /\ ToPublish' \subseteq ToPublish
    <2>1. ToRecord' \subseteq ToRecord
        BY <1>1 DEF ToRecord
    <2>2. ToPublish' \subseteq ToPublish
        BY <1>1 DEF ToPublish, MonitorRunning, MonitorPcs, MonitorInv, MonitorTypeOK
    <2>3. QED
        BY <2>1, <2>2
<1>5. /\ slaBreached' + Cardinality(ToRecord') <= Cardinality(Monitors)
      /\ \A t \in NoticeTypes : slaNotices'[t] + Cardinality(ToPublish') <= Cardinality(Monitors)
    <2>1. /\ Cardinality(ToRecord') \in Nat /\ Cardinality(ToRecord') <= Cardinality(ToRecord)
          /\ Cardinality(ToPublish') \in Nat /\ Cardinality(ToPublish') <= Cardinality(ToPublish)
        BY <1>4, MonitorSetsFinite, PartCounted
    <2>2. slaBreached \in Nat /\ \A t \in NoticeTypes : slaNotices[t] \in Nat
        BY MonitorSetsFinite DEF MonitorInv, MonitorTypeOK
    <2>3. QED
        BY <2>1, <2>2, MonitorSetsFinite DEF MonitorInv
<1>6. IsFiniteSet(slaOverlaps)
    BY MonitorSetsFinite, PartCounted DEF MonitorInv, MonitorTypeOK
<1>7. ByOverlaps(slaBreached', Recording', slaOverlaps')
    <2>1. CASE slaBreached = 0
        BY <2>1 DEF ByOverlaps
    <2>2. CASE slaBreached # 0
        <3>1. Recording' \subseteq Recording
            BY <1>1, <2>2 DEF Recording
        <3>2. slaBreached \in Nat
            BY MonitorSetsFinite DEF MonitorInv, MonitorTypeOK
        <3>3. ByOverlaps(slaBreached, Recording, slaOverlaps)
            BY DEF MonitorInv
        <3>4. QED
            BY <3>1, <3>2, <3>3, <1>6, MonitorSetsFinite, NothingTold
    <2>3. QED
        BY <2>1, <2>2
<1>8. ASSUME NEW t \in NoticeTypes
      PROVE  ByOverlaps(slaNotices'[t], Publishing(t)', slaOverlaps')
    <2>1. CASE slaNotices[t] = 0
        BY <2>1 DEF ByOverlaps
    <2>2. CASE slaNotices[t] # 0
        <3>1. Publishing(t)' \subseteq Publishing(t)
            BY <1>1, <2>2 DEF Publishing
        <3>2. slaNotices[t] \in Nat
            BY MonitorSetsFinite DEF MonitorInv, MonitorTypeOK
        <3>3. ByOverlaps(slaNotices[t], Publishing(t), slaOverlaps)
            BY DEF MonitorInv
        <3>4. QED
            BY <3>1, <3>2, <3>3, <1>6, MonitorSetsFinite, NothingTold
    <2>3. QED
        BY <2>1, <2>2
<1>9. \A n \in Monitors : slaRun'[n].pc \in {"look", "publish", "done"} /\ slaRun'[n].seen.active
                              /\ slaRun'[n].seen.sla = "BREACHED" => slaBreached' > 0
    BY <1>1 DEF MonitorInv
<1>10. \A n \in Monitors : MonitorRunning(n)' => slaRun'[n].seen.active
    BY <1>1, <1>3 DEF MonitorInv
<1>11. \A n, k \in Monitors : n # k /\ MonitorRunning(n)' /\ MonitorRunning(k)' => n \in slaOverlaps'
    BY <1>3 DEF MonitorInv
<1>12. QED
    BY <1>2, <1>5, <1>7, <1>8, <1>9, <1>10, <1>11 DEF MonitorInv

LEMMA SelectKeeps ==
    ASSUME MonitorInv, NEW m \in Monitors, SelectTickets(m)
    PROVE  MonitorInv'
<1> DEFINE others == {n \in Monitors : MonitorRunning(n)}
           pc == CASE slaTicket.active /\ slaTicket.sla = "BREACHED" -> "history"
                   [] slaTicket.active /\ slaTicket.sla = "WARNING" /\ slaTicket.assigned -> "look"
                   [] OTHER -> "done"
<1>1. /\ slaRun[m].pc = "new"
      /\ slaRun' = [slaRun EXCEPT ![m] = [pc |-> pc, seen |-> slaTicket]]
      /\ slaOverlaps' = IF pc = "done" \/ others = {} THEN slaOverlaps
                        ELSE slaOverlaps \cup others \cup {m}
      /\ UNCHANGED <<slaTicket, slaBreached, slaNotices, slaMoves, slaFaults>>
    BY DEF SelectTickets
<1>2. /\ pc \in {"done", "history", "look"}
      /\ pc \in {"history", "look"} => slaTicket.active
      /\ slaTicket.active /\ slaTicket.sla = "BREACHED" => pc = "history"
    <2>1. slaTicket.active \in BOOLEAN
        BY DEF MonitorInv, MonitorTypeOK, SlaTicket
    <2>2. CASE ~slaTicket.active
        BY <2>1, <2>2
    <2>3. CASE slaTicket.active /\ slaTicket.sla = "BREACHED"
        BY <2>1, <2>3
    <2>4. CASE slaTicket.active /\ slaTicket.sla # "BREACHED"
        BY <2>1, <2>4
    <2>5. QED
        BY <2>1, <2>2, <2>3, <2>4
<1> HIDE DEF pc
<1>3. /\ slaRun \in [Monitors -> [pc : MonitorPcs, seen : SlaTicket]]
      /\ slaTicket \in SlaTicket /\ slaOverlaps \subseteq Monitors
    BY DEF MonitorInv, MonitorTypeOK, MonitorPcs
<1>4. /\ slaRun' \in [Monitors -> [pc : MonitorPcs, seen : SlaTicket]]
      /\ \A n \in Monitors : slaRun'[n] = IF n = m THEN [pc |-> pc, seen |-> slaTicket] ELSE slaRun[n]
    BY <1>1, <1>2, <1>3 DEF MonitorPcs
<1>5. others \subseteq Monitors /\ slaOverlaps \subseteq slaOverlaps' /\ slaOverlaps' \subseteq Monitors
    BY <1>1, <1>3
<1>6. MonitorTypeOK'
    BY <1>1, <1>4, <1>5 DEF MonitorInv, MonitorTypeOK, MonitorPcs
<1>7. \A n, k \in Monitors : n # k /\ MonitorRunning(n)' /\ MonitorRunning(k)' => n \in slaOverlaps'
    <2>1. SUFFICES ASSUME NEW n \in Monitors, NEW k \in Monitors, n # k,
                          MonitorRunning(n)', MonitorRunning(k)'
                   PROVE  n \in slaOverlaps'
        OBVIOUS
    <2>2. CASE n # m /\ k # m
        BY <2>1, <2>2, <1>4, <1>5 DEF MonitorRunning, MonitorInv
    <2>3. CASE n = m
        <3>1. k \in others /\ pc # "done"
            BY <2>1, <2>3, <1>4 DEF MonitorRunning
        <3>2. QED
            BY <3>1, <2>3, <1>1
    <2>4. CASE k = m
        <3>1. n \in others /\ pc # "done"
            BY <2>1, <2>4, <1>4 DEF MonitorRunning
        <3>2. QED
            BY <3>1, <1>1
    <2>5. QED
        BY <2>2, <2>3, <2>4
<1>8. /\ ToRecord' \subseteq ToRecord /\ ToPublish' \subseteq ToPublish
      /\ Recording' \subseteq Recording
    BY <1>1, <1>2, <1>4 DEF ToRecord, ToPublish, Recording
<1>9. ASSUME NEW t \in NoticeTypes PROVE Publishing(t)' \subseteq Publishing(t)
    BY <1>1, <1>2, <1>4 DEF Publishing, NoticeType
<1>10. slaBreached \in Nat /\ \A t \in NoticeTypes : slaNotices[t] \in Nat
    BY MonitorSetsFinite DEF MonitorInv, MonitorTypeOK
<1>11. /\ slaBreached' + Cardinality(ToRecord') <= Cardinality(Monitors)
       /\ \A t \in NoticeTypes : slaNotices'[t] + Cardinality(ToPublish') <= Cardinality(Monitors)
    <2>1. /\ Cardinality(ToRecord') \in Nat /\ Cardinality(ToRecord') <= Cardinality(ToRecord)
          /\ Cardinality(ToPublish') \in Nat /\ Cardinality(ToPublish') <= Cardinality(ToPublish)
        BY <1>8, MonitorSetsFinite, PartCounted
    <2>2. QED
        BY <2>1, <1>1, <1>10, MonitorSetsFinite DEF MonitorInv
<1>12. IsFiniteSet(slaOverlaps')
    BY <1>5, MonitorSetsFinite, PartCounted
<1>13. ByOverlaps(slaBreached', Recording', slaOverlaps')
    <2>1. ByOverlaps(slaBreached, Recording, slaOverlaps)
        BY DEF MonitorInv
    <2>2. ByOverlaps(slaBreached, Recording', slaOverlaps')
        BY <2>1, <1>5, <1>8, <1>10, <1>12, MonitorSetsFinite, NothingTold
    <2>3. QED
        BY <2>2, <1>1
<1>14. ASSUME NEW t \in NoticeTypes
       PROVE  ByOverlaps(slaNotices'[t], Publishing(t)', slaOverlaps')
    <2>1. ByOverlaps(slaNotices[t], Publishing(t), slaOverlaps)
        BY DEF MonitorInv
    <2>2. slaNotices[t] \in Nat
        BY <1>10
    <2>3. ByOverlaps(slaNotices[t], Publishing(t)', slaOverlaps')
        BY <2>1, <2>2, <1>5, <1>9, <1>12, MonitorSetsFinite, NothingTold
    <2>4. QED
        BY <2>3, <1>1
<1>15. \A n \in Monitors : slaRun'[n].pc \in {"look", "publish", "done"} /\ slaRun'[n].seen.active
                              /\ slaRun'[n].seen.sla = "BREACHED" => slaBreached' > 0
    BY <1>1, <1>2, <1>4 DEF MonitorInv
<1>16. \A n \in Monitors : MonitorRunning(n)' => slaRun'[n].seen.active
    BY <1>1, <1>2, <1>4 DEF MonitorInv, MonitorRunning
<1>17. QED
    BY <1>1, <1>6, <1>7, <1>11, <1>13, <1>14, <1>15, <1>16 DEF MonitorInv

\* An entry, or a notification, that is told may be the second one only by an overlap.
LEMMA RecordBreachKeeps ==
    ASSUME MonitorInv, NEW m \in Monitors, RecordBreach(m)
    PROVE  MonitorInv'
<1> DEFINE pc == AfterHistory(m)
<1>1. /\ slaRun[m].pc = "record" /\ slaBreached' = slaBreached + 1 /\ GoesTo(m, pc)
      /\ UNCHANGED <<slaTicket, slaNotices, slaOverlaps, slaMoves, slaFaults>>
    BY DEF RecordBreach
<1>2. pc \in {"look", "done"} /\ pc \in MonitorPcs
    BY DEF AfterHistory, MonitorPcs
<1> HIDE DEF pc
<1>3. /\ slaRun' \in [Monitors -> [pc : MonitorPcs, seen : SlaTicket]]
      /\ \A n \in Monitors : /\ slaRun'[n].seen = slaRun[n].seen
                             /\ slaRun'[n].pc = IF n = m THEN pc ELSE slaRun[n].pc
                             /\ NoticeType(n)' = NoticeType(n)
    BY <1>1, <1>2, RunMoves
<1>4. m \in Recording /\ m \in ToRecord /\ MonitorRunning(m)
    BY <1>1 DEF Recording, ToRecord, MonitorRunning
<1>5. slaBreached \in Nat /\ \A t \in NoticeTypes : slaNotices[t] \in Nat
    BY MonitorSetsFinite DEF MonitorInv, MonitorTypeOK
<1>6. ToRecord' = ToRecord \ {m} /\ Recording' = Recording \ {m} /\ ToPublish' \subseteq ToPublish
    BY <1>1, <1>2, <1>3 DEF ToRecord, Recording, ToPublish
<1>7. slaBreached' + Cardinality(ToRecord') <= Cardinality(Monitors)
    <2>1. Cardinality(ToRecord') = Cardinality(ToRecord) - 1
        BY <1>4, <1>6, ElementRemoved, MonitorSetsFinite
    <2>2. slaBreached + Cardinality(ToRecord) <= Cardinality(Monitors)
        BY DEF MonitorInv
    <2>3. QED
        BY <2>1, <2>2, <1>1, <1>5, MonitorSetsFinite
<1>8. \A t \in NoticeTypes : slaNotices'[t] + Cardinality(ToPublish') <= Cardinality(Monitors)
    <2>1. Cardinality(ToPublish') \in Nat /\ Cardinality(ToPublish') <= Cardinality(ToPublish)
        BY <1>6, MonitorSetsFinite, PartCounted
    <2>2. QED
        BY <2>1, <1>1, <1>5, MonitorSetsFinite DEF MonitorInv
<1>9. MonitorTypeOK'
    <2>1. Cardinality(ToRecord') \in Nat
        BY <1>6, MonitorSetsFinite, PartCounted
    <2>2. slaBreached' \in 0..Cardinality(Monitors)
        BY <2>1, <1>1, <1>5, <1>7, MonitorSetsFinite
    <2>3. QED
        BY <2>2, <1>1, <1>3 DEF MonitorInv, MonitorTypeOK, MonitorPcs
<1>10. \A n \in Monitors : MonitorRunning(n)' => MonitorRunning(n)
    BY <1>3, <1>4 DEF MonitorRunning
<1>11. IsFiniteSet(slaOverlaps)
    BY MonitorSetsFinite, PartCounted DEF MonitorInv, MonitorTypeOK
<1>12. ByOverlaps(slaBreached', Recording', slaOverlaps')
    <2>1. \A x, y \in Recording : x # y => x \in slaOverlaps
        BY DEF Recording, MonitorRunning, MonitorInv
    <2>2. ByOverlaps(slaBreached, Recording, slaOverlaps)
        BY DEF MonitorInv
    <2>3. ByOverlaps(slaBreached + 1, Recording \ {m}, slaOverlaps)
        BY <2>1, <2>2, <1>4, <1>5, <1>11, MonitorSetsFinite, OneTells
    <2>4. QED
        BY <2>3, <1>1, <1>6
<1>13. ASSUME NEW t \in NoticeTypes
       PROVE  ByOverlaps(slaNotices'[t], Publishing(t)', slaOverlaps')
    <2>1. Publishing(t)' = Publishing(t)
        BY <1>1, <1>2, <1>3 DEF Publishing
    <2>2. QED
        BY <2>1, <1>1 DEF MonitorInv
<1>14. slaBreached' > 0
    BY <1>1, <1>5
<1>15. \A n \in Monitors : MonitorRunning(n)' => slaRun'[n].seen.active
    BY <1>3, <1>10 DEF MonitorInv
<1>16. \A n, k \in Monitors : n # k /\ MonitorRunning(n)' /\ MonitorRunning(k)' => n \in slaOverlaps'
    BY <1>1, <1>10 DEF MonitorInv
<1>17. QED
    BY <1>7, <1>8, <1>9, <1>12, <1>13, <1>14, <1>15, <1>16 DEF MonitorInv

LEMMA PublishKeeps ==
    ASSUME MonitorInv, NEW m \in Monitors, PublishSla(m)
    PROVE  MonitorInv'
<1> DEFINE t == NoticeType(m)
<1>1. /\ slaRun[m].pc = "publish" /\ GoesTo(m, "done")
      /\ slaNotices' = [slaNotices EXCEPT ![t] = @ + 1]
      /\ UNCHANGED <<slaTicket, slaBreached, slaOverlaps, slaMoves, slaFaults>>
    BY DEF PublishSla
<1>2. t \in NoticeTypes /\ (t = "SLA_EXPIRED" <=> slaRun[m].seen.sla = "BREACHED")
    BY DEF NoticeType, NoticeTypes
<1> HIDE DEF t
<1>3. /\ slaRun' \in [Monitors -> [pc : MonitorPcs, seen : SlaTicket]]
      /\ \A n \in Monitors : /\ slaRun'[n].seen = slaRun[n].seen
                             /\ slaRun'[n].pc = IF n = m THEN "done" ELSE slaRun[n].pc
                             /\ NoticeType(n)' = NoticeType(n)
    <2>1. "done" \in MonitorPcs
        BY DEF MonitorPcs
    <2>2. QED
        BY <2>1, <1>1, RunMoves
<1>4. m \in Publishing(t) /\ m \in ToPublish /\ MonitorRunning(m)
    BY <1>1 DEF Publishing, ToPublish, MonitorRunning, t
<1>5. /\ slaBreached \in Nat
      /\ slaNotices \in [NoticeTypes -> Nat]
    BY MonitorSetsFinite DEF MonitorInv, MonitorTypeOK
<1>6. \A u \in NoticeTypes : slaNotices'[u] = IF u = t THEN slaNotices[u] + 1 ELSE slaNotices[u]
    BY <1>1, <1>2, <1>5
<1>7. ToRecord' = ToRecord /\ Recording' = Recording /\ ToPublish' = ToPublish \ {m}
    BY <1>1, <1>3 DEF ToRecord, Recording, ToPublish
<1>8. \A u \in NoticeTypes : slaNotices'[u] + Cardinality(ToPublish') <= Cardinality(Monitors)
    <2>1. Cardinality(ToPublish') = Cardinality(ToPublish) - 1
        BY <1>4, <1>7, ElementRemoved, MonitorSetsFinite
    <2>2. \A u \in NoticeTypes : slaNotices[u] + Cardinality(ToPublish) <= Cardinality(Monitors)
        BY DEF MonitorInv
    <2>3. QED
        BY <2>1, <2>2, <1>5, <1>6, MonitorSetsFinite
<1>9. MonitorTypeOK'
    <2>1. Cardinality(ToPublish') \in Nat
        BY <1>7, MonitorSetsFinite, PartCounted
    <2>2. \A u \in NoticeTypes : slaNotices'[u] \in 0..Cardinality(Monitors)
        BY <2>1, <1>5, <1>6, <1>8, MonitorSetsFinite
    <2>3. slaNotices' \in [NoticeTypes -> 0..Cardinality(Monitors)]
        BY <2>2, <1>1, <1>5
    <2>4. QED
        BY <2>3, <1>1, <1>3 DEF MonitorInv, MonitorTypeOK, MonitorPcs
<1>10. \A n \in Monitors : MonitorRunning(n)' => MonitorRunning(n)
    BY <1>3, <1>4 DEF MonitorRunning
<1>11. IsFiniteSet(slaOverlaps)
    BY MonitorSetsFinite, PartCounted DEF MonitorInv, MonitorTypeOK
<1>12. ByOverlaps(slaBreached', Recording', slaOverlaps') /\ slaBreached' + Cardinality(ToRecord') <= Cardinality(Monitors)
    BY <1>1, <1>7 DEF MonitorInv
<1>13. ASSUME NEW u \in NoticeTypes
       PROVE  ByOverlaps(slaNotices'[u], Publishing(u)', slaOverlaps')
    <2>1. CASE u = t
        <3>1. \A x, y \in Publishing(t) : x # y => x \in slaOverlaps
            BY DEF Publishing, MonitorRunning, MonitorInv
        <3>2. ByOverlaps(slaNotices[t], Publishing(t), slaOverlaps) /\ slaNotices[t] \in Nat
            BY <1>2, <1>5 DEF MonitorInv
        <3>3. ByOverlaps(slaNotices[t] + 1, Publishing(t) \ {m}, slaOverlaps)
            BY <3>1, <3>2, <1>4, <1>11, MonitorSetsFinite, OneTells
        <3>4. Publishing(u)' = Publishing(u) \ {m}
            BY <2>1, <1>1, <1>3 DEF Publishing
        <3>5. QED
            BY <3>3, <3>4, <2>1, <1>1, <1>2, <1>6
    <2>2. CASE u # t
        <3>1. Publishing(u)' = Publishing(u)
            BY <2>2, <1>1, <1>3 DEF Publishing, t
        <3>2. QED
            BY <3>1, <2>2, <1>1, <1>6 DEF MonitorInv
    <2>3. QED
        BY <2>1, <2>2
<1>14. slaNotices'["SLA_EXPIRED"] > 0 => slaBreached' > 0
    <2>1. slaRun[m].seen.active
        BY <1>4 DEF MonitorInv
    <2>2. t = "SLA_EXPIRED" => slaBreached > 0
        BY <2>1, <1>1, <1>2 DEF MonitorInv
    <2>3. QED
        BY <2>2, <1>1, <1>6 DEF MonitorInv, NoticeTypes
<1>15. \A n \in Monitors : slaRun'[n].pc \in {"look", "publish", "done"} /\ slaRun'[n].seen.active
                              /\ slaRun'[n].seen.sla = "BREACHED" => slaBreached' > 0
    BY <1>1, <1>3 DEF MonitorInv
<1>16. \A n \in Monitors : MonitorRunning(n)' => slaRun'[n].seen.active
    BY <1>3, <1>10 DEF MonitorInv
<1>17. \A n, k \in Monitors : n # k /\ MonitorRunning(n)' /\ MonitorRunning(k)' => n \in slaOverlaps'
    BY <1>1, <1>10 DEF MonitorInv
<1>18. QED
    BY <1>8, <1>9, <1>12, <1>13, <1>14, <1>15, <1>16, <1>17 DEF MonitorInv

LEMMA MonitorInitially == MonitorInit => MonitorInv
<1>1. SUFFICES ASSUME MonitorInit PROVE MonitorInv
    OBVIOUS
<1>2. slaTicket \in SlaTicket /\ slaTicket.active
    BY <1>1 DEF MonitorInit, SlaTicket
<1>3. \A m \in Monitors : slaRun[m] = [pc |-> "new", seen |-> slaTicket]
    BY <1>1 DEF MonitorInit
<1>4. MonitorTypeOK
    BY <1>1, <1>2, MonitorSetsFinite, MonitorAssumption DEF MonitorInit, MonitorTypeOK
<1>5. ToRecord \subseteq Monitors /\ ToPublish \subseteq Monitors
    BY DEF ToRecord, ToPublish
<1>6. Cardinality(ToRecord) <= Cardinality(Monitors) /\ Cardinality(ToPublish) <= Cardinality(Monitors)
    BY <1>5, MonitorSetsFinite, PartCounted
<1>7. slaBreached = 0 /\ \A t \in NoticeTypes : slaNotices[t] = 0
    BY <1>1 DEF MonitorInit
<1>8. /\ ByOverlaps(slaBreached, Recording, slaOverlaps)
      /\ \A t \in NoticeTypes : ByOverlaps(slaNotices[t], Publishing(t), slaOverlaps)
    BY <1>7 DEF ByOverlaps
<1>9. "SLA_EXPIRED" \in NoticeTypes
    BY DEF NoticeTypes
<1>10. QED
    BY <1>3, <1>4, <1>6, <1>7, <1>8, <1>9, MonitorSetsFinite DEF MonitorInv, MonitorRunning

LEMMA MonitorStep == MonitorInv /\ [MonitorNext]_slaVars => MonitorInv'
<1>1. SUFFICES ASSUME MonitorInv, [MonitorNext]_slaVars PROVE MonitorInv'
    OBVIOUS
<1>2. CASE /\ UNCHANGED <<slaRun, slaBreached, slaNotices, slaOverlaps, slaFaults>>
           /\ slaTicket' \in SlaTicket /\ slaMoves' \in 0..MaxTicketMoves
    BY <1>1, <1>2 DEF MonitorInv, MonitorTypeOK, MonitorRunning, ToRecord, ToPublish, Recording,
                      Publishing, NoticeType
<1>3. slaTicket \in SlaTicket /\ slaMoves \in 0..MaxTicketMoves /\ slaFaults \in 0..MaxMonitorFaults
    BY <1>1 DEF MonitorInv, MonitorTypeOK
<1>4. CASE TimePasses
    BY <1>2, <1>3, <1>4 DEF TimePasses, SlaTicket, SlaStatus
<1>5. CASE TicketMoves
    <2>1. slaTicket' = [slaTicket EXCEPT !.active = ~@] \/ slaTicket' = [slaTicket EXCEPT !.assigned = TRUE]
        BY <1>5 DEF TicketMoves
    <2>2. slaTicket' \in SlaTicket
        BY <2>1, <1>3 DEF SlaTicket
    <2>3. slaMoves' \in 0..MaxTicketMoves
        BY <1>3, <1>5, MonitorAssumption DEF TicketMoves
    <2>4. QED
        BY <2>2, <2>3, <1>2, <1>5 DEF TicketMoves
<1>6. ASSUME NEW m \in Monitors, HasBreachEntry(m) PROVE MonitorInv'
    <2>1. PICK pc \in {"look", "done", "record"} :
             GoesTo(m, pc) /\ (pc = "record" <=> ~(slaBreached > 0))
        BY <1>6 DEF HasBreachEntry, AfterHistory
    <2>2. slaBreached \in Nat
        BY <1>1, MonitorSetsFinite DEF MonitorInv, MonitorTypeOK
    <2>3. QED
        BY <2>1, <2>2, <1>1, <1>3, <1>6, MonitorGoesOn DEF HasBreachEntry, MonitorRunning, MonitorPcs
<1>7. ASSUME NEW m \in Monitors, HasNotification(m) PROVE MonitorInv'
    <2>1. PICK pc \in {"done", "publish"} :
             GoesTo(m, pc) /\ (pc = "publish" <=> ~(slaNotices[NoticeType(m)] > 0))
        BY <1>7 DEF HasNotification
    <2>2. slaNotices[NoticeType(m)] \in Nat
        BY <1>1, MonitorSetsFinite DEF MonitorInv, MonitorTypeOK, NoticeType, NoticeTypes
    <2>3. MonitorRunning(m) /\ slaRun[m].pc = "look"
        BY <1>7 DEF HasNotification, MonitorRunning
    <2>4. slaRun[m].seen.sla = "BREACHED" => slaBreached > 0
        BY <2>3, <1>1 DEF MonitorInv
    <2>5. QED
        BY <2>1, <2>2, <2>3, <2>4, <1>1, <1>3, <1>7, MonitorGoesOn DEF HasNotification, MonitorPcs
<1>8. ASSUME NEW m \in Monitors, MonitorThrows(m) PROVE MonitorInv'
    <2>1. MonitorRunning(m) /\ slaFaults' \in 0..MaxMonitorFaults
        BY <1>3, <1>8, MonitorAssumption DEF MonitorThrows, MonitorRunning, MonitorFault
    <2>2. QED
        BY <2>1, <1>1, <1>8, MonitorGoesOn DEF MonitorThrows, MonitorPcs
<1>9. ASSUME NEW m \in Monitors, HandlerFails(m) PROVE MonitorInv'
    <2>1. MonitorRunning(m) /\ slaFaults' \in 0..MaxMonitorFaults /\ slaRun[m].pc = "publish"
        BY <1>3, <1>9, MonitorAssumption DEF HandlerFails, MonitorRunning, MonitorFault
    <2>2. slaRun[m].seen.sla = "BREACHED" => slaBreached > 0
        BY <2>1, <1>1 DEF MonitorInv
    <2>3. QED
        BY <2>1, <2>2, <1>1, <1>9, MonitorGoesOn DEF HandlerFails, MonitorPcs
<1>10. CASE UNCHANGED slaVars
    BY <1>2, <1>3, <1>10 DEF slaVars
<1>11. QED
    BY <1>1, <1>4, <1>5, <1>6, <1>7, <1>8, <1>9, <1>10, SelectKeeps, RecordBreachKeeps, PublishKeeps
       DEF MonitorNext

LEMMA MonitorTold == MonitorInv => BreachToldOnce
<1>1. SUFFICES ASSUME MonitorInv PROVE BreachToldOnce
    OBVIOUS
<1>2. slaBreached \in Nat /\ \A t \in NoticeTypes : slaNotices[t] \in Nat
    BY <1>1, MonitorSetsFinite DEF MonitorInv, MonitorTypeOK
<1>3. IsFiniteSet(slaOverlaps) /\ Cardinality(slaOverlaps) \in Nat
    BY <1>1, MonitorSetsFinite, PartCounted DEF MonitorInv, MonitorTypeOK
<1>4. AtMostOneUnless(slaBreached, Cardinality(slaOverlaps))
    BY <1>1, <1>2, <1>3, MonitorSetsFinite DEF MonitorInv, ByOverlaps, AtMostOneUnless
<1>5. ASSUME NEW t \in NoticeTypes
      PROVE  AtMostOneUnless(slaNotices[t], Cardinality(slaOverlaps))
    <2>1. ByOverlaps(slaNotices[t], Publishing(t), slaOverlaps) /\ slaNotices[t] \in Nat
        BY <1>1, <1>2 DEF MonitorInv
    <2>2. QED
        BY <2>1, <1>3, MonitorSetsFinite DEF ByOverlaps, AtMostOneUnless
<1>6. QED
    BY <1>1, <1>4, <1>5 DEF MonitorInv, BreachToldOnce

THEOREM BreachIsToldOnce == MonitorSpec => []BreachToldOnce
<1>1. QED
    BY MonitorInitially, MonitorStep, MonitorTold, PTL DEF MonitorSpec

-----------------------------------------------------------------------------
(* The satisfaction survey *)

\* The surveys of which something is missing and nobody is about to tell.
CostSurveys == csatSurveys \ (csatEvents \cup InFlight)

\* A submission has the survey, the entry and the event that its place implies.
SubmissionStands(s) ==
    /\ csatRun[s].pc # "new" /\ csatRun[s].pc # "refused" /\ csatRun[s].pc # "failed"
          => csatRun[s].by = "customer"
    /\ csatRun[s].pc \in {"history", "publish", "accepted"} => s \in csatSurveys
    /\ csatRun[s].pc \in {"publish", "accepted"} => s \in csatEntries
    /\ csatRun[s].pc = "accepted" => s \in csatEvents

SurveyStands(s) ==
    csatRun[s].by = "customer" /\ csatRun[s].pc \in {"history", "publish", "accepted", "failed"}

SatisfactionInv ==
    /\ SatisfactionTypeOK
    /\ \A s, t \in csatSurveys : s = t
    /\ csatEvents \subseteq csatEntries /\ csatEntries \subseteq csatSurveys
    /\ \A s \in Submissions : SubmissionStands(s)
    /\ \A s \in csatSurveys : SurveyStands(s)
    /\ Cardinality(CostSurveys) <= csatFaults

SubmissionPcs == {"new", "look", "create", "history", "publish", "accepted", "refused", "failed"}

LEMMA SubmissionMoves ==
    ASSUME SatisfactionInv, NEW s \in Submissions, NEW pc \in SubmissionPcs, MovesTo(s, pc)
    PROVE  /\ csatRun' \in [Submissions -> [by : {"customer", "other"}, pc : SubmissionPcs]]
           /\ \A r \in Submissions : /\ csatRun'[r].by = csatRun[r].by
                                     /\ csatRun'[r].pc = IF r = s THEN pc ELSE csatRun[r].pc
<1>1. csatRun \in [Submissions -> [by : {"customer", "other"}, pc : SubmissionPcs]]
    BY DEF SatisfactionInv, SatisfactionTypeOK, SubmissionPcs
<1>2. csatRun' = [csatRun EXCEPT ![s] = [csatRun[s] EXCEPT !.pc = pc]]
    BY DEF MovesTo
<1>3. [csatRun[s] EXCEPT !.pc = pc] \in [by : {"customer", "other"}, pc : SubmissionPcs]
    BY <1>1
<1>4. csatRun' \in [Submissions -> [by : {"customer", "other"}, pc : SubmissionPcs]]
    BY <1>1, <1>2, <1>3
<1>5. QED
    BY <1>1, <1>2, <1>4

LEMMA CostSurveysFinite ==
    ASSUME SatisfactionInv
    PROVE  IsFiniteSet(CostSurveys) /\ Cardinality(CostSurveys) \in Nat
<1>1. CostSurveys \subseteq Submissions /\ IsFiniteSet(Submissions)
    BY SatisfactionAssumption DEF SatisfactionInv, SatisfactionTypeOK, CostSurveys
<1>2. QED
    BY <1>1, PartCounted

\* Without a fault nothing more is lost.
LEMMA NoSurveyLost ==
    ASSUME SatisfactionInv, CostSurveys' \subseteq CostSurveys, csatFaults' = csatFaults
    PROVE  Cardinality(CostSurveys') <= csatFaults'
<1>1. Cardinality(CostSurveys') \in Nat /\ Cardinality(CostSurveys') <= Cardinality(CostSurveys)
    BY CostSurveysFinite, PartCounted
<1>2. csatFaults \in Nat /\ Cardinality(CostSurveys) <= csatFaults
    BY SatisfactionAssumption DEF SatisfactionInv, SatisfactionTypeOK
<1>3. QED
    BY <1>1, <1>2, CostSurveysFinite

LEMMA SatisfactionStep == SatisfactionInv /\ [SatisfactionNext]_csatVars => SatisfactionInv'
<1>1. SUFFICES ASSUME SatisfactionInv, [SatisfactionNext]_csatVars PROVE SatisfactionInv'
    OBVIOUS
<1>2. SatisfactionTypeOK /\ csatFaults \in 0..MaxCsatFaults /\ csatMoves \in 0..MaxCsatMoves
    BY <1>1 DEF SatisfactionInv, SatisfactionTypeOK
<1>3. CASE UNCHANGED csatVars
    BY <1>1, <1>3 DEF csatVars, SatisfactionInv, SatisfactionTypeOK, CostSurveys, InFlight,
                      SubmissionStands, SurveyStands
<1>4. CASE CsatTicketMoves
    <2>1. /\ csatDone' \in BOOLEAN /\ csatMoves' \in 0..MaxCsatMoves
          /\ UNCHANGED <<csatSurveys, csatEntries, csatEvents, csatRun, csatFaults>>
        BY <1>2, <1>4, SatisfactionAssumption DEF CsatTicketMoves
    <2>2. QED
        BY <1>1, <2>1 DEF SatisfactionInv, SatisfactionTypeOK, CostSurveys, InFlight,
                          SubmissionStands, SurveyStands
<1>5. ASSUME NEW s \in Submissions, NEW pc \in {"look", "create", "refused"}, MovesTo(s, pc),
             csatRun[s].pc \in {"new", "look", "create"},
             pc # "refused" => csatRun[s].by = "customer",
             UNCHANGED <<csatDone, csatSurveys, csatEntries, csatEvents, csatMoves, csatFaults>>
      PROVE  SatisfactionInv'
    <2>1. /\ csatRun' \in [Submissions -> [by : {"customer", "other"}, pc : SubmissionPcs]]
          /\ \A r \in Submissions : /\ csatRun'[r].by = csatRun[r].by
                                    /\ csatRun'[r].pc = IF r = s THEN pc ELSE csatRun[r].pc
        BY <1>1, <1>5, SubmissionMoves DEF SubmissionPcs
    <2>2. s \notin csatSurveys
        BY <1>1, <1>5 DEF SatisfactionInv, SurveyStands
    <2>3. CostSurveys' \subseteq CostSurveys
        BY <1>5, <2>1 DEF CostSurveys, InFlight
    <2>4. Cardinality(CostSurveys') <= csatFaults'
        BY <2>3, <1>1, <1>5, NoSurveyLost
    <2>5. \A r \in Submissions : SubmissionStands(r)'
        BY <1>1, <1>5, <2>1 DEF SatisfactionInv, SubmissionStands
    <2>6. \A r \in csatSurveys' : SurveyStands(r)'
        BY <1>1, <1>2, <1>5, <2>1, <2>2 DEF SatisfactionInv, SurveyStands, SatisfactionTypeOK
    <2>7. SatisfactionTypeOK'
        BY <1>2, <1>5, <2>1 DEF SatisfactionTypeOK, SubmissionPcs
    <2>8. QED
        BY <1>1, <1>5, <2>4, <2>5, <2>6, <2>7 DEF SatisfactionInv
<1>6. ASSUME NEW s \in Submissions, ValidateSubmission(s) PROVE SatisfactionInv'
    <2>1. PICK pc \in {"look", "refused"} :
             MovesTo(s, pc) /\ (pc # "refused" => csatRun[s].by = "customer")
        BY <1>6 DEF ValidateSubmission
    <2>2. QED
        BY <1>5, <1>6, <2>1 DEF ValidateSubmission, StandsAt
<1>7. ASSUME NEW s \in Submissions, FindSurvey(s) PROVE SatisfactionInv'
    <2>1. PICK pc \in {"create", "refused"} : MovesTo(s, pc)
        BY <1>7 DEF FindSurvey
    <2>2. csatRun[s].by = "customer"
        BY <1>1, <1>7 DEF FindSurvey, StandsAt, SatisfactionInv, SubmissionStands
    <2>3. QED
        BY <1>5, <1>7, <2>1, <2>2 DEF FindSurvey, StandsAt
<1>8. ASSUME NEW s \in Submissions, CreateSurvey(s) PROVE SatisfactionInv'
    <2>1. CASE csatSurveys # {}
        BY <1>5, <1>8, <2>1 DEF CreateSurvey, StandsAt
    <2>2. CASE csatSurveys = {}
        <3>1. /\ csatSurveys' = {s} /\ csatRun[s].pc = "create" /\ MovesTo(s, "history")
              /\ UNCHANGED <<csatDone, csatEntries, csatEvents, csatMoves, csatFaults>>
            BY <1>8, <2>2 DEF CreateSurvey, StandsAt
        <3>2. /\ csatRun' \in [Submissions -> [by : {"customer", "other"}, pc : SubmissionPcs]]
              /\ \A r \in Submissions : /\ csatRun'[r].by = csatRun[r].by
                                        /\ csatRun'[r].pc = IF r = s THEN "history" ELSE csatRun[r].pc
            BY <1>1, <3>1, SubmissionMoves DEF SubmissionPcs
        <3>3. csatRun[s].by = "customer"
            BY <1>1, <3>1 DEF SatisfactionInv, SubmissionStands
        <3>4. CostSurveys' \subseteq CostSurveys
            BY <3>1, <3>2 DEF CostSurveys, InFlight
        <3>5. Cardinality(CostSurveys') <= csatFaults'
            BY <3>1, <3>4, <1>1, NoSurveyLost
        <3>6. \A r \in Submissions : SubmissionStands(r)'
            BY <1>1, <2>2, <3>1, <3>2, <3>3 DEF SatisfactionInv, SubmissionStands
        <3>7. \A r \in csatSurveys' : SurveyStands(r)'
            BY <3>1, <3>2, <3>3 DEF SurveyStands
        <3>8. SatisfactionTypeOK'
            BY <1>2, <3>1, <3>2 DEF SatisfactionTypeOK, SubmissionPcs
        <3>9. csatEntries = {}
            BY <1>1, <2>2 DEF SatisfactionInv
        <3>10. QED
            BY <1>1, <3>1, <3>5, <3>6, <3>7, <3>8, <3>9 DEF SatisfactionInv
    <2>3. QED
        BY <2>1, <2>2
<1>9. ASSUME NEW s \in Submissions, RecordSubmission(s) PROVE SatisfactionInv'
    <2>1. /\ csatEntries' = csatEntries \cup {s} /\ csatRun[s].pc = "history" /\ MovesTo(s, "publish")
          /\ UNCHANGED <<csatDone, csatSurveys, csatEvents, csatMoves, csatFaults>>
        BY <1>9 DEF RecordSubmission, StandsAt
    <2>2. /\ csatRun' \in [Submissions -> [by : {"customer", "other"}, pc : SubmissionPcs]]
          /\ \A r \in Submissions : /\ csatRun'[r].by = csatRun[r].by
                                    /\ csatRun'[r].pc = IF r = s THEN "publish" ELSE csatRun[r].pc
        BY <1>1, <2>1, SubmissionMoves DEF SubmissionPcs
    <2>3. s \in csatSurveys /\ csatRun[s].by = "customer"
        BY <1>1, <2>1 DEF SatisfactionInv, SubmissionStands
    <2>4. Cardinality(CostSurveys') <= csatFaults'
        <3>1. CostSurveys' \subseteq CostSurveys
            BY <2>1, <2>2 DEF CostSurveys, InFlight
        <3>2. QED
            BY <3>1, <2>1, <1>1, NoSurveyLost
    <2>5. \A r \in Submissions : SubmissionStands(r)'
        BY <1>1, <2>1, <2>2, <2>3 DEF SatisfactionInv, SubmissionStands
    <2>6. \A r \in csatSurveys' : SurveyStands(r)'
        BY <1>1, <1>2, <2>1, <2>2 DEF SatisfactionInv, SurveyStands, SatisfactionTypeOK
    <2>7. SatisfactionTypeOK'
        BY <1>2, <2>1, <2>2 DEF SatisfactionTypeOK, SubmissionPcs
    <2>8. QED
        BY <1>1, <2>1, <2>3, <2>4, <2>5, <2>6, <2>7 DEF SatisfactionInv
<1>10. ASSUME NEW s \in Submissions, PublishCsat(s) PROVE SatisfactionInv'
    <2>1. /\ csatEvents' = csatEvents \cup {s} /\ csatRun[s].pc = "publish" /\ MovesTo(s, "accepted")
          /\ UNCHANGED <<csatDone, csatSurveys, csatEntries, csatMoves, csatFaults>>
        BY <1>10 DEF PublishCsat, StandsAt
    <2>2. /\ csatRun' \in [Submissions -> [by : {"customer", "other"}, pc : SubmissionPcs]]
          /\ \A r \in Submissions : /\ csatRun'[r].by = csatRun[r].by
                                    /\ csatRun'[r].pc = IF r = s THEN "accepted" ELSE csatRun[r].pc
        BY <1>1, <2>1, SubmissionMoves DEF SubmissionPcs
    <2>3. s \in csatSurveys /\ s \in csatEntries /\ csatRun[s].by = "customer"
        BY <1>1, <2>1 DEF SatisfactionInv, SubmissionStands
    <2>4. Cardinality(CostSurveys') <= csatFaults'
        <3>1. CostSurveys' \subseteq CostSurveys
            BY <2>1, <2>2 DEF CostSurveys, InFlight
        <3>2. QED
            BY <3>1, <2>1, <1>1, NoSurveyLost
    <2>5. \A r \in Submissions : SubmissionStands(r)'
        BY <1>1, <2>1, <2>2, <2>3 DEF SatisfactionInv, SubmissionStands
    <2>6. \A r \in csatSurveys' : SurveyStands(r)'
        BY <1>1, <1>2, <2>1, <2>2 DEF SatisfactionInv, SurveyStands, SatisfactionTypeOK
    <2>7. SatisfactionTypeOK'
        BY <1>2, <2>1, <2>2 DEF SatisfactionTypeOK, SubmissionPcs
    <2>8. QED
        BY <1>1, <2>1, <2>3, <2>4, <2>5, <2>6, <2>7 DEF SatisfactionInv
<1>11. ASSUME NEW s \in Submissions, SubmissionFails(s) PROVE SatisfactionInv'
    <2>1. /\ csatFaults < MaxCsatFaults /\ csatFaults' = csatFaults + 1
          /\ csatRun[s].pc \in {"look", "create", "history", "publish"} /\ MovesTo(s, "failed")
          /\ UNCHANGED <<csatDone, csatSurveys, csatEntries, csatEvents, csatMoves>>
        BY <1>11 DEF SubmissionFails
    <2>2. /\ csatRun' \in [Submissions -> [by : {"customer", "other"}, pc : SubmissionPcs]]
          /\ \A r \in Submissions : /\ csatRun'[r].by = csatRun[r].by
                                    /\ csatRun'[r].pc = IF r = s THEN "failed" ELSE csatRun[r].pc
        BY <1>1, <2>1, SubmissionMoves DEF SubmissionPcs
    <2>3. Cardinality(CostSurveys') <= csatFaults'
        <3>1. CostSurveys' \subseteq CostSurveys \cup {s}
            BY <2>1, <2>2 DEF CostSurveys, InFlight, SatisfactionInv, SatisfactionTypeOK
        <3>2. /\ Cardinality(CostSurveys') \in Nat
              /\ Cardinality(CostSurveys') <= Cardinality(CostSurveys) + 1
            BY <3>1, <1>1, CostSurveysFinite, OneMoreCounted
        <3>3. QED
            BY <3>2, <2>1, <1>1, <1>2, CostSurveysFinite, SatisfactionAssumption DEF SatisfactionInv
    <2>4. \A r \in Submissions : SubmissionStands(r)'
        BY <1>1, <2>1, <2>2 DEF SatisfactionInv, SubmissionStands
    <2>5. \A r \in csatSurveys' : SurveyStands(r)'
        BY <1>1, <1>2, <2>1, <2>2 DEF SatisfactionInv, SurveyStands, SatisfactionTypeOK
    <2>6. SatisfactionTypeOK'
        BY <1>2, <2>1, <2>2, SatisfactionAssumption DEF SatisfactionTypeOK, SubmissionPcs
    <2>7. QED
        BY <1>1, <2>1, <2>3, <2>4, <2>5, <2>6 DEF SatisfactionInv
<1>12. QED
    BY <1>1, <1>3, <1>4, <1>6, <1>7, <1>8, <1>9, <1>10, <1>11 DEF SatisfactionNext

LEMMA SatisfactionInitially == SatisfactionInit => SatisfactionInv
<1>1. SUFFICES ASSUME SatisfactionInit PROVE SatisfactionInv
    OBVIOUS
<1>2. \A s \in Submissions : csatRun[s].pc = "new"
    BY <1>1 DEF SatisfactionInit
<1>3. SatisfactionTypeOK
    BY <1>1, SatisfactionAssumption DEF SatisfactionInit, SatisfactionTypeOK
<1>4. CostSurveys = {} /\ csatSurveys = {} /\ csatEntries = {} /\ csatEvents = {} /\ csatFaults = 0
    BY <1>1 DEF SatisfactionInit, CostSurveys
<1>5. Cardinality(CostSurveys) = 0
    BY <1>4, FS_EmptySet
<1>6. QED
    BY <1>2, <1>3, <1>4, <1>5 DEF SatisfactionInv, SubmissionStands, SurveyStands

LEMMA SatisfactionTells == SatisfactionInv => SurveyIsTold
<1>1. SUFFICES ASSUME SatisfactionInv PROVE SurveyIsTold
    OBVIOUS
<1>2. Cardinality(csatSurveys) <= 1
    <2>1. CASE csatSurveys = {}
        BY <2>1, FS_EmptySet
    <2>2. CASE csatSurveys # {}
        <3>1. PICK s : csatSurveys = {s}
            BY <1>1, <2>2 DEF SatisfactionInv
        <3>2. Cardinality({s}) = 1
            BY FS_Singleton
        <3>3. QED
            BY <3>1, <3>2
    <2>3. QED
        BY <2>1, <2>2
<1>3. \A s \in csatSurveys : csatRun[s].by = "customer" /\ csatRun[s].pc # "refused"
    BY <1>1 DEF SatisfactionInv, SurveyStands
<1>4. \A s \in Submissions : StandsAt(s, "accepted") => s \in csatEvents
    BY <1>1 DEF SatisfactionInv, SubmissionStands, StandsAt
<1>5. QED
    BY <1>1, <1>2, <1>3, <1>4 DEF SatisfactionInv, SurveyIsTold, CostSurveys

THEOREM SurveyIsToldOnce == SatisfactionSpec => []SurveyIsTold
<1>1. QED
    BY SatisfactionInitially, SatisfactionStep, SatisfactionTells, PTL DEF SatisfactionSpec

-----------------------------------------------------------------------------
(* The priority *)

LastEntry == prioEntries[Len(prioEntries)]

\* Two requests that are under way at once have overlapped.
OverlapsSeen == \A r, q \in PriorityBusy : r # q => r \in prioOverlapped

\* A value that is about to be written, or was, is a change of its kind.
Justified(kind, old, new) ==
    /\ kind = "recalculate" => old < new
    /\ kind = "force" => new >= prioText
    /\ kind = "automation" => old # new

ValuesJustified ==
    \A r \in PriorityRequests :
        prioRequest[r].pc \in {"write", "history"}
            => Justified(prioRequest[r].kind, prioRequest[r].seen, prioRequest[r].value)

EntriesJustified ==
    \A i \in 1..Len(prioEntries) :
        Justified(prioRequest[prioEntries[i].by].kind, prioEntries[i].old, prioEntries[i].new)

\* What a request that runs alone knows of the row, and the row of the last entry.
ReadersAgree ==
    \A r \in PriorityBusy \ prioOverlapped :
        /\ prioEntries # <<>> => prioRequest[r].seen = LastEntry.new \/ LastEntry.by \in prioOverlapped
        /\ prioRequest[r].pc \in {"calculate", "write"} => prioRow = prioRequest[r].seen
        /\ prioRequest[r].pc = "history" => prioRow = prioRequest[r].value

RowTold ==
    prioEntries # <<>> /\ (\A r \in PriorityRequests : prioRequest[r].pc # "history")
        => prioRow = LastEntry.new \/ LastEntry.by \in prioOverlapped

\* Every entry continues the one before it.
EntriesContinue ==
    \A i \in 2..Len(prioEntries) :
        \/ prioEntries[i].old = prioEntries[i - 1].new
        \/ prioEntries[i].by \in prioOverlapped \/ prioEntries[i - 1].by \in prioOverlapped

PriorityInv ==
    /\ PriorityTypeOK
    /\ OverlapsSeen /\ ValuesJustified /\ EntriesJustified
    /\ prioFaults = 0 => ReadersAgree /\ RowTold /\ EntriesContinue

LEMMA SuggestionBounds ==
    ASSUME prioText \in TextLevels, NEW current \in Level, NEW category \in CategoryLevels
    PROVE  /\ Suggested(current, category) \in Level
           /\ Suggested(current, category) >= current
           /\ Suggested(current, category) >= prioText
<1> DEFINE S == {current, prioText, category}
<1>1. current \in 1..4 /\ prioText \in 1..4 /\ category \in 1..4
    BY DEF Level, TextLevels, CategoryLevels
<1>2. \E x \in S : \A y \in S : x >= y
    <2>1. CASE current >= prioText /\ current >= category
        BY <1>1, <2>1
    <2>2. CASE prioText >= current /\ prioText >= category
        BY <1>1, <2>2
    <2>3. CASE category >= current /\ category >= prioText
        BY <1>1, <2>3
    <2>4. QED
        BY <1>1, <2>1, <2>2, <2>3
<1>3. Max(S) \in S /\ \A y \in S : Max(S) >= y
    BY <1>2 DEF Max
<1>4. QED
    BY <1>1, <1>3 DEF Suggested, Level

\* One request goes on and the others stay.
PriorityGoes(r, pc, seen, value) ==
    /\ r \in PriorityRequests
    /\ prioRequest'[r].kind = prioRequest[r].kind /\ prioRequest'[r].pc = pc
    /\ prioRequest'[r].seen = seen /\ prioRequest'[r].value = value
    /\ \A q \in PriorityRequests : q # r => prioRequest'[q] = prioRequest[q]
    /\ prioRequest' \in [PriorityRequests ->
          [kind : {"recalculate", "force", "automation"},
           pc : {"new", "calculate", "write", "history", "done", "failed"},
           seen : Level, value : Level]]

LEMMA EntryTyped ==
    ASSUME PriorityTypeOK, NEW i \in 1..Len(prioEntries)
    PROVE  prioEntries[i] \in PriorityEntry /\ prioEntries[i].by \in PriorityRequests
<1>1. prioEntries[i] \in PriorityEntry
    BY DEF PriorityTypeOK
<1>2. QED
    BY <1>1 DEF PriorityEntry

LEMMA PriorityInitially == PriorityInit => PriorityInv
<1>1. SUFFICES ASSUME PriorityInit PROVE PriorityInv
    OBVIOUS
<1>2. PriorityTypeOK
    <2>1. prioRequest \in [PriorityRequests -> [kind : {"recalculate", "force", "automation"},
              pc : {"new", "calculate", "write", "history", "done", "failed"},
              seen : Level, value : Level]]
        BY <1>1 DEF PriorityInit, Level
    <2>2. QED
        BY <1>1, <2>1, PriorityAssumption DEF PriorityInit, PriorityTypeOK, Level
<1>3. \A r \in PriorityRequests : prioRequest[r].pc = "new"
    BY <1>1 DEF PriorityInit
<1>4. prioEntries = <<>> /\ Len(prioEntries) = 0
    BY <1>1 DEF PriorityInit
<1>5. QED
    BY <1>2, <1>3, <1>4 DEF PriorityInv, OverlapsSeen, ValuesJustified, EntriesJustified, ReadersAgree,
       RowTold, EntriesContinue, PriorityBusy

LEMMA ReadKeeps ==
    ASSUME PriorityInv, NEW r \in PriorityRequests, ReadTicket(r)
    PROVE  PriorityInv'
<1>1. /\ prioRequest[r].pc = "new" /\ PriorityGoes(r, "calculate", prioRow, prioRequest[r].value)
      /\ prioRow \in Level
    BY DEF ReadTicket, PriorityGoes, PriorityInv, PriorityTypeOK
<1>2. UNCHANGED <<prioRow, prioText, prioEntries, prioFaults>>
    BY DEF ReadTicket
<1>3. /\ PriorityBusy' = PriorityBusy \cup {r} /\ r \notin PriorityBusy
      /\ PriorityBusy \subseteq PriorityRequests
    BY <1>1 DEF PriorityGoes, PriorityBusy
<1>4. /\ prioOverlapped \subseteq prioOverlapped'
      /\ r \in prioOverlapped' \/ PriorityBusy = {}
      /\ \A q \in PriorityBusy : q \in prioOverlapped'
      /\ prioOverlapped' \subseteq PriorityRequests
    BY <1>3 DEF ReadTicket, PriorityInv, PriorityTypeOK
<1>5. PriorityTypeOK'
    BY <1>1, <1>2, <1>4 DEF PriorityInv, PriorityTypeOK, PriorityGoes
<1>6. OverlapsSeen' /\ ValuesJustified' /\ EntriesJustified'
    <2>1. OverlapsSeen'
        BY <1>3, <1>4 DEF OverlapsSeen
    <2>2. ValuesJustified'
        BY <1>1, <1>2 DEF PriorityInv, ValuesJustified, Justified, PriorityGoes
    <2>3. \A i \in 1..Len(prioEntries) : prioRequest'[prioEntries[i].by].kind = prioRequest[prioEntries[i].by].kind
        BY <1>1, EntryTyped DEF PriorityGoes, PriorityInv
    <2>4. EntriesJustified'
        BY <1>2, <2>3 DEF PriorityInv, EntriesJustified, Justified
    <2>5. QED
        BY <2>1, <2>2, <2>4
<1>7. ASSUME prioFaults' = 0 PROVE ReadersAgree' /\ RowTold' /\ EntriesContinue'
    <2>1. ReadersAgree /\ RowTold /\ EntriesContinue
        BY <1>2, <1>7 DEF PriorityInv
    <2>2. LastEntry' = LastEntry
        BY <1>2 DEF LastEntry
    <2>3. RowTold'
        BY <1>1, <1>2, <1>4, <2>1, <2>2 DEF RowTold, PriorityGoes
    <2>4. ASSUME NEW q \in PriorityBusy', q \notin prioOverlapped'
          PROVE  /\ q = r /\ PriorityBusy = {}
        BY <1>3, <1>4, <2>4
    <2>5. PriorityBusy = {} /\ RowTold /\ prioEntries # <<>>
            => prioRow = LastEntry.new \/ LastEntry.by \in prioOverlapped
        BY DEF RowTold, PriorityBusy
    <2>6. ReadersAgree'
        BY <1>1, <1>2, <1>4, <2>1, <2>2, <2>4, <2>5 DEF ReadersAgree, PriorityGoes
    <2>7. EntriesContinue'
        BY <1>2, <1>4, <2>1 DEF EntriesContinue
    <2>8. QED
        BY <2>3, <2>6, <2>7
<1>8. QED
    BY <1>5, <1>6, <1>7 DEF PriorityInv

LEMMA CalculationKeeps ==
    ASSUME PriorityInv, NEW r \in PriorityRequests, CalculatePriority(r) \/ AutomationPriority(r)
    PROVE  PriorityInv'
<1>1. PICK value \in Level, pc \in {"write", "done"} :
          /\ prioRequest[r].pc = "calculate" /\ PriorityGoes(r, pc, prioRequest[r].seen, value)
          /\ pc = "write" => Justified(prioRequest[r].kind, prioRequest[r].seen, value)
    <2>1. prioRequest[r] \in [kind : {"recalculate", "force", "automation"},
              pc : {"new", "calculate", "write", "history", "done", "failed"},
              seen : Level, value : Level] /\ 1 \in Level
        BY DEF PriorityInv, PriorityTypeOK, Level
    <2>2. CASE CalculatePriority(r)
        <3>1. PICK category \in CategoryLevels :
                LET value == Suggested(IF prioRequest[r].kind = "force" THEN 1 ELSE prioRequest[r].seen, category)
                IN  prioRequest' = [prioRequest EXCEPT ![r].value = value,
                      ![r].pc = IF prioRequest[r].kind = "recalculate" /\ value = prioRequest[r].seen
                                THEN "done" ELSE "write"]
            BY <2>2 DEF CalculatePriority
        <3> DEFINE value == Suggested(IF prioRequest[r].kind = "force" THEN 1 ELSE prioRequest[r].seen, category)
                   pc == IF prioRequest[r].kind = "recalculate" /\ value = prioRequest[r].seen
                         THEN "done" ELSE "write"
        <3>2. /\ value \in Level /\ value >= prioText
              /\ prioRequest[r].kind # "force" => value >= prioRequest[r].seen
            BY <2>1, SuggestionBounds DEF PriorityInv, PriorityTypeOK
        <3>3. prioRequest' = [prioRequest EXCEPT ![r].value = value, ![r].pc = pc]
            BY <3>1
        <3>4. prioRequest[r].pc = "calculate" /\ prioRequest[r].kind # "automation" /\ pc \in {"write", "done"}
            BY <2>2 DEF CalculatePriority
        <3>5. pc = "write" => Justified(prioRequest[r].kind, prioRequest[r].seen, value)
            BY <2>1, <3>2, <3>4 DEF Justified, Level
        <3> HIDE DEF value, pc
        <3>6. PriorityGoes(r, pc, prioRequest[r].seen, value)
            BY <2>1, <3>2, <3>3, <3>4 DEF PriorityGoes, PriorityInv, PriorityTypeOK
        <3>7. QED
            BY <3>2, <3>4, <3>5, <3>6
    <2>3. CASE AutomationPriority(r)
        <3>1. PICK value \in Level :
                prioRequest' = [prioRequest EXCEPT ![r].value = value,
                                  ![r].pc = IF value = prioRequest[r].seen THEN "done" ELSE "write"]
            BY <2>3 DEF AutomationPriority
        <3> DEFINE pc == IF value = prioRequest[r].seen THEN "done" ELSE "write"
        <3>2. PriorityGoes(r, pc, prioRequest[r].seen, value)
            BY <2>1, <3>1 DEF PriorityGoes, PriorityInv, PriorityTypeOK
        <3>3. pc = "write" => Justified(prioRequest[r].kind, prioRequest[r].seen, value)
            BY <2>3 DEF Justified, AutomationPriority
        <3>4. prioRequest[r].pc = "calculate" /\ pc \in {"write", "done"}
            BY <2>3 DEF AutomationPriority
        <3>5. QED
            BY <3>2, <3>3, <3>4
    <2>4. QED
        BY <2>2, <2>3
<1>2. UNCHANGED <<prioRow, prioText, prioEntries, prioOverlapped, prioFaults>>
    BY DEF CalculatePriority, AutomationPriority
<1>3. PriorityBusy' \subseteq PriorityBusy /\ r \in PriorityBusy
    BY <1>1 DEF PriorityGoes, PriorityBusy
<1>4. PriorityTypeOK'
    BY <1>1, <1>2 DEF PriorityInv, PriorityTypeOK, PriorityGoes
<1>5. OverlapsSeen' /\ ValuesJustified' /\ EntriesJustified'
    <2>1. OverlapsSeen'
        BY <1>2, <1>3 DEF OverlapsSeen, PriorityInv
    <2>2. ValuesJustified'
        BY <1>1, <1>2 DEF PriorityInv, ValuesJustified, Justified, PriorityGoes
    <2>3. \A i \in 1..Len(prioEntries) : prioRequest'[prioEntries[i].by].kind = prioRequest[prioEntries[i].by].kind
        BY <1>1, EntryTyped DEF PriorityGoes, PriorityInv
    <2>4. EntriesJustified'
        BY <1>2, <2>3 DEF PriorityInv, EntriesJustified, Justified
    <2>5. QED
        BY <2>1, <2>2, <2>4
<1>6. ASSUME prioFaults' = 0 PROVE ReadersAgree' /\ RowTold' /\ EntriesContinue'
    <2>1. ReadersAgree /\ RowTold /\ EntriesContinue
        BY <1>2, <1>6 DEF PriorityInv
    <2>2. LastEntry' = LastEntry
        BY <1>2 DEF LastEntry
    <2>3. RowTold'
        BY <1>1, <1>2, <2>1, <2>2 DEF RowTold, PriorityGoes
    <2>4. ReadersAgree'
        BY <1>1, <1>2, <1>3, <2>1, <2>2 DEF ReadersAgree, PriorityGoes, PriorityBusy
    <2>5. EntriesContinue'
        BY <1>2, <2>1 DEF EntriesContinue
    <2>6. QED
        BY <2>3, <2>4, <2>5
<1>7. QED
    BY <1>4, <1>5, <1>6 DEF PriorityInv

LEMMA UpdateKeeps ==
    ASSUME PriorityInv, NEW r \in PriorityRequests, UpdatePriority(r)
    PROVE  PriorityInv'
<1>1. /\ prioRequest[r].pc = "write"
      /\ PriorityGoes(r, "history", prioRequest[r].seen, prioRequest[r].value)
      /\ prioRow' = prioRequest[r].value /\ prioRow' \in Level
    BY DEF UpdatePriority, PriorityGoes, PriorityInv, PriorityTypeOK
<1>2. UNCHANGED <<prioText, prioEntries, prioOverlapped, prioFaults>>
    BY DEF UpdatePriority
<1>3. PriorityBusy' = PriorityBusy /\ r \in PriorityBusy
    BY <1>1 DEF PriorityGoes, PriorityBusy
<1>4. PriorityTypeOK'
    BY <1>1, <1>2 DEF PriorityInv, PriorityTypeOK, PriorityGoes
<1>5. OverlapsSeen' /\ ValuesJustified' /\ EntriesJustified'
    <2>1. OverlapsSeen'
        BY <1>2, <1>3 DEF OverlapsSeen, PriorityInv
    <2>2. ValuesJustified'
        BY <1>1, <1>2 DEF PriorityInv, ValuesJustified, Justified, PriorityGoes
    <2>3. \A i \in 1..Len(prioEntries) : prioRequest'[prioEntries[i].by].kind = prioRequest[prioEntries[i].by].kind
        BY <1>1, EntryTyped DEF PriorityGoes, PriorityInv
    <2>4. EntriesJustified'
        BY <1>2, <2>3 DEF PriorityInv, EntriesJustified, Justified
    <2>5. QED
        BY <2>1, <2>2, <2>4
<1>6. ASSUME prioFaults' = 0 PROVE ReadersAgree' /\ RowTold' /\ EntriesContinue'
    <2>1. ReadersAgree /\ RowTold /\ EntriesContinue
        BY <1>2, <1>6 DEF PriorityInv
    <2>2. LastEntry' = LastEntry
        BY <1>2 DEF LastEntry
    <2>3. RowTold'
        BY <1>1 DEF RowTold, PriorityGoes
    <2>4. ASSUME NEW q \in PriorityBusy', q \notin prioOverlapped' PROVE q = r
        BY <1>2, <1>3, <2>4 DEF OverlapsSeen, PriorityInv
    <2>5. ReadersAgree'
        BY <1>1, <1>2, <1>3, <2>1, <2>2, <2>4 DEF ReadersAgree, PriorityGoes
    <2>6. EntriesContinue'
        BY <1>2, <2>1 DEF EntriesContinue
    <2>7. QED
        BY <2>3, <2>5, <2>6
<1>7. QED
    BY <1>4, <1>5, <1>6 DEF PriorityInv

LEMMA RecordPriorityKeeps ==
    ASSUME PriorityInv, NEW r \in PriorityRequests, RecordPriority(r)
    PROVE  PriorityInv'
<1> DEFINE entry == [by |-> r, old |-> prioRequest[r].seen, new |-> prioRequest[r].value]
           n == Len(prioEntries)
<1>1. /\ prioRequest[r].pc = "history"
      /\ PriorityGoes(r, "done", prioRequest[r].seen, prioRequest[r].value)
      /\ prioEntries' = Append(prioEntries, entry)
      /\ entry \in PriorityEntry
    BY DEF RecordPriority, PriorityGoes, PriorityInv, PriorityTypeOK, PriorityEntry
<1>2. UNCHANGED <<prioRow, prioText, prioOverlapped, prioFaults>>
    BY DEF RecordPriority
<1>3. PriorityBusy' = PriorityBusy \ {r} /\ r \in PriorityBusy
    BY <1>1 DEF PriorityGoes, PriorityBusy
<1>4. /\ prioEntries \in Seq(PriorityEntry) /\ n \in Nat
      /\ prioEntries' \in Seq(PriorityEntry) /\ Len(prioEntries') = n + 1
      /\ prioEntries'[n + 1] = entry /\ \A i \in 1..n : prioEntries'[i] = prioEntries[i]
      /\ prioEntries' # <<>> /\ (prioEntries # <<>> => n > 0)
    BY <1>1 DEF PriorityInv, PriorityTypeOK
<1>5. PriorityTypeOK'
    BY <1>1, <1>2, <1>4 DEF PriorityInv, PriorityTypeOK, PriorityGoes
<1>6. OverlapsSeen' /\ ValuesJustified' /\ EntriesJustified'
    <2>1. OverlapsSeen'
        BY <1>2, <1>3 DEF OverlapsSeen, PriorityInv
    <2>2. ValuesJustified'
        BY <1>1, <1>2 DEF PriorityInv, ValuesJustified, Justified, PriorityGoes
    <2>3. ASSUME NEW i \in 1..(n + 1)
          PROVE  (Justified(prioRequest[prioEntries[i].by].kind, prioEntries[i].old, prioEntries[i].new))'
        <3>1. prioRequest'[prioEntries'[i].by].kind = prioRequest[prioEntries'[i].by].kind
            <4>1. prioEntries'[i] \in PriorityEntry
                BY <1>4
            <4>2. prioEntries'[i].by \in PriorityRequests
                BY <4>1 DEF PriorityEntry
            <4>3. QED
                BY <1>1, <4>2 DEF PriorityGoes
        <3>2. CASE i \in 1..n
            BY <1>2, <1>4, <3>1, <3>2 DEF PriorityInv, EntriesJustified, Justified
        <3>3. CASE i = n + 1
            <4>1. Justified(prioRequest[r].kind, entry.old, entry.new)
                BY <1>1 DEF PriorityInv, ValuesJustified
            <4>2. QED
                BY <1>1, <1>2, <1>4, <3>1, <3>3, <4>1 DEF Justified
        <3>4. QED
            BY <1>4, <3>2, <3>3
    <2>4. EntriesJustified'
        BY <1>4, <2>3 DEF EntriesJustified
    <2>5. QED
        BY <2>1, <2>2, <2>4
<1>7. ASSUME prioFaults' = 0 PROVE ReadersAgree' /\ RowTold' /\ EntriesContinue'
    <2>1. ReadersAgree /\ RowTold /\ EntriesContinue
        BY <1>2, <1>7 DEF PriorityInv
    <2>2. LastEntry' = entry
        BY <1>4 DEF LastEntry
    <2>3. RowTold'
        BY <1>1, <1>2, <1>3, <2>1, <2>2 DEF RowTold, ReadersAgree
    <2>4. PriorityBusy' \ prioOverlapped' = {}
        BY <1>2, <1>3 DEF OverlapsSeen, PriorityInv
    <2>5. ReadersAgree'
        BY <2>4 DEF ReadersAgree
    <2>6. ASSUME NEW i \in 2..(n + 1)
          PROVE  \/ prioEntries'[i].old = prioEntries'[i - 1].new
                 \/ prioEntries'[i].by \in prioOverlapped \/ prioEntries'[i - 1].by \in prioOverlapped
        <3>1. CASE i \in 2..n
            <4>1. i \in 1..n /\ i - 1 \in 1..n
                BY <1>4, <3>1
            <4>2. QED
                BY <1>4, <2>1, <3>1, <4>1 DEF EntriesContinue
        <3>2. CASE i = n + 1
            <4>1. n \in 1..n /\ i - 1 = n /\ prioEntries # <<>>
                BY <1>4, <3>2
            <4>2. prioEntries'[i] = entry /\ prioEntries'[i - 1] = LastEntry
                BY <1>4, <3>2, <4>1 DEF LastEntry
            <4>3. QED
                BY <1>1, <1>3, <2>1, <4>1, <4>2 DEF ReadersAgree
        <3>3. QED
            BY <1>4, <3>1, <3>2
    <2>7. EntriesContinue'
        BY <1>2, <1>4, <2>6 DEF EntriesContinue
    <2>8. QED
        BY <2>3, <2>5, <2>7
<1>8. QED
    BY <1>5, <1>6, <1>7 DEF PriorityInv

LEMMA PriorityFaultKeeps ==
    ASSUME PriorityInv, NEW r \in PriorityRequests, PriorityRequestFails(r)
    PROVE  PriorityInv'
<1>1. PriorityGoes(r, "failed", prioRequest[r].seen, prioRequest[r].value)
    BY DEF PriorityRequestFails, PriorityGoes, PriorityInv, PriorityTypeOK
<1>2. UNCHANGED <<prioRow, prioText, prioEntries, prioOverlapped>>
    BY DEF PriorityRequestFails
<1>3. prioFaults' \in 0..MaxPriorityFaults /\ prioFaults' # 0
    BY PriorityAssumption DEF PriorityRequestFails, PriorityInv, PriorityTypeOK
<1>4. PriorityBusy' \subseteq PriorityBusy
    BY <1>1 DEF PriorityGoes, PriorityBusy
<1>5. PriorityTypeOK'
    BY <1>1, <1>2, <1>3 DEF PriorityInv, PriorityTypeOK, PriorityGoes
<1>6. OverlapsSeen' /\ ValuesJustified' /\ EntriesJustified'
    <2>1. OverlapsSeen'
        BY <1>2, <1>4 DEF OverlapsSeen, PriorityInv
    <2>2. ValuesJustified'
        BY <1>1, <1>2 DEF PriorityInv, ValuesJustified, Justified, PriorityGoes
    <2>3. \A i \in 1..Len(prioEntries) : prioRequest'[prioEntries[i].by].kind = prioRequest[prioEntries[i].by].kind
        BY <1>1, EntryTyped DEF PriorityGoes, PriorityInv
    <2>4. EntriesJustified'
        BY <1>2, <2>3 DEF PriorityInv, EntriesJustified, Justified
    <2>5. QED
        BY <2>1, <2>2, <2>4
<1>7. QED
    BY <1>3, <1>5, <1>6 DEF PriorityInv

LEMMA PriorityStep == PriorityInv /\ [PriorityNext]_prioVars => PriorityInv'
<1>1. SUFFICES ASSUME PriorityInv, [PriorityNext]_prioVars PROVE PriorityInv'
    OBVIOUS
<1>2. CASE UNCHANGED prioVars
    BY <1>1, <1>2 DEF prioVars, PriorityInv, PriorityTypeOK, OverlapsSeen, ValuesJustified, Justified,
       EntriesJustified, ReadersAgree, RowTold, EntriesContinue, PriorityBusy, LastEntry
<1>3. QED
    BY <1>1, <1>2, ReadKeeps, CalculationKeeps, UpdateKeeps, RecordPriorityKeeps, PriorityFaultKeeps DEF PriorityNext

LEMMA PriorityTells == PriorityInv => PriorityExplained
<1>1. SUFFICES ASSUME PriorityInv PROVE PriorityExplained
    OBVIOUS
<1>2. /\ prioEntries \in Seq(PriorityEntry) /\ DOMAIN prioEntries = 1..Len(prioEntries)
      /\ prioFaults \in Nat /\ Len(prioEntries) \in Nat
    BY <1>1, PriorityAssumption DEF PriorityInv, PriorityTypeOK
<1>3. ASSUME NEW i \in DOMAIN prioEntries
      PROVE  LET entry == prioEntries[i] IN
             CASE prioRequest[entry.by].kind = "recalculate" -> entry.old < entry.new
               [] prioRequest[entry.by].kind = "force" -> entry.new >= prioText
               [] OTHER -> entry.old # entry.new
    <2>1. prioEntries[i].by \in PriorityRequests
        BY <1>1, <1>2, EntryTyped DEF PriorityInv
    <2>2. prioRequest[prioEntries[i].by].kind \in {"recalculate", "force", "automation"}
        BY <1>1, <2>1 DEF PriorityInv, PriorityTypeOK
    <2>3. Justified(prioRequest[prioEntries[i].by].kind, prioEntries[i].old, prioEntries[i].new)
        BY <1>1, <1>2 DEF PriorityInv, EntriesJustified
    <2>4. QED
        BY <2>2, <2>3 DEF Justified
<1>4. \A i \in Breaks : \/ {prioEntries[i].by, prioEntries[i - 1].by} \cap prioOverlapped # {}
                        \/ prioFaults > 0
    BY <1>1, <1>2 DEF Breaks, PriorityInv, EntriesContinue
<1>5. PriorityBusy = {} /\ prioOverlapped = {} /\ prioFaults = 0 /\ prioEntries # <<>>
          => prioRow = prioEntries[Len(prioEntries)].new
    BY <1>1 DEF PriorityInv, RowTold, PriorityBusy, LastEntry
<1>6. QED
    BY <1>3, <1>4, <1>5 DEF PriorityExplained

\* The entries of the priority continue each other and end with the row's value
\* unless requests overlapped or one failed, and a recalculation only raises what
\* it read (TicketPriority.PriorityExplained).
THEOREM PriorityIsExplained == PrioritySpec => []PriorityExplained
<1>1. QED
    BY PriorityInitially, PriorityStep, PriorityTells, PTL DEF PrioritySpec

-----------------------------------------------------------------------------
(* Attachments and comments *)

UploadSteps == {<<"file", "row", "history", "notify">>, <<"row", "history", "notify">>,
                <<"history", "notify">>, <<"notify">>}

DeletionSteps == {<<"row", "file", "history">>, <<"file", "history">>, <<"history">>}

CommentSteps(author) ==
    IF author.role = "STAFF"
    THEN {<<"row", "history", "notify">>, <<"history", "notify">>, <<"notify">>}
    ELSE {<<"row", "notify">>, <<"notify">>}

\* A request that is under way has its steps before it, and no other has any.
ThreadPlace(r, steps) ==
    IF threadRun[r].pc = "busy" THEN threadRun[r].left \in steps ELSE threadRun[r].left = <<>>

DeletionsOf(u) == {d \in Deletions : threadRun[d].target = u}

BeforeRow(u) ==
    \/ threadRun[u].pc \in {"new", "refused"}
    \/ threadRun[u].left \in {<<"file", "row", "history", "notify">>, <<"row", "history", "notify">>}

\* Until an upload's row is there no deletion has found it, and its file only
\* waits for the row.
UploadPlaced(u) ==
    /\ BeforeRow(u) =>
          /\ u \notin threadRows /\ u \notin threadAdded
          /\ \A d \in DeletionsOf(u) : threadRun[d].pc \in {"new", "refused"}
          /\ u \in threadFiles <=> threadRun[u].left = <<"row", "history", "notify">>
    /\ threadRun[u].left = <<"history", "notify">> => u \notin threadAdded
    /\ threadRun[u].left = <<"notify">> => u \in threadAdded

\* A deletion that is past its first step has left no row; its entry is its last.
DeletionPlaced(d) ==
    /\ threadRun[d].left \in {<<"file", "history">>, <<"history">>} \/ d \in threadRemoved
          => threadRun[d].target \notin threadRows
    /\ d \in threadRemoved => threadRun[d].pc = "done"

\* A file that nobody will give a row, or remove any more.
Orphan(u) ==
    /\ u \in threadFiles /\ u \notin threadRows
    /\ threadRun[u].left # <<"row", "history", "notify">>
    /\ \A d \in DeletionsOf(u) :
          threadRun[d].left \notin {<<"row", "file", "history">>, <<"file", "history">>}

\* A row whose entry nobody will write.
Untold(u) == u \in threadRows /\ u \notin threadAdded /\ threadRun[u].pc # "busy"

\* A file that is gone, while the history tells, or will tell, of its upload only.
Silent(u) ==
    /\ u \notin threadFiles
    /\ u \in threadAdded \/ threadRun[u].left = <<"history", "notify">>
    /\ \A d \in DeletionsOf(u) : d \notin threadRemoved /\ threadRun[d].pc # "busy"

CostUploads == {u \in Uploads : Orphan(u) \/ Untold(u) \/ Silent(u)}

CommentPlaced(c) ==
    /\ ThreadPlace(c, CommentSteps(threadRun[c].author))
    /\ threadComments[c] \in {"none", ResolveVisibility(threadRun[c].author)}
    /\ threadRun[c].author.role = "CUSTOMER" /\ threadRun[c].author.asked = "INTERNAL"
          => threadRun[c].pc \in {"new", "refused"} /\ threadComments[c] = "none"
    /\ c \in threadAdded => threadRun[c].author.role = "STAFF"
    /\ threadRun[c].author.role = "STAFF" /\ threadRun[c].left = <<"notify">> => c \in threadAdded
    /\ threadRun[c].author.role = "STAFF" /\ threadRun[c].left = <<"row", "history", "notify">>
          => threadComments[c] = "none"
    /\ threadRun[c].pc = "new" => threadComments[c] = "none"

CostComments ==
    {c \in Comments : /\ threadComments[c] # "none" /\ threadRun[c].author.role = "STAFF"
                      /\ c \notin threadAdded /\ threadRun[c].pc # "busy"}

AttachmentsPlaced ==
    /\ \A u \in Uploads : /\ ThreadPlace(u, UploadSteps) /\ UploadPlaced(u)
                          /\ threadRun[u].author = StaffAuthor /\ threadRun[u].target = u
    /\ \A d \in Deletions : /\ ThreadPlace(d, DeletionSteps) /\ DeletionPlaced(d)
                            /\ threadRun[d].target \in Uploads
    /\ threadRows \subseteq threadFiles
    /\ threadAdded \cap Deletions = {}

CommentsPlaced == \A c \in Comments : CommentPlaced(c)

ToldAfterEntry ==
    \A r \in threadTold : threadRun[r].author.role = "STAFF" => r \in threadAdded

ThreadInv ==
    /\ ThreadTypeOK
    /\ AttachmentsPlaced /\ CommentsPlaced /\ ToldAfterEntry
    /\ Cardinality(CostUploads) <= threadFaults
    /\ Cardinality(CostComments) <= threadFaults

ThreadSteps == {"file", "row", "history", "notify"}

\* Request r, and no other, is now at pc with these steps before it.
RequestGoes(r, pc, left) ==
    /\ threadRun' \in [ThreadRequests -> ThreadRun]
    /\ \A q \in ThreadRequests : q # r => threadRun'[q] = threadRun[q]
    /\ threadRun'[r].pc = pc /\ threadRun'[r].left = left
    /\ threadRun'[r].author = threadRun[r].author /\ threadRun'[r].target = threadRun[r].target

ThreadPcs == {"new", "busy", "done", "refused", "failed"}

\* The lists of steps that requests begin with and go on with.
LEMMA StepListsTyped ==
    /\ <<>> \in Seq(ThreadSteps) /\ <<"file", "row", "history", "notify">> \in Seq(ThreadSteps)
    /\ <<"row", "file", "history">> \in Seq(ThreadSteps) /\ <<"row", "history", "notify">> \in Seq(ThreadSteps)
    /\ <<"row", "notify">> \in Seq(ThreadSteps) /\ <<"history">> \in Seq(ThreadSteps)
BY DEF ThreadSteps

LEMMA RequestMoves ==
    ASSUME ThreadTypeOK, NEW r \in ThreadRequests, NEW pc \in ThreadPcs, NEW left \in Seq(ThreadSteps),
           threadRun' = [threadRun EXCEPT ![r].pc = pc, ![r].left = left]
    PROVE  RequestGoes(r, pc, left)
<1>1. threadRun \in [ThreadRequests -> ThreadRun]
    BY DEF ThreadTypeOK
<1>2. [threadRun[r] EXCEPT !.pc = pc, !.left = left] \in ThreadRun
    <2>1. threadRun[r] \in [author : ThreadAuthor, target : ThreadRequests,
                            left : Seq(ThreadSteps), pc : ThreadPcs]
        BY <1>1 DEF ThreadRun, ThreadPcs, ThreadSteps
    <2>2. [threadRun[r] EXCEPT !.pc = pc, !.left = left]
             \in [author : ThreadAuthor, target : ThreadRequests, left : Seq(ThreadSteps), pc : ThreadPcs]
        BY <2>1
    <2>3. QED
        BY <2>2 DEF ThreadRun, ThreadPcs, ThreadSteps
<1>3. threadRun' = [threadRun EXCEPT ![r] = [threadRun[r] EXCEPT !.pc = pc, !.left = left]]
    BY <1>1
<1>4. threadRun' \in [ThreadRequests -> ThreadRun]
    BY <1>1, <1>2, <1>3
<1>5. threadRun[r] \in ThreadRun
    BY <1>1
<1>6. QED
    BY <1>1, <1>3, <1>4, <1>5 DEF RequestGoes, ThreadRun

LEMMA RequestRefused ==
    ASSUME ThreadTypeOK, NEW r \in ThreadRequests, threadRun[r].left = <<>>,
           threadRun' = [threadRun EXCEPT ![r].pc = "refused"]
    PROVE  RequestGoes(r, "refused", <<>>)
<1>1. threadRun \in [ThreadRequests -> ThreadRun] /\ threadRun[r] \in ThreadRun
    BY DEF ThreadTypeOK
<1>2. [threadRun[r] EXCEPT !.pc = "refused"] \in ThreadRun
    BY <1>1 DEF ThreadRun
<1>3. threadRun' \in [ThreadRequests -> ThreadRun]
    BY <1>1, <1>2
<1>4. QED
    BY <1>1, <1>3 DEF RequestGoes, ThreadRun

\* A request does its next step.
LEMMA RequestDoes ==
    ASSUME ThreadTypeOK, NEW r \in ThreadRequests, NEW step, Does(r, step), NEW rest,
           threadRun[r].left # <<>> => Tail(threadRun[r].left) = rest, rest \in Seq(ThreadSteps)
    PROVE  RequestGoes(r, IF rest = <<>> THEN "done" ELSE threadRun[r].pc, rest)
<1>1. threadRun[r].pc \in ThreadPcs
    BY DEF ThreadTypeOK, ThreadRun, ThreadPcs
<1>2. threadRun' = [threadRun EXCEPT ![r].left = rest, ![r].pc = IF rest = <<>> THEN "done" ELSE @]
    BY DEF Does
<1>3. threadRun \in [ThreadRequests -> ThreadRun] /\ threadRun[r] \in ThreadRun
    BY DEF ThreadTypeOK
<1>4. threadRun' = [threadRun EXCEPT ![r].pc = IF rest = <<>> THEN "done" ELSE threadRun[r].pc,
                                     ![r].left = rest]
    BY <1>2, <1>3 DEF ThreadRun
<1>5. (IF rest = <<>> THEN "done" ELSE threadRun[r].pc) \in ThreadPcs
    BY <1>1 DEF ThreadPcs
<1>6. QED
    BY <1>4, <1>5, RequestMoves

\* What an upload, a deletion and a comment has before it when it does a step.
LEMMA UploadDoes ==
    ASSUME ThreadInv, NEW u \in Uploads, NEW step, Does(u, step)
    PROVE  /\ threadRun[u].pc = "busy"
           /\ \/ /\ step = "file" /\ threadRun[u].left = <<"file", "row", "history", "notify">>
                 /\ RequestGoes(u, "busy", <<"row", "history", "notify">>)
              \/ /\ step = "row" /\ threadRun[u].left = <<"row", "history", "notify">>
                 /\ RequestGoes(u, "busy", <<"history", "notify">>)
              \/ /\ step = "history" /\ threadRun[u].left = <<"history", "notify">>
                 /\ RequestGoes(u, "busy", <<"notify">>)
              \/ /\ step = "notify" /\ threadRun[u].left = <<"notify">>
                 /\ RequestGoes(u, "done", <<>>)
<1>1. /\ threadRun[u].pc = "busy" /\ threadRun[u].left \in UploadSteps
      /\ Head(threadRun[u].left) = step
      /\ u \in ThreadRequests /\ ThreadTypeOK
    BY DEF ThreadInv, AttachmentsPlaced, ThreadPlace, Does, ThreadRequests
<1>2. CASE threadRun[u].left = <<"file", "row", "history", "notify">>
    <2>1. step = "file" /\ Tail(threadRun[u].left) = <<"row", "history", "notify">>
        BY <1>1, <1>2
    <2>2. <<"row", "history", "notify">> \in Seq(ThreadSteps) /\ <<"row", "history", "notify">> # <<>>
        BY DEF ThreadSteps
    <2>3. QED
        BY <1>1, <1>2, <2>1, <2>2, RequestDoes
<1>3. CASE threadRun[u].left = <<"row", "history", "notify">>
    <2>1. step = "row" /\ Tail(threadRun[u].left) = <<"history", "notify">>
        BY <1>1, <1>3
    <2>2. <<"history", "notify">> \in Seq(ThreadSteps) /\ <<"history", "notify">> # <<>>
        BY DEF ThreadSteps
    <2>3. QED
        BY <1>1, <1>3, <2>1, <2>2, RequestDoes
<1>4. CASE threadRun[u].left = <<"history", "notify">>
    <2>1. step = "history" /\ Tail(threadRun[u].left) = <<"notify">>
        BY <1>1, <1>4
    <2>2. <<"notify">> \in Seq(ThreadSteps) /\ <<"notify">> # <<>>
        BY DEF ThreadSteps
    <2>3. QED
        BY <1>1, <1>4, <2>1, <2>2, RequestDoes
<1>5. CASE threadRun[u].left = <<"notify">>
    <2>1. step = "notify" /\ Tail(threadRun[u].left) = <<>>
        BY <1>1, <1>5
    <2>2. <<>> \in Seq(ThreadSteps)
        OBVIOUS
    <2>3. QED
        BY <1>1, <1>5, <2>1, <2>2, RequestDoes
<1>6. QED
    BY <1>1, <1>2, <1>3, <1>4, <1>5 DEF UploadSteps

LEMMA DeletionDoes ==
    ASSUME ThreadInv, NEW d \in Deletions, NEW step, Does(d, step)
    PROVE  /\ threadRun[d].pc = "busy"
           /\ \/ /\ step = "row" /\ threadRun[d].left = <<"row", "file", "history">>
                 /\ RequestGoes(d, "busy", <<"file", "history">>)
              \/ /\ step = "file" /\ threadRun[d].left = <<"file", "history">>
                 /\ RequestGoes(d, "busy", <<"history">>)
              \/ /\ step = "history" /\ threadRun[d].left = <<"history">>
                 /\ RequestGoes(d, "done", <<>>)
<1>1. /\ threadRun[d].pc = "busy" /\ threadRun[d].left \in DeletionSteps
      /\ Head(threadRun[d].left) = step
      /\ d \in ThreadRequests /\ ThreadTypeOK
    BY DEF ThreadInv, AttachmentsPlaced, ThreadPlace, Does, ThreadRequests
<1>2. CASE threadRun[d].left = <<"row", "file", "history">>
    <2>1. step = "row" /\ Tail(threadRun[d].left) = <<"file", "history">>
        BY <1>1, <1>2
    <2>2. <<"file", "history">> \in Seq(ThreadSteps) /\ <<"file", "history">> # <<>>
        BY DEF ThreadSteps
    <2>3. QED
        BY <1>1, <1>2, <2>1, <2>2, RequestDoes
<1>3. CASE threadRun[d].left = <<"file", "history">>
    <2>1. step = "file" /\ Tail(threadRun[d].left) = <<"history">>
        BY <1>1, <1>3
    <2>2. <<"history">> \in Seq(ThreadSteps) /\ <<"history">> # <<>>
        BY DEF ThreadSteps
    <2>3. QED
        BY <1>1, <1>3, <2>1, <2>2, RequestDoes
<1>4. CASE threadRun[d].left = <<"history">>
    <2>1. step = "history" /\ Tail(threadRun[d].left) = <<>>
        BY <1>1, <1>4
    <2>2. <<>> \in Seq(ThreadSteps)
        OBVIOUS
    <2>3. QED
        BY <1>1, <1>4, <2>1, <2>2, RequestDoes
<1>5. QED
    BY <1>1, <1>2, <1>3, <1>4 DEF DeletionSteps

LEMMA CommentDoes ==
    ASSUME ThreadInv, NEW c \in Comments, NEW step, Does(c, step)
    PROVE  /\ threadRun[c].pc = "busy"
           /\ \/ /\ step = "row" /\ threadRun[c].left = <<"row", "history", "notify">>
                 /\ threadRun[c].author.role = "STAFF"
                 /\ RequestGoes(c, "busy", <<"history", "notify">>)
              \/ /\ step = "row" /\ threadRun[c].left = <<"row", "notify">>
                 /\ threadRun[c].author.role # "STAFF"
                 /\ RequestGoes(c, "busy", <<"notify">>)
              \/ /\ step = "history" /\ threadRun[c].left = <<"history", "notify">>
                 /\ threadRun[c].author.role = "STAFF"
                 /\ RequestGoes(c, "busy", <<"notify">>)
              \/ /\ step = "notify" /\ threadRun[c].left = <<"notify">>
                 /\ RequestGoes(c, "done", <<>>)
<1>1. /\ threadRun[c].pc = "busy" /\ threadRun[c].left \in CommentSteps(threadRun[c].author)
      /\ Head(threadRun[c].left) = step
      /\ c \in ThreadRequests /\ ThreadTypeOK
    BY DEF ThreadInv, CommentsPlaced, CommentPlaced, ThreadPlace, Does, ThreadRequests
<1>2. CASE threadRun[c].left = <<"row", "history", "notify">>
    <2>1. step = "row" /\ Tail(threadRun[c].left) = <<"history", "notify">>
        BY <1>1, <1>2
    <2>2. <<"history", "notify">> \in Seq(ThreadSteps) /\ <<"history", "notify">> # <<>>
        BY DEF ThreadSteps
    <2>3. threadRun[c].author.role = "STAFF"
        BY <1>1, <1>2 DEF CommentSteps
    <2>4. QED
        BY <1>1, <1>2, <2>1, <2>2, <2>3, RequestDoes
<1>3. CASE threadRun[c].left = <<"row", "notify">>
    <2>1. step = "row" /\ Tail(threadRun[c].left) = <<"notify">>
        BY <1>1, <1>3
    <2>2. <<"notify">> \in Seq(ThreadSteps) /\ <<"notify">> # <<>>
        BY DEF ThreadSteps
    <2>3. threadRun[c].author.role # "STAFF"
        BY <1>1, <1>3 DEF CommentSteps
    <2>4. QED
        BY <1>1, <1>3, <2>1, <2>2, <2>3, RequestDoes
<1>4. CASE threadRun[c].left = <<"history", "notify">>
    <2>1. step = "history" /\ Tail(threadRun[c].left) = <<"notify">>
        BY <1>1, <1>4
    <2>2. <<"notify">> \in Seq(ThreadSteps) /\ <<"notify">> # <<>>
        BY DEF ThreadSteps
    <2>3. threadRun[c].author.role = "STAFF"
        BY <1>1, <1>4 DEF CommentSteps
    <2>4. QED
        BY <1>1, <1>4, <2>1, <2>2, <2>3, RequestDoes
<1>5. CASE threadRun[c].left = <<"notify">>
    <2>1. step = "notify" /\ Tail(threadRun[c].left) = <<>>
        BY <1>1, <1>5
    <2>2. <<>> \in Seq(ThreadSteps)
        OBVIOUS
    <2>3. QED
        BY <1>1, <1>5, <2>1, <2>2, RequestDoes
<1>6. QED
    BY <1>1, <1>2, <1>3, <1>4, <1>5 DEF CommentSteps

LEMMA ThreadCostsFinite ==
    ASSUME ThreadInv
    PROVE  /\ IsFiniteSet(CostUploads) /\ Cardinality(CostUploads) \in Nat
           /\ IsFiniteSet(CostComments) /\ Cardinality(CostComments) \in Nat
           /\ threadFaults \in Nat
<1>1. /\ CostUploads \subseteq Uploads \cup Deletions \cup Comments
      /\ CostComments \subseteq Uploads \cup Deletions \cup Comments
    BY DEF CostUploads, CostComments
<1>2. QED
    BY <1>1, PartCounted, ThreadAssumption DEF ThreadInv, ThreadTypeOK

\* A step that costs no more, and a fault that costs one thing.
LEMMA NoUploadLost ==
    ASSUME ThreadInv, CostUploads' \subseteq CostUploads,
           threadFaults' = threadFaults \/ threadFaults' = threadFaults + 1
    PROVE  Cardinality(CostUploads') <= threadFaults'
<1>1. Cardinality(CostUploads') \in Nat /\ Cardinality(CostUploads') <= Cardinality(CostUploads)
    BY ThreadCostsFinite, PartCounted
<1>2. QED
    BY <1>1, ThreadCostsFinite DEF ThreadInv

LEMMA OneUploadLost ==
    ASSUME ThreadInv, NEW u, CostUploads' \subseteq CostUploads \cup {u}, threadFaults' = threadFaults + 1
    PROVE  Cardinality(CostUploads') <= threadFaults'
<1>1. Cardinality(CostUploads') \in Nat /\ Cardinality(CostUploads') <= Cardinality(CostUploads) + 1
    BY ThreadCostsFinite, OneMoreCounted
<1>2. QED
    BY <1>1, ThreadCostsFinite DEF ThreadInv

\* Requests for attachments leave the comments alone, and the other way round.
LEMMA CommentsUntouched ==
    ASSUME ThreadInv, \A c \in Comments : threadRun'[c] = threadRun[c], UNCHANGED threadComments,
           \A c \in Comments : c \in threadAdded' <=> c \in threadAdded,
           threadFaults' = threadFaults \/ threadFaults' = threadFaults + 1
    PROVE  CommentsPlaced' /\ Cardinality(CostComments') <= threadFaults'
<1>1. CommentsPlaced'
    BY DEF ThreadInv, CommentsPlaced, CommentPlaced, ThreadPlace
<1>2. CostComments' = CostComments
    BY DEF CostComments
<1>3. QED
    BY <1>1, <1>2, ThreadCostsFinite DEF ThreadInv

LEMMA AttachmentsUntouched ==
    ASSUME ThreadInv, \A q \in Uploads \cup Deletions : threadRun'[q] = threadRun[q],
           UNCHANGED <<threadFiles, threadRows, threadRemoved>>,
           \A q \in Uploads \cup Deletions : q \in threadAdded' <=> q \in threadAdded,
           threadFaults' = threadFaults \/ threadFaults' = threadFaults + 1
    PROVE  AttachmentsPlaced' /\ Cardinality(CostUploads') <= threadFaults'
<1>1. \A u \in Uploads : DeletionsOf(u)' = DeletionsOf(u)
    BY DEF DeletionsOf
<1>2. \A u \in Uploads : \A d \in DeletionsOf(u) : d \in Deletions
    BY DEF DeletionsOf
<1>3. \A u \in Uploads : UploadPlaced(u)' <=> UploadPlaced(u)
    BY <1>1, <1>2 DEF UploadPlaced, BeforeRow
<1>4. \A d \in Deletions : DeletionPlaced(d)' <=> DeletionPlaced(d)
    BY DEF DeletionPlaced
<1>5. AttachmentsPlaced'
    <2>1. \A u \in Uploads : ThreadPlace(u, UploadSteps)'
        BY DEF ThreadInv, AttachmentsPlaced, ThreadPlace, UploadSteps
    <2>2. \A d \in Deletions : ThreadPlace(d, DeletionSteps)'
        BY DEF ThreadInv, AttachmentsPlaced, ThreadPlace, DeletionSteps
    <2>3. threadAdded' \cap Deletions = {}
        BY DEF ThreadInv, AttachmentsPlaced
    <2>4. QED
        BY <1>3, <1>4, <2>1, <2>2, <2>3 DEF ThreadInv, AttachmentsPlaced
<1>6. CostUploads' = CostUploads
    BY <1>1, <1>2 DEF CostUploads, Orphan, Untold, Silent
<1>7. QED
    BY <1>5, <1>6, NoUploadLost

\* A step of an upload or of a deletion: what is left to show of it.
LEMMA AttachmentStepKeeps ==
    ASSUME ThreadInv, NEW r \in Uploads \cup Deletions, NEW pc, NEW left, RequestGoes(r, pc, left),
           IF pc = "busy" THEN left \in (IF r \in Uploads THEN UploadSteps ELSE DeletionSteps)
           ELSE left = <<>>,
           \A u \in Uploads : UploadPlaced(u)', \A d \in Deletions : DeletionPlaced(d)',
           threadRows' \subseteq threadFiles', threadFiles' \subseteq Uploads,
           threadAdded' \subseteq threadAdded \cup (Uploads \cap {r}),
           threadAdded \subseteq threadAdded',
           threadRemoved' \subseteq Deletions,
           threadTold' = threadTold \/ (threadTold' = threadTold \cup {r} /\ r \in threadAdded'),
           threadFaults' \in 0..MaxThreadFaults,
           threadFaults' = threadFaults \/ threadFaults' = threadFaults + 1,
           Cardinality(CostUploads') <= threadFaults', UNCHANGED threadComments
    PROVE  ThreadInv'
<1>1. /\ r \in ThreadRequests /\ r \notin Comments
      /\ \A c \in Comments : c \in ThreadRequests /\ c # r /\ threadRun'[c] = threadRun[c]
      /\ \A c \in Comments : c \in threadAdded' <=> c \in threadAdded
    BY ThreadAssumption DEF ThreadRequests, RequestGoes
<1>2. CommentsPlaced' /\ Cardinality(CostComments') <= threadFaults'
    BY <1>1, CommentsUntouched
<1>3. ASSUME NEW q \in ThreadRequests
      PROVE  threadRun'[q].author = threadRun[q].author /\ threadRun'[q].target = threadRun[q].target
    BY <1>3 DEF RequestGoes
<1>4. ASSUME NEW u \in Uploads
      PROVE  /\ ThreadPlace(u, UploadSteps)'
             /\ threadRun'[u].author = StaffAuthor /\ threadRun'[u].target = u
    <2>1. u \in ThreadRequests /\ ThreadPlace(u, UploadSteps)
          /\ threadRun[u].author = StaffAuthor /\ threadRun[u].target = u
        BY DEF ThreadInv, AttachmentsPlaced, ThreadRequests
    <2>2. CASE u = r
        BY <1>3, <2>1, <2>2 DEF RequestGoes, ThreadPlace, UploadSteps
    <2>3. CASE u # r
        BY <2>1, <2>3 DEF RequestGoes, ThreadPlace, UploadSteps
    <2>4. QED
        BY <2>2, <2>3
<1>5. ASSUME NEW d \in Deletions
      PROVE  ThreadPlace(d, DeletionSteps)' /\ threadRun'[d].target \in Uploads
    <2>1. d \in ThreadRequests /\ d \notin Uploads /\ ThreadPlace(d, DeletionSteps)
          /\ threadRun[d].target \in Uploads
        BY ThreadAssumption DEF ThreadInv, AttachmentsPlaced, ThreadRequests
    <2>2. CASE d = r
        BY <1>3, <2>1, <2>2 DEF RequestGoes, ThreadPlace, DeletionSteps
    <2>3. CASE d # r
        BY <2>1, <2>3 DEF RequestGoes, ThreadPlace, DeletionSteps
    <2>4. QED
        BY <2>2, <2>3
<1>6. threadAdded' \cap Deletions = {}
    BY ThreadAssumption DEF ThreadInv, AttachmentsPlaced
<1>7. AttachmentsPlaced'
    BY <1>4, <1>5, <1>6 DEF AttachmentsPlaced
<1>8. ThreadTypeOK'
    <2>1. threadRun' \in [ThreadRequests -> ThreadRun]
        BY DEF RequestGoes
    <2>2. threadAdded' \subseteq ThreadRequests /\ threadTold' \subseteq ThreadRequests
        BY <1>1 DEF ThreadInv, ThreadTypeOK
    <2>3. threadComments' \in [Comments -> {"none", "PUBLIC", "INTERNAL"}]
        BY DEF ThreadInv, ThreadTypeOK
    <2>4. QED
        BY <2>1, <2>2, <2>3 DEF ThreadTypeOK
<1>9. ToldAfterEntry'
    <2>1. threadTold \subseteq ThreadRequests
        BY DEF ThreadInv, ThreadTypeOK
    <2>2. QED
        BY <2>1, <1>3 DEF ThreadInv, ToldAfterEntry
<1>10. QED
    BY <1>2, <1>7, <1>8, <1>9 DEF ThreadInv

\* The requests other than r stand where they stood.
LEMMA OthersStand ==
    ASSUME ThreadInv, NEW r \in Uploads \cup Deletions, NEW pc, NEW left, RequestGoes(r, pc, left)
    PROVE  /\ r \in ThreadRequests /\ r \notin Uploads \cap Deletions
           /\ \A q \in Uploads \cup Deletions : q # r => threadRun'[q] = threadRun[q]
           /\ \A u \in Uploads : DeletionsOf(u)' = DeletionsOf(u) /\ DeletionsOf(u) \subseteq Deletions
<1>1. r \in ThreadRequests /\ \A q \in Uploads \cup Deletions : q \in ThreadRequests
    BY DEF ThreadRequests
<1>2. \A d \in Deletions : threadRun'[d].target = threadRun[d].target
    BY <1>1 DEF RequestGoes
<1>3. \A u \in Uploads : DeletionsOf(u)' = DeletionsOf(u)
    BY <1>2 DEF DeletionsOf
<1>4. QED
    BY <1>1, <1>3, ThreadAssumption DEF RequestGoes, DeletionsOf

\* Uploads.
LEMMA BeginUploadKeeps ==
    ASSUME ThreadInv, NEW u \in Uploads, BeginUpload(u)
    PROVE  ThreadInv'
<1>1. /\ threadRun[u].pc = "new" /\ threadRun[u].left = <<>> /\ u \in ThreadRequests /\ u \notin Deletions
      /\ UNCHANGED <<threadFiles, threadRows, threadComments, threadAdded, threadRemoved,
                     threadTold, threadFaults>>
    BY ThreadAssumption
       DEF BeginUpload, ThreadNew, ThreadInv, AttachmentsPlaced, ThreadPlace, ThreadRequests
<1>2. PICK pc \in {"busy", "refused"}, left \in Seq(ThreadSteps) :
          /\ RequestGoes(u, pc, left)
          /\ left = IF pc = "busy" THEN <<"file", "row", "history", "notify">> ELSE <<>>
    <2>1. <<"file", "row", "history", "notify">> \in Seq(ThreadSteps) /\ "busy" \in ThreadPcs
        BY DEF ThreadSteps, ThreadPcs
    <2>2. \/ RequestGoes(u, "busy", <<"file", "row", "history", "notify">>)
          \/ RequestGoes(u, "refused", <<>>)
        BY <1>1, <2>1, RequestMoves, RequestRefused DEF BeginUpload, BeginThread, ThreadInv
    <2>3. QED
        BY <2>2, StepListsTyped
<1>3. /\ \A q \in Uploads \cup Deletions : q # u => threadRun'[q] = threadRun[q]
      /\ \A v \in Uploads : DeletionsOf(v)' = DeletionsOf(v) /\ DeletionsOf(v) \subseteq Deletions
    BY <1>2, OthersStand
<1>4. /\ u \notin threadRows /\ u \notin threadAdded /\ u \notin threadFiles
      /\ \A d \in DeletionsOf(u) : threadRun[d].pc \in {"new", "refused"}
    <2>1. UploadPlaced(u)
        BY DEF ThreadInv, AttachmentsPlaced
    <2>2. BeforeRow(u) /\ threadRun[u].left # <<"row", "history", "notify">>
        BY <1>1 DEF BeforeRow
    <2>3. QED
        BY <2>1, <2>2 DEF UploadPlaced
<1>5. \A v \in Uploads : UploadPlaced(v)'
    BY <1>1, <1>2, <1>3, <1>4 DEF ThreadInv, AttachmentsPlaced, UploadPlaced, BeforeRow, RequestGoes
<1>6. \A d \in Deletions : DeletionPlaced(d)'
    BY <1>1, <1>3 DEF ThreadInv, AttachmentsPlaced, DeletionPlaced
<1>7. CostUploads' \subseteq CostUploads
    BY <1>1, <1>2, <1>3, <1>4 DEF CostUploads, Orphan, Untold, Silent, RequestGoes
<1>8. Cardinality(CostUploads') <= threadFaults'
    BY <1>1, <1>7, NoUploadLost
<1>9. QED
    BY <1>1, <1>2, <1>5, <1>6, <1>8, AttachmentStepKeeps
       DEF ThreadInv, ThreadTypeOK, AttachmentsPlaced, UploadSteps

LEMMA UploadFileKeeps ==
    ASSUME ThreadInv, NEW u \in Uploads, FileStep(u)
    PROVE  ThreadInv'
<1>1. /\ threadRun[u].pc = "busy" /\ threadRun[u].left = <<"file", "row", "history", "notify">>
      /\ RequestGoes(u, "busy", <<"row", "history", "notify">>)
      /\ threadFiles' = threadFiles \cup {u}
      /\ UNCHANGED <<threadRows, threadComments, threadAdded, threadRemoved, threadTold, threadFaults>>
    BY UploadDoes DEF FileStep
<1>2. /\ u \notin Deletions
      /\ \A q \in Uploads \cup Deletions : q # u => threadRun'[q] = threadRun[q]
      /\ \A v \in Uploads : DeletionsOf(v)' = DeletionsOf(v) /\ DeletionsOf(v) \subseteq Deletions
    BY <1>1, OthersStand
<1>3. /\ u \notin threadRows /\ u \notin threadAdded
      /\ \A d \in DeletionsOf(u) : threadRun[d].pc \in {"new", "refused"}
    BY <1>1 DEF ThreadInv, AttachmentsPlaced, UploadPlaced, BeforeRow
<1>4. \A v \in Uploads : UploadPlaced(v)'
    BY <1>1, <1>2, <1>3 DEF ThreadInv, AttachmentsPlaced, UploadPlaced, BeforeRow, RequestGoes
<1>5. \A d \in Deletions : DeletionPlaced(d)'
    BY <1>1, <1>2 DEF ThreadInv, AttachmentsPlaced, DeletionPlaced
<1>6. CostUploads' \subseteq CostUploads
    BY <1>1, <1>2, <1>3 DEF CostUploads, Orphan, Untold, Silent, RequestGoes
<1>7. Cardinality(CostUploads') <= threadFaults'
    BY <1>1, <1>6, NoUploadLost
<1>8. QED
    BY <1>1, <1>4, <1>5, <1>7, AttachmentStepKeeps
       DEF ThreadInv, ThreadTypeOK, AttachmentsPlaced, UploadSteps

LEMMA UploadRowKeeps ==
    ASSUME ThreadInv, NEW u \in Uploads, RowStep(u)
    PROVE  ThreadInv'
<1>1. /\ threadRun[u].pc = "busy" /\ threadRun[u].left = <<"row", "history", "notify">>
      /\ RequestGoes(u, "busy", <<"history", "notify">>)
    BY UploadDoes DEF RowStep
<1>2. /\ u \notin Deletions /\ u \notin Comments
      /\ \A q \in Uploads \cup Deletions : q # u => threadRun'[q] = threadRun[q]
      /\ \A v \in Uploads : DeletionsOf(v)' = DeletionsOf(v) /\ DeletionsOf(v) \subseteq Deletions
    BY <1>1, OthersStand, ThreadAssumption
<1>3. /\ threadRows' = threadRows \cup {u}
      /\ UNCHANGED <<threadFiles, threadComments, threadAdded, threadRemoved, threadTold, threadFaults>>
    BY <1>2 DEF RowStep
<1>4. /\ u \in threadFiles /\ u \notin threadAdded
      /\ \A d \in DeletionsOf(u) : threadRun[d].pc \in {"new", "refused"}
    BY <1>1 DEF ThreadInv, AttachmentsPlaced, UploadPlaced, BeforeRow
<1>5. \A v \in Uploads : UploadPlaced(v)'
    BY <1>1, <1>2, <1>3, <1>4 DEF ThreadInv, AttachmentsPlaced, UploadPlaced, BeforeRow, RequestGoes
<1>6. ASSUME NEW d \in Deletions PROVE DeletionPlaced(d)'
    <2>1. DeletionPlaced(d) /\ ThreadPlace(d, DeletionSteps) /\ threadRun'[d] = threadRun[d]
        BY <1>2 DEF ThreadInv, AttachmentsPlaced
    <2>2. CASE threadRun[d].target = u
        <3>1. threadRun[d].pc \in {"new", "refused"}
            BY <2>2, <1>4 DEF DeletionsOf
        <3>2. threadRun[d].left = <<>>
            BY <2>1, <3>1 DEF ThreadPlace
        <3>3. d \notin threadRemoved
            BY <3>1 DEF ThreadInv, AttachmentsPlaced, DeletionPlaced
        <3>4. QED
            BY <2>1, <3>2, <3>3, <1>3 DEF DeletionPlaced
    <2>3. CASE threadRun[d].target # u
        BY <2>1, <2>3, <1>3 DEF DeletionPlaced
    <2>4. QED
        BY <2>2, <2>3
<1>7. CostUploads' \subseteq CostUploads
    BY <1>1, <1>2, <1>3, <1>4 DEF CostUploads, Orphan, Untold, Silent, RequestGoes
<1>8. Cardinality(CostUploads') <= threadFaults'
    BY <1>3, <1>7, NoUploadLost
<1>9. QED
    BY <1>1, <1>3, <1>4, <1>5, <1>6, <1>8, AttachmentStepKeeps
       DEF ThreadInv, ThreadTypeOK, AttachmentsPlaced, UploadSteps

LEMMA UploadHistoryKeeps ==
    ASSUME ThreadInv, NEW u \in Uploads, HistoryStep(u)
    PROVE  ThreadInv'
<1>1. /\ threadRun[u].pc = "busy" /\ threadRun[u].left = <<"history", "notify">>
      /\ RequestGoes(u, "busy", <<"notify">>)
    BY UploadDoes DEF HistoryStep
<1>2. /\ u \notin Deletions
      /\ \A q \in Uploads \cup Deletions : q # u => threadRun'[q] = threadRun[q]
      /\ \A v \in Uploads : DeletionsOf(v)' = DeletionsOf(v) /\ DeletionsOf(v) \subseteq Deletions
    BY <1>1, OthersStand
<1>3. /\ threadAdded' = threadAdded \cup {u} /\ threadRemoved' = threadRemoved
      /\ UNCHANGED <<threadFiles, threadRows, threadComments, threadTold, threadFaults>>
    BY <1>2 DEF HistoryStep
<1>4. \A v \in Uploads : UploadPlaced(v)'
    BY <1>1, <1>2, <1>3 DEF ThreadInv, AttachmentsPlaced, UploadPlaced, BeforeRow, RequestGoes
<1>5. \A d \in Deletions : DeletionPlaced(d)'
    BY <1>2, <1>3 DEF ThreadInv, AttachmentsPlaced, DeletionPlaced
<1>6. CostUploads' \subseteq CostUploads
    BY <1>1, <1>2, <1>3 DEF CostUploads, Orphan, Untold, Silent, RequestGoes
<1>7. Cardinality(CostUploads') <= threadFaults'
    BY <1>3, <1>6, NoUploadLost
<1>8. QED
    BY <1>1, <1>3, <1>4, <1>5, <1>7, AttachmentStepKeeps
       DEF ThreadInv, ThreadTypeOK, AttachmentsPlaced, UploadSteps

LEMMA UploadNotifyKeeps ==
    ASSUME ThreadInv, NEW u \in Uploads, NotifyStep(u)
    PROVE  ThreadInv'
<1>1. /\ threadRun[u].pc = "busy" /\ threadRun[u].left = <<"notify">>
      /\ RequestGoes(u, "done", <<>>)
      /\ threadTold' = threadTold \/ threadTold' = threadTold \cup {u}
      /\ UNCHANGED <<threadFiles, threadRows, threadComments, threadAdded, threadRemoved, threadFaults>>
    BY UploadDoes DEF NotifyStep
<1>2. /\ u \notin Deletions
      /\ \A q \in Uploads \cup Deletions : q # u => threadRun'[q] = threadRun[q]
      /\ \A v \in Uploads : DeletionsOf(v)' = DeletionsOf(v) /\ DeletionsOf(v) \subseteq Deletions
    BY <1>1, OthersStand
<1>3. u \in threadAdded
    BY <1>1 DEF ThreadInv, AttachmentsPlaced, UploadPlaced
<1>4. \A v \in Uploads : UploadPlaced(v)'
    BY <1>1, <1>2, <1>3 DEF ThreadInv, AttachmentsPlaced, UploadPlaced, BeforeRow, RequestGoes
<1>5. \A d \in Deletions : DeletionPlaced(d)'
    BY <1>1, <1>2 DEF ThreadInv, AttachmentsPlaced, DeletionPlaced
<1>6. CostUploads' \subseteq CostUploads
    BY <1>1, <1>2, <1>3 DEF CostUploads, Orphan, Untold, Silent, RequestGoes
<1>7. Cardinality(CostUploads') <= threadFaults'
    BY <1>1, <1>6, NoUploadLost
<1>8. QED
    BY <1>1, <1>3, <1>4, <1>5, <1>7, AttachmentStepKeeps
       DEF ThreadInv, ThreadTypeOK, AttachmentsPlaced, UploadSteps

\* Deletions.
LEMMA BeginDeletionKeeps ==
    ASSUME ThreadInv, NEW d \in Deletions, BeginDeletion(d)
    PROVE  ThreadInv'
<1>1. /\ threadRun[d].pc = "new" /\ threadRun[d].left = <<>> /\ d \in ThreadRequests /\ d \notin Uploads
      /\ threadRun[d].target \in Uploads /\ d \notin threadRemoved
      /\ UNCHANGED <<threadFiles, threadRows, threadComments, threadAdded, threadRemoved,
                     threadTold, threadFaults>>
    BY ThreadAssumption
       DEF BeginDeletion, ThreadNew, ThreadInv, AttachmentsPlaced, DeletionPlaced, ThreadPlace,
           ThreadRequests
<1>2. PICK pc \in {"busy", "refused"}, left \in Seq(ThreadSteps) :
          /\ RequestGoes(d, pc, left)
          /\ left = IF pc = "busy" THEN <<"row", "file", "history">> ELSE <<>>
          /\ pc = "busy" => threadRun[d].target \in threadRows
    <2>1. <<"row", "file", "history">> \in Seq(ThreadSteps) /\ "busy" \in ThreadPcs
        BY DEF ThreadSteps, ThreadPcs
    <2>2. \/ RequestGoes(d, "busy", <<"row", "file", "history">>) /\ threadRun[d].target \in threadRows
          \/ RequestGoes(d, "refused", <<>>)
        BY <1>1, <2>1, RequestMoves, RequestRefused DEF BeginDeletion, BeginThread, ThreadInv
    <2>3. QED
        BY <2>2, StepListsTyped
<1>3. /\ \A q \in Uploads \cup Deletions : q # d => threadRun'[q] = threadRun[q]
      /\ \A v \in Uploads : DeletionsOf(v)' = DeletionsOf(v) /\ DeletionsOf(v) \subseteq Deletions
    BY <1>2, OthersStand
<1>4. ASSUME NEW v \in Uploads PROVE UploadPlaced(v)'
    <2>1. UploadPlaced(v) /\ threadRun'[v] = threadRun[v] /\ DeletionsOf(v)' = DeletionsOf(v)
        BY <1>1, <1>3 DEF ThreadInv, AttachmentsPlaced
    <2>2. BeforeRow(v) => /\ v \notin threadRows
                          /\ \A q \in DeletionsOf(v) : threadRun'[q].pc \in {"new", "refused"}
        BY <2>1, <1>2, <1>3 DEF UploadPlaced, DeletionsOf, RequestGoes
    <2>3. QED
        BY <2>1, <2>2, <1>1 DEF UploadPlaced, BeforeRow
<1>5. \A q \in Deletions : DeletionPlaced(q)'
    BY <1>1, <1>2, <1>3 DEF ThreadInv, AttachmentsPlaced, DeletionPlaced, RequestGoes
<1>6. CostUploads' \subseteq CostUploads
    BY <1>1, <1>2, <1>3 DEF CostUploads, Orphan, Untold, Silent, RequestGoes
<1>7. Cardinality(CostUploads') <= threadFaults'
    BY <1>1, <1>6, NoUploadLost
<1>8. QED
    BY <1>1, <1>2, <1>4, <1>5, <1>7, AttachmentStepKeeps
       DEF ThreadInv, ThreadTypeOK, AttachmentsPlaced, DeletionSteps

\* A deletion that is under way has a file whose row was there.
LEMMA DeletionUnderWay ==
    ASSUME ThreadInv, NEW d \in Deletions, threadRun[d].pc = "busy", NEW pc, NEW left,
           RequestGoes(d, pc, left), pc \notin {"new", "refused"}, threadRows' \subseteq threadRows,
           threadFiles' \subseteq threadFiles, threadAdded' = threadAdded,
           threadFiles' = threadFiles \/ threadFiles' = threadFiles \ {threadRun[d].target}
    PROVE  \A v \in Uploads : UploadPlaced(v)'
<1>1. /\ d \notin Uploads /\ \A q \in Uploads \cup Deletions : q # d => threadRun'[q] = threadRun[q]
      /\ \A v \in Uploads : DeletionsOf(v)' = DeletionsOf(v) /\ DeletionsOf(v) \subseteq Deletions
    BY OthersStand
<1>2. SUFFICES ASSUME NEW v \in Uploads PROVE UploadPlaced(v)'
    OBVIOUS
<1>3. UploadPlaced(v) /\ threadRun'[v] = threadRun[v] /\ DeletionsOf(v)' = DeletionsOf(v)
    BY <1>1 DEF ThreadInv, AttachmentsPlaced
<1>4. BeforeRow(v) => d \notin DeletionsOf(v)
    BY <1>3 DEF UploadPlaced
<1>5. BeforeRow(v) => \A q \in DeletionsOf(v) : threadRun'[q].pc \in {"new", "refused"}
    BY <1>1, <1>3, <1>4 DEF UploadPlaced
<1>6. BeforeRow(v) => threadRun[d].target # v
    BY <1>4 DEF DeletionsOf
<1>7. QED
    BY <1>3, <1>5, <1>6 DEF UploadPlaced, BeforeRow

LEMMA DeletionRowKeeps ==
    ASSUME ThreadInv, NEW d \in Deletions, RowStep(d)
    PROVE  ThreadInv'
<1>1. /\ threadRun[d].pc = "busy" /\ threadRun[d].left = <<"row", "file", "history">>
      /\ RequestGoes(d, "busy", <<"file", "history">>)
    BY DeletionDoes DEF RowStep
<1>2. /\ d \notin Uploads /\ d \notin Comments
      /\ \A q \in Uploads \cup Deletions : q # d => threadRun'[q] = threadRun[q]
      /\ \A v \in Uploads : DeletionsOf(v)' = DeletionsOf(v) /\ DeletionsOf(v) \subseteq Deletions
    BY <1>1, OthersStand, ThreadAssumption
<1>3. /\ threadRows' = threadRows \ {threadRun[d].target}
      /\ UNCHANGED <<threadFiles, threadComments, threadAdded, threadRemoved, threadTold, threadFaults>>
    BY <1>2 DEF RowStep
<1>4. \A v \in Uploads : UploadPlaced(v)'
    BY <1>1, <1>3, DeletionUnderWay
<1>5. \A q \in Deletions : DeletionPlaced(q)'
    BY <1>1, <1>2, <1>3 DEF ThreadInv, AttachmentsPlaced, DeletionPlaced, RequestGoes
<1>6. threadRun[d].target \in threadRows => threadRun[d].target \in threadFiles
    BY DEF ThreadInv, AttachmentsPlaced
<1>7. d \in DeletionsOf(threadRun[d].target)
    BY DEF DeletionsOf
<1>8. CostUploads' \subseteq CostUploads
    <2>1. SUFFICES ASSUME NEW v \in Uploads, (Orphan(v) \/ Untold(v) \/ Silent(v))'
                   PROVE  Orphan(v) \/ Untold(v) \/ Silent(v)
        BY DEF CostUploads
    <2>2. CASE v = threadRun[d].target
        BY <2>1, <2>2, <1>1, <1>2, <1>3, <1>7 DEF Orphan, Untold, Silent, RequestGoes
    <2>3. CASE v # threadRun[d].target
        <3>1. d \notin DeletionsOf(v)
            BY <2>3 DEF DeletionsOf
        <3>2. QED
            BY <2>1, <2>3, <3>1, <1>2, <1>3 DEF Orphan, Untold, Silent
    <2>4. QED
        BY <2>2, <2>3
<1>9. Cardinality(CostUploads') <= threadFaults'
    BY <1>3, <1>8, NoUploadLost
<1>10. threadRows' \subseteq threadFiles' /\ threadFiles' \subseteq Uploads
    BY <1>3 DEF ThreadInv, ThreadTypeOK, AttachmentsPlaced
<1>11. QED
    BY <1>1, <1>2, <1>3, <1>4, <1>5, <1>9, <1>10, AttachmentStepKeeps
       DEF ThreadInv, ThreadTypeOK, AttachmentsPlaced, DeletionSteps

LEMMA DeletionFileKeeps ==
    ASSUME ThreadInv, NEW d \in Deletions, FileStep(d)
    PROVE  ThreadInv'
<1>1. /\ threadRun[d].pc = "busy" /\ threadRun[d].left = <<"file", "history">>
      /\ RequestGoes(d, "busy", <<"history">>)
    BY DeletionDoes DEF FileStep
<1>2. /\ d \notin Uploads
      /\ \A q \in Uploads \cup Deletions : q # d => threadRun'[q] = threadRun[q]
      /\ \A v \in Uploads : DeletionsOf(v)' = DeletionsOf(v) /\ DeletionsOf(v) \subseteq Deletions
    BY <1>1, OthersStand
<1>3. /\ threadFiles' = threadFiles \ {threadRun[d].target}
      /\ UNCHANGED <<threadRows, threadComments, threadAdded, threadRemoved, threadTold, threadFaults>>
    BY <1>2 DEF FileStep
<1>4. \A v \in Uploads : UploadPlaced(v)'
    BY <1>1, <1>3, DeletionUnderWay
<1>5. \A q \in Deletions : DeletionPlaced(q)'
    BY <1>1, <1>2, <1>3 DEF ThreadInv, AttachmentsPlaced, DeletionPlaced, RequestGoes
<1>6. threadRun[d].target \notin threadRows
    BY <1>1 DEF ThreadInv, AttachmentsPlaced, DeletionPlaced
<1>7. d \in DeletionsOf(threadRun[d].target)
    BY DEF DeletionsOf
<1>8. CostUploads' \subseteq CostUploads
    <2>1. SUFFICES ASSUME NEW v \in Uploads, (Orphan(v) \/ Untold(v) \/ Silent(v))'
                   PROVE  Orphan(v) \/ Untold(v) \/ Silent(v)
        BY DEF CostUploads
    <2>2. CASE v = threadRun[d].target
        BY <2>1, <2>2, <1>1, <1>2, <1>3, <1>6, <1>7 DEF Orphan, Untold, Silent, RequestGoes
    <2>3. CASE v # threadRun[d].target
        <3>1. d \notin DeletionsOf(v)
            BY <2>3 DEF DeletionsOf
        <3>2. QED
            BY <2>1, <2>3, <3>1, <1>2, <1>3 DEF Orphan, Untold, Silent
    <2>4. QED
        BY <2>2, <2>3
<1>9. Cardinality(CostUploads') <= threadFaults'
    BY <1>3, <1>8, NoUploadLost
<1>10. threadRows' \subseteq threadFiles' /\ threadFiles' \subseteq Uploads
    BY <1>3, <1>6 DEF ThreadInv, ThreadTypeOK, AttachmentsPlaced
<1>11. QED
    BY <1>1, <1>2, <1>3, <1>4, <1>5, <1>9, <1>10, AttachmentStepKeeps
       DEF ThreadInv, ThreadTypeOK, AttachmentsPlaced, DeletionSteps

LEMMA DeletionHistoryKeeps ==
    ASSUME ThreadInv, NEW d \in Deletions, HistoryStep(d)
    PROVE  ThreadInv'
<1>1. /\ threadRun[d].pc = "busy" /\ threadRun[d].left = <<"history">>
      /\ RequestGoes(d, "done", <<>>)
      /\ threadRemoved' = threadRemoved \cup {d} /\ threadAdded' = threadAdded
      /\ UNCHANGED <<threadFiles, threadRows, threadComments, threadTold, threadFaults>>
    BY DeletionDoes DEF HistoryStep
<1>2. /\ d \notin Uploads
      /\ \A q \in Uploads \cup Deletions : q # d => threadRun'[q] = threadRun[q]
      /\ \A v \in Uploads : DeletionsOf(v)' = DeletionsOf(v) /\ DeletionsOf(v) \subseteq Deletions
    BY <1>1, OthersStand
<1>3. \A v \in Uploads : UploadPlaced(v)'
    BY <1>1, DeletionUnderWay
<1>4. \A q \in Deletions : DeletionPlaced(q)'
    BY <1>1, <1>2 DEF ThreadInv, AttachmentsPlaced, DeletionPlaced, RequestGoes
<1>5. CostUploads' \subseteq CostUploads
    BY <1>1, <1>2 DEF CostUploads, Orphan, Untold, Silent, RequestGoes
<1>6. Cardinality(CostUploads') <= threadFaults'
    BY <1>1, <1>5, NoUploadLost
<1>7. QED
    BY <1>1, <1>3, <1>4, <1>6, AttachmentStepKeeps
       DEF ThreadInv, ThreadTypeOK, AttachmentsPlaced, DeletionSteps

\* What a fault costs: the entry of a row, or its file, or the entry of a removal.
LEMMA UploadFailsKeeps ==
    ASSUME ThreadInv, NEW u \in Uploads, ThreadFails(u)
    PROVE  ThreadInv'
<1>1. /\ threadRun[u].pc = "busy" /\ threadRun[u].left \in UploadSteps
      /\ RequestGoes(u, "failed", <<>>)
      /\ threadFaults < MaxThreadFaults /\ threadFaults' = threadFaults + 1
      /\ UNCHANGED <<threadFiles, threadRows, threadComments, threadAdded, threadRemoved, threadTold>>
    <2>1. u \in ThreadRequests /\ "failed" \in ThreadPcs /\ <<>> \in Seq(ThreadSteps)
        BY DEF ThreadRequests, ThreadPcs
    <2>2. QED
        BY <2>1, RequestMoves DEF ThreadFails, ThreadFault, ThreadInv, AttachmentsPlaced, ThreadPlace
<1>2. /\ u \notin Deletions
      /\ \A q \in Uploads \cup Deletions : q # u => threadRun'[q] = threadRun[q]
      /\ \A v \in Uploads : DeletionsOf(v)' = DeletionsOf(v) /\ DeletionsOf(v) \subseteq Deletions
    BY <1>1, OthersStand
<1>3. \A v \in Uploads : UploadPlaced(v)'
    BY <1>1, <1>2 DEF ThreadInv, AttachmentsPlaced, UploadPlaced, BeforeRow, RequestGoes
<1>4. \A d \in Deletions : DeletionPlaced(d)'
    BY <1>1, <1>2 DEF ThreadInv, AttachmentsPlaced, DeletionPlaced
<1>5. CostUploads' \subseteq CostUploads \cup {u}
    BY <1>1, <1>2 DEF CostUploads, Orphan, Untold, Silent
<1>6. Cardinality(CostUploads') <= threadFaults'
    BY <1>1, <1>5, OneUploadLost
<1>7. threadFaults' \in 0..MaxThreadFaults
    BY <1>1, ThreadAssumption DEF ThreadInv, ThreadTypeOK
<1>8. QED
    BY <1>1, <1>3, <1>4, <1>6, <1>7, AttachmentStepKeeps
       DEF ThreadInv, ThreadTypeOK, AttachmentsPlaced

\* Of deletions: the process dies, or unlink fails and the deletion goes on.
LEMMA DeletionFaultKeeps ==
    ASSUME ThreadInv, NEW d \in Deletions, threadRun[d].pc = "busy", NEW pc, NEW left,
           RequestGoes(d, pc, left),
           pc \in {"failed", "busy"}, left = IF pc = "busy" THEN <<"history">> ELSE <<>>,
           pc = "busy" => threadRun[d].left = <<"file", "history">>,
           threadFaults < MaxThreadFaults, threadFaults' = threadFaults + 1,
           UNCHANGED <<threadFiles, threadRows, threadComments, threadAdded, threadRemoved, threadTold>>
    PROVE  ThreadInv'
<1>1. /\ d \notin Uploads
      /\ \A q \in Uploads \cup Deletions : q # d => threadRun'[q] = threadRun[q]
      /\ \A v \in Uploads : DeletionsOf(v)' = DeletionsOf(v) /\ DeletionsOf(v) \subseteq Deletions
    BY OthersStand
<1>2. \A v \in Uploads : UploadPlaced(v)'
    BY DeletionUnderWay
<1>3. ASSUME NEW q \in Deletions PROVE DeletionPlaced(q)'
    <2>1. DeletionPlaced(q)
        BY DEF ThreadInv, AttachmentsPlaced
    <2>2. CASE q = d
        <3>1. d \notin threadRemoved
            BY <2>1, <2>2 DEF DeletionPlaced
        <3>2. threadRun'[d].target = threadRun[d].target /\ threadRun'[d].left = left
            BY DEF RequestGoes
        <3>3. left = <<"history">> => threadRun[d].target \notin threadRows
            BY <2>1, <2>2 DEF DeletionPlaced
        <3>4. left \in {<<"file", "history">>, <<"history">>} => left = <<"history">>
            OBVIOUS
        <3>5. d \notin threadRemoved' /\ threadRows' = threadRows
            BY <3>1
        <3>6. QED
            BY <2>2, <3>2, <3>3, <3>4, <3>5 DEF DeletionPlaced
    <2>3. CASE q # d
        BY <2>1, <2>3, <1>1 DEF DeletionPlaced
    <2>4. QED
        BY <2>2, <2>3
<1>4. CostUploads' \subseteq CostUploads \cup {threadRun[d].target}
    <2>1. SUFFICES ASSUME NEW v \in Uploads, (Orphan(v) \/ Untold(v) \/ Silent(v))',
                          v # threadRun[d].target
                   PROVE  Orphan(v) \/ Untold(v) \/ Silent(v)
        BY DEF CostUploads
    <2>2. d \notin DeletionsOf(v)
        BY <2>1 DEF DeletionsOf
    <2>3. QED
        BY <2>1, <2>2, <1>1 DEF Orphan, Untold, Silent
<1>5. Cardinality(CostUploads') <= threadFaults'
    BY <1>4, OneUploadLost
<1>6. threadFaults' \in 0..MaxThreadFaults
    BY ThreadAssumption DEF ThreadInv, ThreadTypeOK
<1>7. QED
    BY <1>1, <1>2, <1>3, <1>5, <1>6, AttachmentStepKeeps
       DEF ThreadInv, ThreadTypeOK, AttachmentsPlaced, DeletionSteps

LEMMA DeletionFailsKeeps ==
    ASSUME ThreadInv, NEW d \in Deletions, ThreadFails(d) \/ UnlinkFails(d)
    PROVE  ThreadInv'
<1>1. /\ d \in ThreadRequests /\ ThreadPlace(d, DeletionSteps) /\ ThreadTypeOK
      /\ "failed" \in ThreadPcs /\ <<>> \in Seq(ThreadSteps)
    BY DEF ThreadInv, AttachmentsPlaced, ThreadRequests, ThreadPcs
<1>2. threadRun[d].pc = "busy"
    BY <1>1 DEF ThreadFails, UnlinkFails, ThreadPlace
<1>3. \/ RequestGoes(d, "failed", <<>>)
      \/ RequestGoes(d, "busy", <<"history">>) /\ threadRun[d].left = <<"file", "history">>
    <2>1. CASE threadRun' = [threadRun EXCEPT ![d].pc = "failed", ![d].left = <<>>]
        BY <2>1, <1>1, RequestMoves
    <2>2. CASE Does(d, "file")
        BY <2>2, DeletionDoes
    <2>3. QED
        BY <2>1, <2>2 DEF ThreadFails, UnlinkFails
<1>4. PICK pc \in {"failed", "busy"}, left \in Seq(ThreadSteps) :
          /\ RequestGoes(d, pc, left) /\ left = IF pc = "busy" THEN <<"history">> ELSE <<>>
          /\ pc = "busy" => threadRun[d].left = <<"file", "history">>
    BY <1>3, StepListsTyped
<1>5. QED
    BY <1>2, <1>4, DeletionFaultKeeps DEF ThreadFails, UnlinkFails, ThreadFault

\* Comments.
LEMMA CommentStepKeeps ==
    ASSUME ThreadInv, NEW c \in Comments, NEW pc, NEW left, RequestGoes(c, pc, left),
           UNCHANGED <<threadFiles, threadRows, threadRemoved>>,
           CommentPlaced(c)',
           \A o \in Comments \ {c} : threadComments'[o] = threadComments[o],
           threadComments' \in [Comments -> {"none", "PUBLIC", "INTERNAL"}],
           threadAdded' = threadAdded \/ threadAdded' = threadAdded \cup {c},
           threadTold' = threadTold \/ /\ threadTold' = threadTold \cup {c}
                                       /\ threadRun[c].author.role = "STAFF" => c \in threadAdded,
           threadFaults' \in 0..MaxThreadFaults,
           \/ threadFaults' = threadFaults /\ CostComments' \subseteq CostComments
           \/ threadFaults' = threadFaults + 1 /\ CostComments' \subseteq CostComments \cup {c}
    PROVE  ThreadInv'
<1>1. /\ c \in ThreadRequests /\ c \notin Uploads \cup Deletions
      /\ \A q \in Uploads \cup Deletions : q \in ThreadRequests /\ threadRun'[q] = threadRun[q]
      /\ \A q \in Uploads \cup Deletions : q \in threadAdded' <=> q \in threadAdded
    BY ThreadAssumption DEF ThreadRequests, RequestGoes
<1>2. threadFaults' = threadFaults \/ threadFaults' = threadFaults + 1
    OBVIOUS
<1>3. AttachmentsPlaced' /\ Cardinality(CostUploads') <= threadFaults'
    BY <1>1, <1>2, AttachmentsUntouched
<1>4. CommentsPlaced'
    <2>1. SUFFICES ASSUME NEW o \in Comments PROVE CommentPlaced(o)'
        BY DEF CommentsPlaced
    <2>2. CASE o = c
        BY <2>2
    <2>3. CASE o # c
        <3>1. threadRun'[o] = threadRun[o] /\ (o \in threadAdded' <=> o \in threadAdded)
            BY <2>3 DEF RequestGoes, ThreadRequests
        <3>2. CommentPlaced(o) /\ threadComments'[o] = threadComments[o]
            BY <2>3 DEF ThreadInv, CommentsPlaced
        <3>3. QED
            BY <3>1, <3>2 DEF CommentPlaced, ThreadPlace
    <2>4. QED
        BY <2>2, <2>3
<1>5. ThreadTypeOK'
    <2>1. threadRun' \in [ThreadRequests -> ThreadRun]
        BY DEF RequestGoes
    <2>2. QED
        BY <2>1, <1>1 DEF ThreadInv, ThreadTypeOK
<1>6. ToldAfterEntry'
    <2>1. threadTold \subseteq ThreadRequests
        BY DEF ThreadInv, ThreadTypeOK
    <2>2. \A q \in ThreadRequests : threadRun'[q].author = threadRun[q].author
        BY DEF RequestGoes
    <2>3. QED
        BY <2>1, <2>2, <1>1 DEF ThreadInv, ToldAfterEntry
<1>7. Cardinality(CostComments') <= threadFaults'
    <2>1. CASE threadFaults' = threadFaults /\ CostComments' \subseteq CostComments
        <3>1. Cardinality(CostComments') \in Nat /\ Cardinality(CostComments') <= Cardinality(CostComments)
            BY <2>1, ThreadCostsFinite, PartCounted
        <3>2. QED
            BY <2>1, <3>1, ThreadCostsFinite DEF ThreadInv
    <2>2. CASE threadFaults' = threadFaults + 1 /\ CostComments' \subseteq CostComments \cup {c}
        <3>1. /\ Cardinality(CostComments') \in Nat
              /\ Cardinality(CostComments') <= Cardinality(CostComments) + 1
            BY <2>2, ThreadCostsFinite, OneMoreCounted
        <3>2. QED
            BY <2>2, <3>1, ThreadCostsFinite DEF ThreadInv
    <2>3. QED
        BY <2>1, <2>2
<1>8. QED
    BY <1>3, <1>4, <1>5, <1>6, <1>7 DEF ThreadInv

\* Where a comment stands, and what it costs, before a step of its own.
LEMMA CommentStands ==
    ASSUME ThreadInv, NEW c \in Comments, NEW pc, NEW left, RequestGoes(c, pc, left)
    PROVE  /\ CommentPlaced(c) /\ c \in ThreadRequests /\ c \notin Uploads \cup Deletions
           /\ threadRun[c].author \in ThreadAuthor
           /\ threadComments \in [Comments -> {"none", "PUBLIC", "INTERNAL"}]
           /\ threadRun'[c].author = threadRun[c].author
           /\ CommentSteps(threadRun[c].author)' = CommentSteps(threadRun[c].author)
           /\ ResolveVisibility(threadRun[c].author)' = ResolveVisibility(threadRun[c].author)
           /\ \A o \in Comments : o # c => threadRun'[o] = threadRun[o]
<1>1. c \in ThreadRequests /\ c \notin Uploads \cup Deletions /\ Comments \subseteq ThreadRequests
    BY ThreadAssumption DEF ThreadRequests
<1>2. threadRun[c].author \in ThreadAuthor
    BY <1>1 DEF ThreadInv, ThreadTypeOK, ThreadRun
<1>3. threadRun'[c].author = threadRun[c].author
    BY DEF RequestGoes
<1>4. QED
    BY <1>1, <1>2, <1>3
       DEF RequestGoes, ThreadInv, ThreadTypeOK, CommentsPlaced, CommentSteps, ResolveVisibility

LEMMA BeginCommentKeeps ==
    ASSUME ThreadInv, NEW c \in Comments, BeginComment(c)
    PROVE  ThreadInv'
<1> DEFINE author == threadRun[c].author
           steps == IF author.role = "STAFF" THEN <<"row", "history", "notify">> ELSE <<"row", "notify">>
<1>1. /\ threadRun[c].pc = "new" /\ threadRun[c].left = <<>> /\ c \in ThreadRequests /\ ThreadTypeOK
      /\ UNCHANGED <<threadFiles, threadRows, threadComments, threadAdded, threadRemoved,
                     threadTold, threadFaults>>
    BY DEF BeginComment, ThreadNew, ThreadInv, CommentsPlaced, CommentPlaced, ThreadPlace, ThreadRequests
<1>2. \/ RequestGoes(c, "busy", steps) /\ ~(author.role = "CUSTOMER" /\ author.asked = "INTERNAL")
      \/ RequestGoes(c, "refused", <<>>)
    <2>1. /\ <<"row", "history", "notify">> \in Seq(ThreadSteps) /\ <<"row", "notify">> \in Seq(ThreadSteps)
          /\ "busy" \in ThreadPcs
        BY DEF ThreadSteps, ThreadPcs
    <2>2. QED
        BY <1>1, <2>1, RequestMoves, RequestRefused DEF BeginComment, BeginThread
<1>3. PICK pc \in {"busy", "refused"}, left \in Seq(ThreadSteps) :
          /\ RequestGoes(c, pc, left)
          /\ pc = "busy" => left = steps /\ ~(author.role = "CUSTOMER" /\ author.asked = "INTERNAL")
          /\ pc = "refused" => left = <<>>
    BY <1>2, StepListsTyped
<1>4. /\ CommentPlaced(c) /\ author' = author
      /\ threadComments \in [Comments -> {"none", "PUBLIC", "INTERNAL"}]
      /\ CommentSteps(author)' = CommentSteps(author)
      /\ ResolveVisibility(author)' = ResolveVisibility(author)
      /\ \A o \in Comments : o # c => threadRun'[o] = threadRun[o]
    BY <1>3, CommentStands
<1>5. /\ steps \in CommentSteps(author) /\ steps # <<"notify">>
      /\ steps = <<"row", "history", "notify">> => author.role = "STAFF"
    BY DEF CommentSteps
<1> HIDE DEF steps
<1>6. threadComments[c] = "none"
    BY <1>1, <1>4 DEF CommentPlaced
<1>7. CommentPlaced(c)'
    BY <1>1, <1>3, <1>4, <1>5, <1>6 DEF CommentPlaced, ThreadPlace, RequestGoes
<1>8. CostComments' \subseteq CostComments
    BY <1>1, <1>4, <1>6 DEF CostComments
<1>9. QED
    BY <1>1, <1>3, <1>4, <1>7, <1>8, CommentStepKeeps DEF ThreadTypeOK

LEMMA CommentRowKeeps ==
    ASSUME ThreadInv, NEW c \in Comments, RowStep(c)
    PROVE  ThreadInv'
<1> DEFINE author == threadRun[c].author
<1>1. PICK left :
          /\ RequestGoes(c, "busy", left) /\ threadRun[c].pc = "busy"
          /\ \/ /\ author.role = "STAFF" /\ threadRun[c].left = <<"row", "history", "notify">>
                /\ left = <<"history", "notify">>
             \/ author.role # "STAFF" /\ threadRun[c].left = <<"row", "notify">> /\ left = <<"notify">>
    BY CommentDoes DEF RowStep
<1>2. /\ CommentPlaced(c) /\ author' = author /\ c \notin Uploads /\ c \notin Deletions
      /\ author \in ThreadAuthor
      /\ threadComments \in [Comments -> {"none", "PUBLIC", "INTERNAL"}]
      /\ CommentSteps(author)' = CommentSteps(author)
      /\ ResolveVisibility(author)' = ResolveVisibility(author)
      /\ \A o \in Comments : o # c => threadRun'[o] = threadRun[o]
    BY <1>1, CommentStands
<1>3. /\ threadComments' = [threadComments EXCEPT ![c] = ResolveVisibility(author)]
      /\ UNCHANGED <<threadFiles, threadRows, threadAdded, threadRemoved, threadTold, threadFaults>>
    BY <1>2 DEF RowStep
<1>4. ResolveVisibility(author) \in {"PUBLIC", "INTERNAL"}
    BY <1>2 DEF ResolveVisibility, ThreadAuthor
<1>5. /\ threadComments' \in [Comments -> {"none", "PUBLIC", "INTERNAL"}]
      /\ threadComments'[c] = ResolveVisibility(author)
      /\ \A o \in Comments \ {c} : threadComments'[o] = threadComments[o]
    BY <1>2, <1>3, <1>4
<1>6. left \in CommentSteps(author) /\ left # <<"row", "history", "notify">>
      /\ (author.role = "STAFF" => left # <<"notify">>)
    BY <1>1 DEF CommentSteps
<1>7. ~(author.role = "CUSTOMER" /\ author.asked = "INTERNAL")
    BY <1>1, <1>2 DEF CommentPlaced
<1>8. CommentPlaced(c)'
    BY <1>1, <1>2, <1>3, <1>5, <1>6, <1>7 DEF CommentPlaced, ThreadPlace, RequestGoes
<1>9. CostComments' \subseteq CostComments
    BY <1>1, <1>2, <1>3, <1>5 DEF CostComments, RequestGoes
<1>10. QED
    BY <1>1, <1>3, <1>5, <1>8, <1>9, CommentStepKeeps DEF ThreadInv, ThreadTypeOK

LEMMA CommentHistoryKeeps ==
    ASSUME ThreadInv, NEW c \in Comments, HistoryStep(c)
    PROVE  ThreadInv'
<1>1. /\ threadRun[c].pc = "busy" /\ threadRun[c].left = <<"history", "notify">>
      /\ threadRun[c].author.role = "STAFF" /\ RequestGoes(c, "busy", <<"notify">>)
    BY CommentDoes DEF HistoryStep
<1>2. /\ CommentPlaced(c) /\ threadRun'[c].author = threadRun[c].author /\ c \notin Deletions
      /\ threadComments \in [Comments -> {"none", "PUBLIC", "INTERNAL"}]
      /\ CommentSteps(threadRun[c].author)' = CommentSteps(threadRun[c].author)
      /\ ResolveVisibility(threadRun[c].author)' = ResolveVisibility(threadRun[c].author)
      /\ \A o \in Comments : o # c => threadRun'[o] = threadRun[o]
    BY <1>1, CommentStands
<1>3. /\ threadAdded' = threadAdded \cup {c} /\ threadRemoved' = threadRemoved
      /\ UNCHANGED <<threadFiles, threadRows, threadComments, threadTold, threadFaults>>
    BY <1>2 DEF HistoryStep
<1>4. <<"notify">> \in CommentSteps(threadRun[c].author)
    BY DEF CommentSteps
<1>5. CommentPlaced(c)'
    BY <1>1, <1>2, <1>3, <1>4 DEF CommentPlaced, ThreadPlace, RequestGoes
<1>6. CostComments' \subseteq CostComments
    BY <1>1, <1>2, <1>3 DEF CostComments
<1>7. QED
    BY <1>1, <1>2, <1>3, <1>5, <1>6, CommentStepKeeps DEF ThreadInv, ThreadTypeOK

LEMMA CommentNotifyKeeps ==
    ASSUME ThreadInv, NEW c \in Comments, NotifyStep(c)
    PROVE  ThreadInv'
<1>1. /\ threadRun[c].pc = "busy" /\ threadRun[c].left = <<"notify">> /\ RequestGoes(c, "done", <<>>)
      /\ threadTold' = threadTold \/ threadTold' = threadTold \cup {c}
      /\ UNCHANGED <<threadFiles, threadRows, threadComments, threadAdded, threadRemoved, threadFaults>>
    BY CommentDoes DEF NotifyStep
<1>2. /\ CommentPlaced(c) /\ threadRun'[c].author = threadRun[c].author
      /\ threadComments \in [Comments -> {"none", "PUBLIC", "INTERNAL"}]
      /\ CommentSteps(threadRun[c].author)' = CommentSteps(threadRun[c].author)
      /\ ResolveVisibility(threadRun[c].author)' = ResolveVisibility(threadRun[c].author)
      /\ \A o \in Comments : o # c => threadRun'[o] = threadRun[o]
    BY <1>1, CommentStands
<1>3. threadRun[c].author.role = "STAFF" => c \in threadAdded
    BY <1>1, <1>2 DEF CommentPlaced
<1>4. CommentPlaced(c)'
    BY <1>1, <1>2 DEF CommentPlaced, ThreadPlace, RequestGoes
<1>5. CostComments' \subseteq CostComments
    BY <1>1, <1>2, <1>3 DEF CostComments
<1>6. QED
    BY <1>1, <1>2, <1>3, <1>4, <1>5, CommentStepKeeps DEF ThreadInv, ThreadTypeOK

LEMMA CommentFailsKeeps ==
    ASSUME ThreadInv, NEW c \in Comments, ThreadFails(c)
    PROVE  ThreadInv'
<1>1. /\ threadRun[c].pc = "busy" /\ RequestGoes(c, "failed", <<>>)
      /\ threadFaults < MaxThreadFaults /\ threadFaults' = threadFaults + 1
      /\ UNCHANGED <<threadFiles, threadRows, threadComments, threadAdded, threadRemoved, threadTold>>
    <2>1. c \in ThreadRequests /\ "failed" \in ThreadPcs /\ <<>> \in Seq(ThreadSteps)
        BY DEF ThreadRequests, ThreadPcs
    <2>2. QED
        BY <2>1, RequestMoves DEF ThreadFails, ThreadFault, ThreadInv
<1>2. /\ CommentPlaced(c) /\ threadRun'[c].author = threadRun[c].author
      /\ threadComments \in [Comments -> {"none", "PUBLIC", "INTERNAL"}]
      /\ CommentSteps(threadRun[c].author)' = CommentSteps(threadRun[c].author)
      /\ ResolveVisibility(threadRun[c].author)' = ResolveVisibility(threadRun[c].author)
      /\ \A o \in Comments : o # c => threadRun'[o] = threadRun[o]
    BY <1>1, CommentStands
<1>3. CommentPlaced(c)'
    BY <1>1, <1>2 DEF CommentPlaced, ThreadPlace, RequestGoes
<1>4. CostComments' \subseteq CostComments \cup {c}
    BY <1>1, <1>2 DEF CostComments
<1>5. threadFaults' \in 0..MaxThreadFaults
    BY <1>1, ThreadAssumption DEF ThreadInv, ThreadTypeOK
<1>6. QED
    BY <1>1, <1>2, <1>3, <1>4, <1>5, CommentStepKeeps

LEMMA ThreadStep == ThreadInv /\ [ThreadNext]_threadVars => ThreadInv'
<1>1. SUFFICES ASSUME ThreadInv, [ThreadNext]_threadVars PROVE ThreadInv'
    OBVIOUS
<1>2. CASE UNCHANGED threadVars
    BY <1>1, <1>2
       DEF threadVars, ThreadInv, ThreadTypeOK, AttachmentsPlaced, ThreadPlace, UploadPlaced, BeforeRow,
           DeletionsOf, DeletionPlaced, CommentsPlaced, CommentPlaced, ToldAfterEntry,
           CostUploads, Orphan, Untold, Silent, CostComments
<1>3. ASSUME NEW r \in ThreadRequests,
             FileStep(r) \/ RowStep(r) \/ HistoryStep(r) \/ NotifyStep(r) \/ ThreadFails(r)
      PROVE  ThreadInv'
    <2>1. CASE r \in Uploads
        BY <1>1, <1>3, <2>1, UploadFileKeeps, UploadRowKeeps, UploadHistoryKeeps, UploadNotifyKeeps,
           UploadFailsKeeps
    <2>2. CASE r \in Deletions
        <3>1. ~NotifyStep(r)
            BY <1>1, <2>2, DeletionDoes DEF NotifyStep
        <3>2. QED
            BY <1>1, <1>3, <2>2, <3>1, DeletionFileKeeps, DeletionRowKeeps, DeletionHistoryKeeps,
               DeletionFailsKeeps
    <2>3. CASE r \in Comments
        <3>1. ~FileStep(r)
            BY <1>1, <2>3, CommentDoes DEF FileStep
        <3>2. QED
            BY <1>1, <1>3, <2>3, <3>1, CommentRowKeeps, CommentHistoryKeeps, CommentNotifyKeeps,
               CommentFailsKeeps
    <2>4. QED
        BY <2>1, <2>2, <2>3 DEF ThreadRequests
<1>4. QED
    BY <1>1, <1>2, <1>3, BeginUploadKeeps, BeginDeletionKeeps, BeginCommentKeeps, DeletionFailsKeeps
       DEF ThreadNext

LEMMA ThreadInitially == ThreadInit => ThreadInv
<1>1. SUFFICES ASSUME ThreadInit PROVE ThreadInv
    OBVIOUS
<1>2. PICK author \in [Comments -> ThreadAuthor], target \in [Deletions -> Uploads] :
          threadRun = [r \in ThreadRequests |->
                 [author |-> IF r \in Comments THEN author[r] ELSE StaffAuthor,
                  target |-> IF r \in Deletions THEN target[r] ELSE r,
                  left |-> <<>>, pc |-> "new"]]
    BY <1>1 DEF ThreadInit
<1>3. \A r \in ThreadRequests : threadRun[r] \in ThreadRun
    <2>1. TAKE r \in ThreadRequests
    <2>2. <<>> \in Seq({"file", "row", "history", "notify"})
        OBVIOUS
    <2>3. StaffAuthor \in ThreadAuthor
        BY DEF StaffAuthor, ThreadAuthor
    <2>4. (IF r \in Comments THEN author[r] ELSE StaffAuthor) \in ThreadAuthor
        BY <1>2, <2>3
    <2>5. (IF r \in Deletions THEN target[r] ELSE r) \in ThreadRequests
        BY <1>2 DEF ThreadRequests
    <2>6. QED
        BY <1>2, <2>2, <2>4, <2>5 DEF ThreadRun
<1>4. ThreadTypeOK
    <2>1. threadRun \in [ThreadRequests -> ThreadRun]
        BY <1>2, <1>3
    <2>2. QED
        BY <1>1, <2>1, ThreadAssumption DEF ThreadInit, ThreadTypeOK
<1>5. /\ \A r \in ThreadRequests : threadRun[r].pc = "new" /\ threadRun[r].left = <<>>
      /\ <<>> # <<"notify">> /\ <<>> # <<"history", "notify">> /\ <<>> # <<"row", "history", "notify">>
      /\ <<>> # <<"history">> /\ <<>> # <<"file", "history">>
    BY <1>2
<1>6. AttachmentsPlaced
    <2>1. \A u \in Uploads : threadRun[u].author = StaffAuthor /\ threadRun[u].target = u
        BY <1>2, ThreadAssumption DEF ThreadRequests
    <2>2. \A d \in Deletions : threadRun[d].target \in Uploads
        BY <1>2 DEF ThreadRequests
    <2>3. \A u \in Uploads : ThreadPlace(u, UploadSteps) /\ UploadPlaced(u)
        <3>1. TAKE u \in Uploads
        <3>2. threadRun[u].pc = "new" /\ threadRun[u].left = <<>>
            BY <1>5 DEF ThreadRequests
        <3>3. \A d \in DeletionsOf(u) : threadRun[d].pc = "new"
            BY <1>5 DEF ThreadRequests, DeletionsOf
        <3>4. u \notin threadRows /\ u \notin threadAdded /\ u \notin threadFiles
            BY <1>1 DEF ThreadInit
        <3>5. QED
            BY <1>5, <3>2, <3>3, <3>4 DEF ThreadPlace, UploadPlaced, BeforeRow
    <2>4. \A d \in Deletions : ThreadPlace(d, DeletionSteps) /\ DeletionPlaced(d)
        BY <1>1, <1>5 DEF ThreadInit, ThreadRequests, ThreadPlace, DeletionPlaced
    <2>5. QED
        BY <1>1, <2>1, <2>2, <2>3, <2>4 DEF ThreadInit, AttachmentsPlaced
<1>7. CommentsPlaced /\ ToldAfterEntry
    <2>1. ASSUME NEW c \in Comments PROVE CommentPlaced(c)
        <3>1. threadRun[c].pc = "new" /\ threadRun[c].left = <<>>
            BY <1>5 DEF ThreadRequests
        <3>2. threadComments[c] = "none" /\ c \notin threadAdded
            BY <1>1 DEF ThreadInit
        <3>3. QED
            BY <1>5, <3>1, <3>2 DEF CommentPlaced, ThreadPlace
    <2>2. QED
        BY <1>1, <2>1 DEF ThreadInit, CommentsPlaced, ToldAfterEntry
<1>8. CostUploads = {} /\ CostComments = {}
    <2>1. \A u \in Uploads : threadRun[u].pc = "new" /\ threadRun[u].left = <<>>
        BY <1>5 DEF ThreadRequests
    <2>2. threadFiles = {} /\ threadRows = {} /\ threadAdded = {}
          /\ \A c \in Comments : threadComments[c] = "none"
        BY <1>1 DEF ThreadInit
    <2>3. \A u \in Uploads : ~Orphan(u) /\ ~Untold(u) /\ ~Silent(u)
        BY <1>5, <2>1, <2>2 DEF Orphan, Untold, Silent
    <2>4. QED
        BY <2>2, <2>3 DEF CostUploads, CostComments
<1>9. QED
    BY <1>1, <1>4, <1>6, <1>7, <1>8, FS_EmptySet DEF ThreadInv, ThreadInit

LEMMA AttachmentsTell == ThreadInv => ThreadKept
<1>1. SUFFICES ASSUME ThreadInv PROVE ThreadKept
    OBVIOUS
<1> DEFINE orphans == {u \in threadFiles \ threadRows :
                         \A r \in Busy(Uploads \cup Deletions) : threadRun[r].target # u}
           untold == (threadRows \ threadAdded) \ Busy(Uploads)
           silent == {u \in Uploads : u \notin threadFiles /\ u \in threadAdded
                         /\ \A d \in Deletions : threadRun[d].target = u =>
                               d \notin threadRemoved \cup Busy(Deletions)}
<1>2. /\ threadRows \subseteq threadFiles /\ threadFiles \subseteq Uploads /\ threadRows \subseteq Uploads
      /\ threadRemoved \subseteq Deletions
      /\ \A u \in Uploads : ThreadPlace(u, UploadSteps) /\ threadRun[u].target = u
      /\ \A d \in Deletions : ThreadPlace(d, DeletionSteps) /\ DeletionPlaced(d)
      /\ threadFaults \in Nat /\ Cardinality(CostUploads) <= threadFaults
    BY <1>1, ThreadAssumption DEF ThreadInv, ThreadTypeOK, AttachmentsPlaced
<1>3. orphans \subseteq CostUploads
    <2>1. SUFFICES ASSUME NEW u \in orphans PROVE u \in Uploads /\ Orphan(u)
        BY DEF CostUploads
    <2>2. u \in Uploads /\ u \in threadFiles /\ u \notin threadRows
        BY <1>2
    <2>3. threadRun[u].pc # "busy"
        BY <1>2, <2>2 DEF Busy
    <2>4. \A d \in DeletionsOf(u) : threadRun[d].pc # "busy"
        BY DEF Busy, DeletionsOf
    <2>5. threadRun[u].left = <<>> /\ \A d \in DeletionsOf(u) : threadRun[d].left = <<>>
        BY <1>2, <2>2, <2>3, <2>4 DEF ThreadPlace, DeletionsOf
    <2>6. QED
        BY <2>2, <2>5 DEF Orphan
<1>4. untold \subseteq CostUploads
    BY <1>2 DEF CostUploads, Untold, Busy
<1>5. silent \subseteq CostUploads
    BY DEF CostUploads, Silent, Busy, DeletionsOf
<1>6. orphans \cap untold = {} /\ orphans \cap silent = {} /\ untold \cap silent = {}
    BY <1>2
<1>7. IsFiniteSet(CostUploads)
    BY ThreadAssumption, FS_Subset DEF CostUploads
<1>8. Cardinality(orphans) + Cardinality(untold) + Cardinality(silent) <= threadFaults
    <2> HIDE DEF orphans, untold, silent
    <2>1. /\ Cardinality(orphans) \in Nat /\ Cardinality(untold) \in Nat /\ Cardinality(silent) \in Nat
          /\ Cardinality(CostUploads) \in Nat
          /\ Cardinality(orphans) + Cardinality(untold) + Cardinality(silent) <= Cardinality(CostUploads)
        BY <1>3, <1>4, <1>5, <1>6, <1>7, ThreeCounted
    <2>2. QED
        BY <1>2, <2>1
<1>9. \A u \in Uploads : Cardinality({d \in threadRemoved : threadRun[d].target = u}) > 0
          => u \notin threadRows
    <2>1. SUFFICES ASSUME NEW u \in Uploads,
                          Cardinality({d \in threadRemoved : threadRun[d].target = u}) > 0
                   PROVE  u \notin threadRows
        OBVIOUS
    <2>2. {d \in threadRemoved : threadRun[d].target = u} # {}
        <3> DEFINE removed == {d \in threadRemoved : threadRun[d].target = u}
        <3>1. Cardinality(removed) > 0
            BY <2>1
        <3> HIDE DEF removed
        <3>2. removed # {}
            BY <3>1, FS_EmptySet
        <3>3. QED
            BY <3>2 DEF removed
    <2>3. QED
        BY <1>2, <2>2 DEF DeletionPlaced
<1>10. QED
    BY <1>2, <1>8, <1>9 DEF ThreadKept

LEMMA CommentsTell == ThreadInv => CommentsKept
<1>1. SUFFICES ASSUME ThreadInv PROVE CommentsKept
    OBVIOUS
<1>2. /\ \A c \in Comments : CommentPlaced(c) /\ threadRun[c] \in ThreadRun
      /\ threadAdded \subseteq ThreadRequests
      /\ threadFaults \in Nat /\ Cardinality(CostComments) <= threadFaults
    BY <1>1, ThreadAssumption DEF ThreadInv, ThreadTypeOK, CommentsPlaced, ThreadRequests
<1>3. \A c \in Comments : /\ threadRun[c].author.role \in {"CUSTOMER", "STAFF"}
                          /\ threadRun[c].author.asked \in {"PUBLIC", "INTERNAL", "none"}
    BY <1>2 DEF ThreadRun, ThreadAuthor
<1>4. {c \in CommentsFor("STAFF") : threadRun[c].author.role = "STAFF"}
          \ (threadAdded \cup Busy(Comments)) \subseteq CostComments
    BY DEF CommentsFor, Busy, CostComments
<1>5. IsFiniteSet(CostComments)
    BY ThreadAssumption, FS_Subset DEF CostComments
<1>6. Cardinality({c \in CommentsFor("STAFF") : threadRun[c].author.role = "STAFF"}
          \ (threadAdded \cup Busy(Comments))) <= threadFaults
    BY <1>2, <1>4, <1>5, PartCounted
<1>7. \A c \in CommentsFor("CUSTOMER") :
          threadRun[c].author.role = "STAFF" => threadRun[c].author.asked = "PUBLIC"
    BY <1>2, <1>3 DEF CommentsFor, CommentPlaced, ResolveVisibility
<1>8. \A c \in Comments : threadComments[c] = "INTERNAL" => threadRun[c].author.role = "STAFF"
    BY <1>2, <1>3 DEF CommentPlaced, ResolveVisibility
<1>9. QED
    BY <1>1, <1>2, <1>6, <1>7, <1>8 DEF CommentsKept, CommentPlaced, ThreadInv, ToldAfterEntry

\* A row names a file that is there, whatever fails and whoever overlaps; what
\* is orphaned, untold or silently gone was cost by a fault each, and no
\* customer reads an internal comment (TicketThread.ThreadAccounted).
THEOREM ThreadIsAccounted == ThreadSpec => []ThreadAccounted
<1>1. ThreadInv => ThreadAccounted
    BY AttachmentsTell, CommentsTell DEF ThreadAccounted
<1>2. QED
    BY <1>1, ThreadInitially, ThreadStep, PTL DEF ThreadSpec

-----------------------------------------------------------------------------
(* Who gets a ticket *)

RunType == [pc : {"new", "count", "assign", "history", "done"}, todo : Seq(RoutedTickets),
            uncounted : SUBSET AgentIds, loads : [RoutingUsers -> Nat],
            chosen : AgentIds \cup {NoAgent}, given : SUBSET AgentIds]

RoutingTyped ==
    /\ routeTicket \in [RoutedTickets -> RoutedTicket]
    /\ routeRun \in RunType
    /\ routeRequest \in [Routings ->
          [pc : {"new", "assign", "history", "done", "refused", "failed"},
           ticket : RoutedTickets, chosen : RoutingUsers \cup {NoAgent}]]
    /\ routeEntries \in [RoutedTickets -> Nat]
    /\ routeDrift \in Nat /\ routeFaults \in Nat

\* Where the run stands: it has counted all agents before it assigns, and has
\* chosen one only between the assignment and its entry.
RunPlaced ==
    /\ routeRun.pc \in {"count", "assign", "history"} => routeRun.todo # <<>>
    /\ routeRun.pc \in {"assign", "history"} => routeRun.uncounted = {}
    /\ routeRun.given # {} => routeRun.uncounted = {} /\ routeRun.pc \notin {"new", "count"}
    /\ routeRun.chosen \in AgentIds <=> routeRun.pc = "history"

Counted == IF routeRun.pc = "new" THEN {} ELSE AgentIds \ routeRun.uncounted

\* The run's own count, with the assignment that it is about to count.
OwnCount(u) ==
    routeRun.loads[u] + (IF routeRun.pc = "history" /\ routeRun.chosen = u THEN 1 ELSE 0)

CountError(u) == ActiveTickets(u) - OwnCount(u)

\* Others move the counts, and their differences, by the drift and no more.
DriftBounded ==
    \A u, v \in Counted :
        /\ CountError(u) <= routeDrift
        /\ 0 - CountError(u) <= routeDrift
        /\ CountError(u) - CountError(v) <= routeDrift

\* By its own count the run keeps those it gives tickets within one of the others.
OwnCountLevel ==
    /\ \A u \in routeRun.given, v \in AgentIds : routeRun.loads[u] <= routeRun.loads[v] + 1
    /\ routeRun.pc = "history" =>
          \A v \in AgentIds : routeRun.loads[routeRun.chosen] <= routeRun.loads[v]

\* Assigned tickets that lack an entry, and nobody is about to write it.
Unexplained ==
    {t \in RoutedTickets \ RoutingInFlight :
        routeTicket[t].assignee # NoAgent /\ routeEntries[t] = 0}

RoutingInv ==
    /\ RoutingTyped /\ RunPlaced /\ DriftBounded /\ OwnCountLevel
    /\ Cardinality(Unexplained) <= routeFaults

\* Between 0 and 1, what an agent has of one ticket.
Has(t, u) == IF routeTicket[t].open /\ routeTicket[t].assignee = u THEN 1 ELSE 0

LEMMA ActiveCounted ==
    ASSUME NEW u
    PROVE  /\ IsFiniteSet({t \in RoutedTickets : routeTicket[t].open /\ routeTicket[t].assignee = u})
           /\ ActiveTickets(u) \in Nat
<1>1. IsFiniteSet(RoutedTickets)
    BY RoutingAssumption, FS_Subset
<1>2. QED
    BY <1>1, PartCounted DEF ActiveTickets

\* By how much the run is wrong about an agent is a number.
LEMMA ErrorCounted ==
    ASSUME routeRun.loads \in [RoutingUsers -> Nat], NEW v \in AgentIds
    PROVE  /\ OwnCount(v) \in Nat /\ ActiveTickets(v) \in Nat
           /\ CountError(v) = ActiveTickets(v) - OwnCount(v)
<1>1. ActiveTickets(v) \in Nat
    BY ActiveCounted
<1>2. v \in RoutingUsers
    BY DEF RoutingUsers
<1>3. QED
    BY <1>1, <1>2 DEF OwnCount, CountError

LEMMA ActiveMoves ==
    ASSUME routeTicket \in [RoutedTickets -> RoutedTicket],
           NEW t \in RoutedTickets, NEW row \in RoutedTicket, routeTicket' = [routeTicket EXCEPT ![t] = row],
           NEW u
    PROVE  /\ ActiveTickets(u) \in Nat /\ ActiveTickets(u)' \in Nat
           /\ ActiveTickets(u)' =
                ActiveTickets(u) + (IF row.open /\ row.assignee = u THEN 1 ELSE 0) - Has(t, u)
<1> DEFINE S == {o \in RoutedTickets : routeTicket[o].open /\ routeTicket[o].assignee = u}
           after == {o \in RoutedTickets : routeTicket'[o].open /\ routeTicket'[o].assignee = u}
<1>1. IsFiniteSet(S) /\ Cardinality(S) \in Nat /\ ActiveTickets(u) = Cardinality(S)
    BY ActiveCounted DEF ActiveTickets
<1>2. ActiveTickets(u)' = Cardinality(after)
    BY DEF ActiveTickets
<1>3. t \in S <=> Has(t, u) = 1
    BY DEF Has
<1>4. /\ row.open /\ row.assignee = u => after = S \cup {t}
      /\ ~(row.open /\ row.assignee = u) => after = S \ {t}
    <2>1. \A o \in RoutedTickets : routeTicket'[o] = IF o = t THEN row ELSE routeTicket[o]
        OBVIOUS
    <2>2. QED
        BY <2>1
<1> HIDE DEF S, after
<1>5. /\ Cardinality(S \cup {t}) = IF t \in S THEN Cardinality(S) ELSE Cardinality(S) + 1
      /\ Cardinality(S \ {t}) = IF t \in S THEN Cardinality(S) - 1 ELSE Cardinality(S)
      /\ IsFiniteSet(S \cup {t}) /\ IsFiniteSet(S \ {t})
    BY <1>1, FS_AddElement, FS_RemoveElement
<1>6. Cardinality(S \cup {t}) \in Nat /\ Cardinality(S \ {t}) \in Nat
    BY <1>5, FS_CardinalityType
<1>7. Has(t, u) \in {0, 1}
    BY DEF Has
<1>8. CASE row.open /\ row.assignee = u
    <2>1. ActiveTickets(u)' = Cardinality(S \cup {t})
        BY <1>2, <1>4, <1>8
    <2>2. Cardinality(S \cup {t}) = Cardinality(S) + 1 - Has(t, u)
        BY <1>1, <1>3, <1>5, <1>7
    <2>3. QED
        BY <1>1, <1>6, <1>7, <1>8, <2>1, <2>2
<1>9. CASE ~(row.open /\ row.assignee = u)
    <2>1. ActiveTickets(u)' = Cardinality(S \ {t})
        BY <1>2, <1>4, <1>9
    <2>2. Cardinality(S \ {t}) = Cardinality(S) - Has(t, u)
        BY <1>1, <1>3, <1>5, <1>7
    <2>3. QED
        BY <1>1, <1>6, <1>7, <1>9, <2>1, <2>2
<1>10. QED
    BY <1>8, <1>9

\* The parts of the invariant that a step leaves as they are.
LEMMA RunStays ==
    ASSUME UNCHANGED routeRun
    PROVE  /\ RunPlaced => RunPlaced'
           /\ OwnCountLevel => OwnCountLevel'
           /\ Counted' = Counted
           /\ \A u : OwnCount(u)' = OwnCount(u)
<1>1. QED
    BY DEF RunPlaced, OwnCountLevel, Counted, OwnCount

LEMMA ErrorsStay ==
    ASSUME DriftBounded, UNCHANGED <<routeTicket, routeDrift>>,
           \A u \in Counted' : u \in Counted /\ OwnCount(u)' = OwnCount(u)
    PROVE  DriftBounded'
<1>1. \A u \in Counted' : CountError(u)' = CountError(u)
    BY DEF CountError, ActiveTickets
<1>2. QED
    BY <1>1 DEF DriftBounded

\* Every step but the assignments leaves the tickets that lack an entry as they
\* are; a fault adds one.
LEMMA UnexplainedStays ==
    ASSUME RoutingInv, Unexplained' \subseteq Unexplained, UNCHANGED routeFaults
    PROVE  Cardinality(Unexplained') <= routeFaults'
<1>1. IsFiniteSet(Unexplained)
    BY RoutingAssumption, PartCounted DEF Unexplained
<1>2. QED
    BY <1>1, PartCounted DEF RoutingInv, RoutingTyped

LEMMA UnexplainedGrows ==
    ASSUME RoutingInv, NEW t, Unexplained' \subseteq Unexplained \cup {t}, routeFaults' = routeFaults + 1
    PROVE  Cardinality(Unexplained') <= routeFaults'
<1>1. IsFiniteSet(Unexplained)
    BY RoutingAssumption, PartCounted DEF Unexplained
<1>2. QED
    BY <1>1, OneMoreCounted DEF RoutingInv, RoutingTyped

LEMMA RoutingInitially == RoutingInit => RoutingInv
<1>1. SUFFICES ASSUME RoutingInit PROVE RoutingInv
    OBVIOUS
<1>2. routeRun \in RunType
    <2>1. NoLoads \in [RoutingUsers -> Nat] /\ <<>> \in Seq(RoutedTickets)
        BY DEF NoLoads
    <2>2. QED
        BY <1>1, <2>1 DEF RoutingInit, RunType
<1>3. routeTicket \in [RoutedTickets -> RoutedTicket]
    <2>1. \A t \in RoutedTickets : routeTicket[t] \in RoutedTicket
        <3>1. TAKE t \in RoutedTickets
        <3>2. routeTicket[t] \in [open : {TRUE}, assignee : AgentIds \cup {NoAgent}, demand : Demands]
            BY <1>1 DEF RoutingInit
        <3>3. QED
            BY <3>2 DEF RoutedTicket, RoutingUsers
    <2>2. QED
        BY <1>1, <2>1 DEF RoutingInit
<1>4. routeRequest \in [Routings ->
          [pc : {"new", "assign", "history", "done", "refused", "failed"},
           ticket : RoutedTickets, chosen : RoutingUsers \cup {NoAgent}]]
    BY <1>1 DEF RoutingInit
<1>5. RoutingTyped
    BY <1>1, <1>2, <1>3, <1>4 DEF RoutingInit, RoutingTyped
<1>6. RunPlaced /\ DriftBounded /\ OwnCountLevel
    BY <1>1, RoutingAssumption DEF RoutingInit, RunPlaced, DriftBounded, OwnCountLevel, Counted, RoutingUsers
<1>7. Unexplained = {}
    BY <1>1 DEF RoutingInit, Unexplained
<1>8. QED
    BY <1>1, <1>5, <1>6, <1>7, FS_EmptySet DEF RoutingInit, RoutingInv

LEMMA FindAgentKeeps ==
    ASSUME RoutingInv, FindUnassigned
    PROVE  RoutingInv'
<1>1. PICK order \in SetToSeqs(Unassigned) :
          routeRun' = [routeRun EXCEPT !.todo = order, !.uncounted = AgentIds,
                           !.pc = IF order = <<>> \/ AgentIds = {} THEN "done" ELSE "count"]
    BY DEF FindUnassigned
<1>2. order \in Seq(RoutedTickets)
    <2>1. order \in [1..Cardinality(Unassigned) -> Unassigned]
        BY DEF SetToSeqs
    <2>2. IsFiniteSet(Unassigned) /\ Cardinality(Unassigned) \in Nat
        BY RoutingAssumption, PartCounted DEF Unassigned
    <2>3. order \in Seq(Unassigned)
        BY <2>1, <2>2
    <2>4. Unassigned \subseteq RoutedTickets
        BY DEF Unassigned
    <2>5. QED
        BY <2>3, <2>4
<1>3. UNCHANGED <<routeTicket, routeRequest, routeEntries, routeDrift, routeFaults>> /\ routeRun.pc = "new"
    BY DEF FindUnassigned
<1>4. /\ routeRun \in RunType /\ routeRun.given = {} /\ routeRun.chosen \notin AgentIds
    BY <1>3 DEF RoutingInv, RoutingTyped, RunPlaced
<1>5. /\ routeRun'.pc = IF order = <<>> \/ AgentIds = {} THEN "done" ELSE "count"
      /\ routeRun'.todo = order /\ routeRun'.uncounted = AgentIds
      /\ routeRun'.given = {} /\ routeRun'.chosen = routeRun.chosen
      /\ routeRun' \in RunType
    BY <1>1, <1>2, <1>4 DEF RunType
<1>6. RoutingTyped'
    BY <1>3, <1>5 DEF RoutingInv, RoutingTyped
<1>7. RunPlaced' /\ DriftBounded' /\ OwnCountLevel'
    <2>1. Counted' = {}
        BY <1>5 DEF Counted
    <2>2. QED
        BY <1>4, <1>5, <2>1 DEF RunPlaced, DriftBounded, OwnCountLevel
<1>8. Unexplained' = Unexplained
    BY <1>3, <1>5 DEF Unexplained, RoutingInFlight
<1>9. QED
    BY <1>3, <1>6, <1>7, <1>8, UnexplainedStays DEF RoutingInv

LEMMA CountKeeps ==
    ASSUME RoutingInv, NEW u \in AgentIds, CountWorkload(u)
    PROVE  RoutingInv'
<1>1. /\ routeRun.pc = "count" /\ u \in routeRun.uncounted
      /\ UNCHANGED <<routeTicket, routeRequest, routeEntries, routeDrift, routeFaults>>
    BY DEF CountWorkload
<1>2. /\ routeRun \in RunType /\ routeRun.given = {} /\ routeRun.chosen \notin AgentIds
      /\ u \in RoutingUsers /\ routeDrift \in Nat
    BY <1>1 DEF RoutingInv, RoutingTyped, RunPlaced, RoutingUsers
<1>3. ActiveTickets(u) \in Nat
    BY ActiveCounted
<1>4. /\ routeRun'.pc = IF routeRun.uncounted = {u} THEN "assign" ELSE "count"
      /\ routeRun'.todo = routeRun.todo /\ routeRun'.uncounted = routeRun.uncounted \ {u}
      /\ routeRun'.given = {} /\ routeRun'.chosen = routeRun.chosen
      /\ routeRun'.loads = [routeRun.loads EXCEPT ![u] = ActiveTickets(u)]
      /\ routeRun' \in RunType
    BY <1>2, <1>3 DEF RunType, CountWorkload
<1>5. RoutingTyped'
    BY <1>1, <1>4 DEF RoutingInv, RoutingTyped
<1>6. RunPlaced' /\ OwnCountLevel'
    BY <1>1, <1>2, <1>4 DEF RoutingInv, RunPlaced, OwnCountLevel
<1>7. DriftBounded'
    <2>1. Counted' = Counted \cup {u} /\ Counted \subseteq AgentIds
        BY <1>1, <1>2, <1>4 DEF Counted, RunType
    <2>2. routeRun.loads \in [RoutingUsers -> Nat] /\ AgentIds \subseteq RoutingUsers
        BY <1>2 DEF RunType, RoutingUsers
    <2>3. \A v \in AgentIds : /\ OwnCount(v) \in Nat /\ ActiveTickets(v) \in Nat
                              /\ CountError(v) = ActiveTickets(v) - OwnCount(v)
        BY <2>2, ErrorCounted
    <2>4. \A v \in AgentIds : CountError(v)' = IF v = u THEN 0 ELSE CountError(v)
        <3>1. TAKE v \in AgentIds
        <3>2. ActiveTickets(v)' = ActiveTickets(v)
            BY <1>1 DEF ActiveTickets
        <3>3. OwnCount(v)' = IF v = u THEN ActiveTickets(u) ELSE OwnCount(v)
            BY <1>1, <1>4, <2>2, <2>3 DEF OwnCount
        <3>4. QED
            BY <2>3, <3>2, <3>3 DEF CountError
    <2>5. \A v \in AgentIds : CountError(v) \in Int
        BY <2>3
    <2>6. QED
        BY <1>1, <1>2, <2>1, <2>4, <2>5 DEF RoutingInv, DriftBounded
<1>8. Unexplained' = Unexplained
    BY <1>1, <1>4 DEF Unexplained, RoutingInFlight
<1>9. QED
    BY <1>1, <1>5, <1>6, <1>7, <1>8, UnexplainedStays DEF RoutingInv

LEMMA AssignNextKeeps ==
    ASSUME RoutingInv, AssignNext
    PROVE  RoutingInv'
<1> DEFINE t == Head(routeRun.todo)
<1>1. PICK u \in LeastLoaded(AgentIds, routeRun.loads) :
          /\ AssignTo(t, u)
          /\ routeRun' = [routeRun EXCEPT !.chosen = u, !.pc = "history"]
    BY DEF AssignNext
<1>2. /\ routeRun.pc = "assign"
      /\ routeDrift' = IF t \in Unassigned THEN routeDrift ELSE routeDrift + 1
      /\ UNCHANGED <<routeRequest, routeEntries, routeFaults>>
    BY DEF AssignNext
<1>3. /\ u \in AgentIds /\ \A v \in AgentIds : routeRun.loads[u] <= routeRun.loads[v]
      /\ routeRun \in RunType /\ routeRun.uncounted = {} /\ routeDrift \in Nat
      /\ routeTicket \in [RoutedTickets -> RoutedTicket]
    BY <1>2 DEF LeastLoaded, RoutingInv, RoutingTyped, RunPlaced
<1>4. t \in RoutedTickets
    BY <1>2, <1>3 DEF RoutingInv, RunPlaced, RunType
<1>5. /\ routeRun'.pc = "history" /\ routeRun'.todo = routeRun.todo
      /\ routeRun'.uncounted = {} /\ routeRun'.given = routeRun.given
      /\ routeRun'.chosen = u /\ routeRun'.loads = routeRun.loads
      /\ routeRun' \in RunType
    BY <1>1, <1>3 DEF RunType
<1> DEFINE row == [routeTicket[t] EXCEPT !.assignee = u]
<1>6. /\ row \in RoutedTicket /\ row.assignee = u /\ row.open = routeTicket[t].open
      /\ routeTicket' = [routeTicket EXCEPT ![t] = row]
    BY <1>1, <1>3, <1>4 DEF AssignTo, RoutedTicket, RoutingUsers
<1>7. RoutingTyped'
    <2>1. routeDrift' \in Nat
        BY <1>2, <1>3
    <2> HIDE DEF row, t
    <2>2. routeTicket' \in [RoutedTickets -> RoutedTicket]
        BY <1>3, <1>6
    <2>3. QED
        BY <1>2, <1>5, <2>1, <2>2 DEF RoutingInv, RoutingTyped
<1>8. RunPlaced' /\ OwnCountLevel'
    BY <1>2, <1>3, <1>5 DEF RoutingInv, RunPlaced, OwnCountLevel, RunType
<1>9. DriftBounded'
    <2>1. Counted' = AgentIds /\ Counted = AgentIds
        BY <1>2, <1>3, <1>5 DEF Counted
    <2>2. routeRun.loads \in [RoutingUsers -> Nat] /\ AgentIds \subseteq RoutingUsers
        BY <1>3 DEF RunType, RoutingUsers
    <2>3. \A v \in AgentIds : /\ OwnCount(v) \in Nat /\ ActiveTickets(v) \in Nat
                              /\ CountError(v) = ActiveTickets(v) - OwnCount(v)
        BY <2>2, ErrorCounted
    <2>4. \A v \in AgentIds : OwnCount(v)' = OwnCount(v) + (IF v = u THEN 1 ELSE 0)
        BY <1>2, <1>5, <2>2 DEF OwnCount
    <2>5. \A v \in AgentIds :
             CountError(v)' = CountError(v) + (IF row.open /\ v = u THEN 1 ELSE 0) - Has(t, v)
                                  - (IF v = u THEN 1 ELSE 0)
        <3>1. TAKE v \in AgentIds
        <3> HIDE DEF row
        <3>2. /\ ActiveTickets(v) \in Nat /\ ActiveTickets(v)' \in Nat
              /\ ActiveTickets(v)' =
                    ActiveTickets(v) + (IF row.open /\ row.assignee = v THEN 1 ELSE 0) - Has(t, v)
            BY <1>3, <1>4, <1>6, ActiveMoves
        <3>3. Has(t, v) \in {0, 1}
            BY DEF Has
        <3>4. QED
            BY <1>6, <2>3, <2>4, <3>2, <3>3 DEF CountError
    <2>6. \A v \in AgentIds : CountError(v) \in Int
        BY <2>3
    <2>7. /\ t \in Unassigned => row.open /\ \A v \in AgentIds : Has(t, v) = 0
          /\ \A v, w \in AgentIds : v # w => Has(t, v) = 0 \/ Has(t, w) = 0
          /\ \A v \in AgentIds : Has(t, v) \in {0, 1} /\ (Has(t, v) = 1 => row.open)
        BY <1>6, RoutingAssumption DEF Unassigned, Has, RoutingUsers
    <2> HIDE DEF row, t
    <2>8. ASSUME NEW v \in AgentIds, NEW w \in AgentIds
          PROVE  /\ CountError(v)' <= routeDrift' /\ 0 - CountError(v)' <= routeDrift'
                 /\ CountError(v)' - CountError(w)' <= routeDrift'
        <3>1. /\ CountError(v) <= routeDrift /\ 0 - CountError(v) <= routeDrift
              /\ CountError(v) - CountError(w) <= routeDrift
            BY <2>1 DEF RoutingInv, DriftBounded
        <3>2. /\ CountError(v)' = CountError(v) + (IF row.open /\ v = u THEN 1 ELSE 0) - Has(t, v)
                                  - (IF v = u THEN 1 ELSE 0)
              /\ CountError(w)' = CountError(w) + (IF row.open /\ w = u THEN 1 ELSE 0) - Has(t, w)
                                  - (IF w = u THEN 1 ELSE 0)
            BY <2>5
        <3>3. CASE t \in Unassigned
            BY <1>2, <1>3, <2>6, <2>7, <3>1, <3>2, <3>3
        <3>4. CASE t \notin Unassigned
            <4>1. routeDrift' = routeDrift + 1 /\ routeDrift \in Nat
                BY <1>2, <1>3, <3>4
            <4>2. /\ CountError(v) \in Int /\ CountError(w) \in Int
                  /\ Has(t, v) \in {0, 1} /\ Has(t, w) \in {0, 1}
                  /\ Has(t, v) = 1 \/ Has(t, w) = 1 => row.open
                BY <2>6, <2>7
            <4>3. CASE v = w
                BY <3>1, <3>2, <4>1, <4>2, <4>3
            <4>4. CASE v # w /\ v = u
                BY <3>1, <3>2, <4>1, <4>2, <4>4
            <4>5. CASE v # w /\ v # u
                BY <2>7, <3>1, <3>2, <4>1, <4>2, <4>5
            <4>6. QED
                BY <4>3, <4>4, <4>5
        <3>5. QED
            BY <3>3, <3>4
    <2>9. QED
        BY <2>1, <2>8 DEF DriftBounded
<1>10. Unexplained' \subseteq Unexplained
    BY <1>1, <1>2, <1>3, <1>4, <1>5 DEF Unexplained, RoutingInFlight, AssignTo
<1>11. QED
    BY <1>2, <1>7, <1>8, <1>9, <1>10, UnexplainedStays DEF RoutingInv

\* The run goes on with the next ticket, or ends.
LEMMA RoutingGoesOn ==
    ASSUME RoutingInv, routeRun.pc \in {"assign", "history"}, NEW loads \in [RoutingUsers -> Nat],
           NextTicket(loads)
    PROVE  /\ Head(routeRun.todo) \in RoutedTickets
           /\ routeRun'.pc \in {"done", "assign"}
           /\ routeRun'.pc = "assign" => routeRun'.todo # <<>>
           /\ routeRun'.uncounted = {} /\ routeRun'.loads = loads
           /\ routeRun'.given = routeRun.given \cup (IF routeRun.pc = "history" THEN {routeRun.chosen} ELSE {})
           /\ routeRun'.chosen = NoAgent
           /\ routeRun' \in RunType /\ routeRun.uncounted = {}
           /\ RunPlaced'
           /\ Counted = AgentIds /\ Counted' = AgentIds
<1>1. /\ routeRun \in RunType /\ routeRun.uncounted = {} /\ routeRun.todo # <<>>
      /\ routeRun.todo \in Seq(RoutedTickets) /\ NoAgent \notin AgentIds
      /\ routeRun.chosen \in AgentIds <=> routeRun.pc = "history"
    BY RoutingAssumption DEF RoutingInv, RoutingTyped, RunPlaced, RunType, RoutingUsers
<1>2. Head(routeRun.todo) \in RoutedTickets /\ Tail(routeRun.todo) \in Seq(RoutedTickets)
    BY <1>1
<1>3. /\ routeRun'.todo = Tail(routeRun.todo) /\ routeRun'.loads = loads /\ routeRun'.chosen = NoAgent
      /\ routeRun'.uncounted = {}
      /\ routeRun'.given = routeRun.given \cup ({routeRun.chosen} \ {NoAgent})
      /\ routeRun'.pc = IF Tail(routeRun.todo) = <<>> THEN "done" ELSE "assign"
    BY <1>1 DEF NextTicket, RunType
<1>4. ({routeRun.chosen} \ {NoAgent}) = IF routeRun.pc = "history" THEN {routeRun.chosen} ELSE {}
    BY <1>1 DEF RunType
<1>5. routeRun' \in RunType
    BY <1>1, <1>2, <1>3 DEF NextTicket, RunType
<1>6. QED
    BY <1>1, <1>2, <1>3, <1>4, <1>5 DEF RunPlaced, Counted

LEMMA RecordAssignmentKeeps ==
    ASSUME RoutingInv, RecordAssignment
    PROVE  RoutingInv'
<1> DEFINE t == Head(routeRun.todo)
           u == routeRun.chosen
           loads == [routeRun.loads EXCEPT ![u] = @ + 1]
<1>1. /\ routeRun.pc = "history" /\ NextTicket(loads)
      /\ routeEntries' = [routeEntries EXCEPT ![t] = @ + 1]
      /\ UNCHANGED <<routeTicket, routeRequest, routeDrift, routeFaults>>
    BY DEF RecordAssignment, CountsIts
<1>2. /\ routeRun \in RunType /\ u \in AgentIds /\ u \in RoutingUsers
      /\ routeRun.loads \in [RoutingUsers -> Nat] /\ AgentIds \subseteq RoutingUsers
      /\ routeRun.given \subseteq AgentIds
      /\ routeEntries \in [RoutedTickets -> Nat]
    BY <1>1 DEF RoutingInv, RoutingTyped, RunPlaced, RoutingUsers, RunType
<1>3. loads \in [RoutingUsers -> Nat] /\ \A v \in RoutingUsers : loads[v] = routeRun.loads[v] + (IF v = u THEN 1 ELSE 0)
    BY <1>2
<1> HIDE DEF loads, u
<1>4. /\ t \in RoutedTickets
      /\ routeRun'.pc \in {"done", "assign"}
      /\ routeRun'.loads = loads
      /\ routeRun'.given = routeRun.given \cup {u}
      /\ routeRun'.chosen = NoAgent
      /\ routeRun' \in RunType
      /\ RunPlaced'
      /\ Counted = AgentIds /\ Counted' = AgentIds
    BY <1>1, <1>3, RoutingGoesOn DEF u
<1>5. RoutingTyped'
    BY <1>1, <1>2, <1>4 DEF RoutingInv, RoutingTyped
<1>6. OwnCountLevel'
    <2>1. \A v \in AgentIds : routeRun.loads[u] <= routeRun.loads[v]
        BY <1>1 DEF RoutingInv, OwnCountLevel, u
    <2>2. \A w \in routeRun.given, v \in AgentIds : routeRun.loads[w] <= routeRun.loads[v] + 1
        BY DEF RoutingInv, OwnCountLevel
    <2>3. \A v \in AgentIds : routeRun.loads[v] \in Nat
        BY <1>2
    <2>4. QED
        BY <1>2, <1>3, <1>4, <2>1, <2>2, <2>3 DEF OwnCountLevel
<1>7. DriftBounded'
    <2>1. \A v \in AgentIds : OwnCount(v)' = OwnCount(v)
        BY <1>1, <1>2, <1>3, <1>4 DEF OwnCount, u
    <2>2. QED
        BY <1>1, <1>4, <2>1, ErrorsStay DEF RoutingInv
<1>8. Unexplained' \subseteq Unexplained
    <2>1. routeEntries'[t] # 0
        BY <1>1, <1>2, <1>4
    <2>2. RoutingInFlight \subseteq RoutingInFlight' \cup {t}
        BY <1>1 DEF RoutingInFlight
    <2>3. QED
        BY <1>1, <1>2, <1>4, <2>1, <2>2 DEF Unexplained
<1>9. QED
    BY <1>1, <1>4, <1>5, <1>6, <1>7, <1>8, UnexplainedStays DEF RoutingInv

LEMMA AssignmentFaultKeeps ==
    ASSUME RoutingInv, AssignmentFails
    PROVE  RoutingInv'
<1> DEFINE t == Head(routeRun.todo)
           u == routeRun.chosen
           loads == routeRun.loads
<1>1. /\ routeFaults' = routeFaults + 1 /\ NextTicket(loads)
      /\ routeRun.pc \in {"assign", "history"}
      /\ UNCHANGED <<routeTicket, routeRequest>>
    BY DEF AssignmentFails, RoutingFault
<1>2. /\ routeRun \in RunType /\ routeRun.loads \in [RoutingUsers -> Nat] /\ AgentIds \subseteq RoutingUsers
      /\ routeRun.given \subseteq AgentIds /\ (routeRun.pc = "history" => u \in AgentIds)
      /\ routeEntries \in [RoutedTickets -> Nat] /\ routeDrift \in Nat /\ routeFaults \in Nat
    BY <1>1 DEF RoutingInv, RoutingTyped, RunPlaced, RoutingUsers, RunType
<1>3. /\ t \in RoutedTickets
      /\ routeRun'.pc \in {"done", "assign"}
      /\ routeRun'.loads = loads
      /\ routeRun'.given = routeRun.given \cup (IF routeRun.pc = "history" THEN {u} ELSE {})
      /\ routeRun'.chosen = NoAgent
      /\ routeRun' \in RunType
      /\ RunPlaced'
      /\ Counted = AgentIds /\ Counted' = AgentIds
    BY <1>1, <1>2, RoutingGoesOn
<1>4. /\ routeEntries' \in [RoutedTickets -> Nat]
      /\ \A o \in RoutedTickets : o # t => routeEntries'[o] = routeEntries[o]
      /\ routeRun.pc = "assign" => routeEntries' = routeEntries
      /\ routeDrift' = routeDrift + (IF routeRun.pc = "history" THEN 1 ELSE 0)
    BY <1>1, <1>2, <1>3 DEF AssignmentFails
<1>5. RoutingTyped'
    BY <1>1, <1>2, <1>3, <1>4 DEF RoutingInv, RoutingTyped
<1>6. OwnCountLevel'
    <2>1. routeRun.pc = "history" => \A v \in AgentIds : routeRun.loads[u] <= routeRun.loads[v]
        BY <1>1 DEF RoutingInv, OwnCountLevel
    <2>2. \A w \in routeRun.given, v \in AgentIds : routeRun.loads[w] <= routeRun.loads[v] + 1
        BY DEF RoutingInv, OwnCountLevel
    <2>3. \A v \in AgentIds : routeRun.loads[v] \in Nat
        BY <1>2
    <2>4. QED
        BY <1>2, <1>3, <2>1, <2>2, <2>3 DEF OwnCountLevel
<1>7. DriftBounded'
    <2>1. \A v \in AgentIds : /\ OwnCount(v) \in Nat /\ ActiveTickets(v) \in Nat
                              /\ CountError(v) = ActiveTickets(v) - OwnCount(v)
        BY <1>2, ErrorCounted
    <2>2. \A v \in AgentIds : OwnCount(v)' = OwnCount(v) - (IF routeRun.pc = "history" /\ v = u THEN 1 ELSE 0)
        BY <1>2, <1>3 DEF OwnCount
    <2>3. \A v \in AgentIds : CountError(v)' = CountError(v) + (IF routeRun.pc = "history" /\ v = u THEN 1 ELSE 0)
        <3>1. TAKE v \in AgentIds
        <3>2. ActiveTickets(v)' = ActiveTickets(v)
            BY <1>1 DEF ActiveTickets
        <3>3. QED
            BY <2>1, <2>2, <3>2 DEF CountError
    <2>4. \A v \in AgentIds : CountError(v) \in Int
        BY <2>1
    <2>5. QED
        BY <1>2, <1>3, <1>4, <2>3, <2>4 DEF RoutingInv, DriftBounded
<1>8. Unexplained' \subseteq Unexplained \cup {t}
    <2>1. RoutingInFlight \subseteq RoutingInFlight' \cup {t}
        BY <1>1 DEF RoutingInFlight
    <2>2. QED
        BY <1>1, <1>4, <2>1 DEF Unexplained
<1>9. QED
    BY <1>1, <1>3, <1>5, <1>6, <1>7, <1>8, UnexplainedGrows DEF RoutingInv

LEMMA ChooseKeeps ==
    ASSUME RoutingInv, NEW r \in Routings, ChooseAgent(r)
    PROVE  RoutingInv'
<1>1. /\ routeRequest[r].pc = "new"
      /\ UNCHANGED <<routeTicket, routeRun, routeEntries, routeDrift, routeFaults>>
    BY DEF ChooseAgent
<1>2. /\ \A q \in Routings : q # r => routeRequest'[q] = routeRequest[q]
      /\ routeRequest'[r].pc # "history"
      /\ routeRequest' \in [Routings ->
          [pc : {"new", "assign", "history", "done", "refused", "failed"},
           ticket : RoutedTickets, chosen : RoutingUsers \cup {NoAgent}]]
    <2> DEFINE ticket == routeTicket[routeRequest[r].ticket]
    <2>1. /\ Eligible(ticket.demand) \subseteq RoutingUsers
          /\ BestAgents(Eligible(ticket.demand)) \subseteq Eligible(ticket.demand)
        BY DEF Eligible, BestAgents, LeastLoaded, RoutingUsers
    <2>2. routeRequest \in [Routings ->
          [pc : {"new", "assign", "history", "done", "refused", "failed"},
           ticket : RoutedTickets, chosen : RoutingUsers \cup {NoAgent}]]
        BY DEF RoutingInv, RoutingTyped
    <2>3. \/ routeRequest' = [routeRequest EXCEPT ![r].pc = "refused"]
          \/ \E u \in RoutingUsers : routeRequest' = [routeRequest EXCEPT ![r].pc = "assign", ![r].chosen = u]
        BY <2>1 DEF ChooseAgent
    <2>4. QED
        BY <2>2, <2>3
<1>3. RoutingTyped'
    BY <1>1, <1>2 DEF RoutingInv, RoutingTyped
<1>4. DriftBounded'
    BY <1>1, RunStays, ErrorsStay DEF RoutingInv
<1>5. Unexplained' \subseteq Unexplained
    BY <1>1, <1>2 DEF Unexplained, RoutingInFlight
<1>6. QED
    BY <1>1, <1>3, <1>4, <1>5, RunStays, UnexplainedStays DEF RoutingInv

\* A ticket that another moves, or closes, brings the counts apart by what it moves.
LEMMA OthersDrift ==
    ASSUME RoutingInv, UNCHANGED routeRun, NEW t \in RoutedTickets, NEW row \in RoutedTicket,
           routeTicket' = [routeTicket EXCEPT ![t] = row],
           NEW n \in 1..2, Drifts(n), row.open => n = 2
    PROVE  DriftBounded' /\ routeDrift' \in Nat
<1>1. /\ routeTicket \in [RoutedTickets -> RoutedTicket] /\ routeDrift \in Nat /\ routeRun \in RunType
    BY DEF RoutingInv, RoutingTyped
<1>2. routeDrift' = IF routeRun.pc # "new" THEN routeDrift + n ELSE routeDrift
    BY DEF Drifts, RunMatters
<1>3. /\ \A u : OwnCount(u)' = OwnCount(u)
      /\ Counted' = Counted /\ Counted \subseteq AgentIds /\ (routeRun.pc = "new" => Counted = {})
    BY RunStays DEF Counted
<1>4. routeRun.loads \in [RoutingUsers -> Nat] /\ AgentIds \subseteq RoutingUsers
    BY <1>1 DEF RunType, RoutingUsers
<1>5. \A v \in AgentIds : /\ OwnCount(v) \in Nat /\ ActiveTickets(v) \in Nat
                          /\ CountError(v) = ActiveTickets(v) - OwnCount(v)
    BY <1>4, ErrorCounted
<1>6. \A v \in AgentIds : CountError(v)' =
          CountError(v) + (IF row.open /\ row.assignee = v THEN 1 ELSE 0) - Has(t, v)
    <2>1. TAKE v \in AgentIds
    <2>2. /\ ActiveTickets(v) \in Nat /\ ActiveTickets(v)' \in Nat
          /\ ActiveTickets(v)' = ActiveTickets(v) + (IF row.open /\ row.assignee = v THEN 1 ELSE 0) - Has(t, v)
        BY <1>1, ActiveMoves
    <2>3. Has(t, v) \in {0, 1}
        BY DEF Has
    <2>4. QED
        BY <1>3, <1>5, <2>2, <2>3 DEF CountError
<1>7. \A v \in AgentIds : CountError(v) \in Int /\ Has(t, v) \in {0, 1}
    BY <1>5 DEF Has
<1>8. QED
    BY <1>1, <1>2, <1>3, <1>6, <1>7 DEF RoutingInv, DriftBounded

LEMMA RouteKeeps ==
    ASSUME RoutingInv, NEW r \in Routings, RouteTicket(r)
    PROVE  RoutingInv'
<1> DEFINE t == routeRequest[r].ticket
           u == routeRequest[r].chosen
           row == [routeTicket[t] EXCEPT !.assignee = u]
<1>1. /\ routeRequest[r].pc = "assign" /\ AssignTo(t, u) /\ Drifts(2)
      /\ routeRequest' = [routeRequest EXCEPT ![r].pc = "history"]
      /\ UNCHANGED <<routeRun, routeEntries, routeFaults>>
    BY DEF RouteTicket
<1>2. routeRequest \in [Routings ->
          [pc : {"new", "assign", "history", "done", "refused", "failed"},
           ticket : RoutedTickets, chosen : RoutingUsers \cup {NoAgent}]]
      /\ routeTicket \in [RoutedTickets -> RoutedTicket]
    BY DEF RoutingInv, RoutingTyped
<1>3. t \in RoutedTickets /\ u \in RoutingUsers \cup {NoAgent}
    BY <1>2
<1>4. /\ routeRequest' \in [Routings ->
          [pc : {"new", "assign", "history", "done", "refused", "failed"},
           ticket : RoutedTickets, chosen : RoutingUsers \cup {NoAgent}]]
      /\ routeRequest'[r].pc = "history" /\ routeRequest'[r].ticket = t
      /\ \A q \in Routings : q # r => routeRequest'[q] = routeRequest[q]
    BY <1>1, <1>2
<1>5. row \in RoutedTicket /\ routeTicket' = [routeTicket EXCEPT ![t] = row]
    BY <1>1, <1>2, <1>3 DEF AssignTo, RoutedTicket
<1>6. \A o \in RoutedTickets : o # t => routeTicket'[o] = routeTicket[o]
    BY <1>5
<1> HIDE DEF t, u, row
<1>7. DriftBounded' /\ routeDrift' \in Nat
    <2>1. 2 \in 1..2
        OBVIOUS
    <2>2. QED
        BY <1>1, <1>3, <1>5, <2>1, OthersDrift
<1>8. RoutingTyped'
    BY <1>1, <1>2, <1>3, <1>4, <1>5, <1>7 DEF RoutingInv, RoutingTyped
<1>9. Unexplained' \subseteq Unexplained
    <2>1. RoutingInFlight \subseteq RoutingInFlight' /\ t \in RoutingInFlight'
        BY <1>1, <1>4 DEF RoutingInFlight
    <2>2. QED
        BY <1>1, <1>6, <2>1 DEF Unexplained
<1>10. QED
    BY <1>1, <1>7, <1>8, <1>9, RunStays, UnexplainedStays DEF RoutingInv

LEMMA RecordRoutingKeeps ==
    ASSUME RoutingInv, NEW r \in Routings, RecordRouting(r)
    PROVE  RoutingInv'
<1> DEFINE t == routeRequest[r].ticket
<1>1. /\ routeRequest[r].pc = "history"
      /\ routeEntries' = [routeEntries EXCEPT ![t] = @ + 1]
      /\ routeRequest' = [routeRequest EXCEPT ![r].pc = "done"]
      /\ UNCHANGED <<routeTicket, routeRun, routeDrift, routeFaults>>
    BY DEF RecordRouting
<1>2. /\ routeRequest \in [Routings ->
            [pc : {"new", "assign", "history", "done", "refused", "failed"},
             ticket : RoutedTickets, chosen : RoutingUsers \cup {NoAgent}]]
      /\ routeEntries \in [RoutedTickets -> Nat]
    BY DEF RoutingInv, RoutingTyped
<1>3. t \in RoutedTickets
    BY <1>2
<1>4. /\ routeRequest' \in [Routings ->
            [pc : {"new", "assign", "history", "done", "refused", "failed"},
             ticket : RoutedTickets, chosen : RoutingUsers \cup {NoAgent}]]
      /\ \A q \in Routings : q # r => routeRequest'[q] = routeRequest[q]
    BY <1>1, <1>2
<1>5. /\ routeEntries' \in [RoutedTickets -> Nat] /\ routeEntries'[t] # 0
      /\ \A o \in RoutedTickets : o # t => routeEntries'[o] = routeEntries[o]
    BY <1>1, <1>2, <1>3
<1> HIDE DEF t
<1>6. RoutingTyped'
    BY <1>1, <1>4, <1>5 DEF RoutingInv, RoutingTyped
<1>7. DriftBounded'
    BY <1>1, RunStays, ErrorsStay DEF RoutingInv
<1>8. Unexplained' \subseteq Unexplained
    <2>1. RoutingInFlight \subseteq RoutingInFlight' \cup {t}
        BY <1>1, <1>4 DEF RoutingInFlight, t
    <2>2. QED
        BY <1>1, <1>5, <2>1 DEF Unexplained
<1>9. QED
    BY <1>1, <1>6, <1>7, <1>8, RunStays, UnexplainedStays DEF RoutingInv

LEMMA RoutingFaultKeeps ==
    ASSUME RoutingInv, NEW r \in Routings, RoutingFails(r)
    PROVE  RoutingInv'
<1> DEFINE t == routeRequest[r].ticket
<1>1. /\ routeFaults' = routeFaults + 1
      /\ routeRequest' = [routeRequest EXCEPT ![r].pc = "failed"]
      /\ UNCHANGED <<routeTicket, routeRun, routeEntries, routeDrift>>
    BY DEF RoutingFails, RoutingFault
<1>2. /\ routeRequest \in [Routings ->
            [pc : {"new", "assign", "history", "done", "refused", "failed"},
             ticket : RoutedTickets, chosen : RoutingUsers \cup {NoAgent}]]
      /\ routeFaults \in Nat
    BY DEF RoutingInv, RoutingTyped
<1>3. /\ routeRequest' \in [Routings ->
            [pc : {"new", "assign", "history", "done", "refused", "failed"},
             ticket : RoutedTickets, chosen : RoutingUsers \cup {NoAgent}]]
      /\ \A q \in Routings : q # r => routeRequest'[q] = routeRequest[q]
    BY <1>1, <1>2
<1>4. RoutingTyped'
    BY <1>1, <1>2, <1>3 DEF RoutingInv, RoutingTyped
<1>5. DriftBounded'
    BY <1>1, RunStays, ErrorsStay DEF RoutingInv
<1>6. Unexplained' \subseteq Unexplained \cup {t}
    <2>1. RoutingInFlight \subseteq RoutingInFlight' \cup {t}
        BY <1>1, <1>3 DEF RoutingInFlight
    <2>2. QED
        BY <1>1, <2>1 DEF Unexplained
<1>7. QED
    BY <1>1, <1>4, <1>5, <1>6, RunStays, UnexplainedGrows DEF RoutingInv

LEMMA OthersKeep ==
    ASSUME RoutingInv, NEW t \in RoutedTickets, OthersFinish(t)
    PROVE  RoutingInv'
<1> DEFINE row == [routeTicket[t] EXCEPT !.open = FALSE]
<1>1. /\ routeTicket' = [routeTicket EXCEPT ![t].open = FALSE] /\ Drifts(1)
      /\ UNCHANGED <<routeRun, routeRequest, routeEntries, routeFaults>>
    BY DEF OthersFinish
<1>2. routeTicket \in [RoutedTickets -> RoutedTicket]
    BY DEF RoutingInv, RoutingTyped
<1>3. /\ row \in RoutedTicket /\ routeTicket' = [routeTicket EXCEPT ![t] = row]
      /\ ~row.open /\ row.assignee = routeTicket[t].assignee
    BY <1>1, <1>2 DEF RoutedTicket
<1>4. \A o \in RoutedTickets : routeTicket'[o].assignee = routeTicket[o].assignee
    BY <1>2, <1>3
<1> HIDE DEF row
<1>5. DriftBounded' /\ routeDrift' \in Nat
    <2>1. 1 \in 1..2
        OBVIOUS
    <2>2. QED
        BY <1>1, <1>3, <2>1, OthersDrift
<1>6. RoutingTyped'
    BY <1>1, <1>2, <1>3, <1>5 DEF RoutingInv, RoutingTyped
<1>7. Unexplained' = Unexplained
    BY <1>1, <1>4 DEF Unexplained, RoutingInFlight
<1>8. QED
    BY <1>1, <1>5, <1>6, <1>7, RunStays, UnexplainedStays DEF RoutingInv

LEMMA RoutingStep == RoutingInv /\ [RoutingNext]_routeVars => RoutingInv'
<1>1. SUFFICES ASSUME RoutingInv, [RoutingNext]_routeVars PROVE RoutingInv'
    OBVIOUS
<1>2. CASE UNCHANGED routeVars
    <2>1. UNCHANGED <<routeTicket, routeRun, routeRequest, routeEntries, routeDrift, routeFaults>>
        BY <1>2 DEF routeVars
    <2>2. DriftBounded'
        BY <1>1, <2>1, RunStays, ErrorsStay DEF RoutingInv
    <2>3. Unexplained' = Unexplained
        BY <2>1 DEF Unexplained, RoutingInFlight
    <2>4. QED
        BY <1>1, <2>1, <2>2, <2>3, RunStays DEF RoutingInv, RoutingTyped
<1>3. QED
    BY <1>1, <1>2, FindAgentKeeps, CountKeeps, AssignNextKeeps, RecordAssignmentKeeps, AssignmentFaultKeeps,
       ChooseKeeps, RouteKeeps, RecordRoutingKeeps, RoutingFaultKeeps, OthersKeep DEF RoutingNext

LEMMA RoutingIsFair == RoutingInv => RoutedFairly
<1>1. SUFFICES ASSUME RoutingInv PROVE RoutedFairly
    OBVIOUS
<1>2. ASSUME routeRun.pc = "done", NEW u \in routeRun.given, NEW v \in AgentIds
      PROVE  ActiveTickets(u) <= ActiveTickets(v) + 1 + routeDrift
    <2>1. /\ routeRun \in RunType /\ routeRun.uncounted = {} /\ u \in AgentIds /\ routeDrift \in Nat
          /\ routeRun.loads \in [RoutingUsers -> Nat] /\ u \in RoutingUsers /\ v \in RoutingUsers
        BY <1>1, <1>2 DEF RoutingInv, RoutingTyped, RunPlaced, RunType, RoutingUsers
    <2>2. u \in Counted /\ v \in Counted
        BY <1>2, <2>1 DEF Counted
    <2>3. OwnCount(u) = routeRun.loads[u] /\ OwnCount(v) = routeRun.loads[v]
          /\ routeRun.loads[u] \in Nat /\ routeRun.loads[v] \in Nat
        BY <1>2, <2>1 DEF OwnCount
    <2>4. routeRun.loads[u] <= routeRun.loads[v] + 1
        BY <1>1 DEF RoutingInv, OwnCountLevel
    <2>5. ActiveTickets(u) \in Nat /\ ActiveTickets(v) \in Nat
        BY ActiveCounted
    <2>6. CountError(u) - CountError(v) <= routeDrift
        BY <1>1, <2>2 DEF RoutingInv, DriftBounded
    <2>7. QED
        BY <2>1, <2>3, <2>4, <2>5, <2>6 DEF CountError
<1>3. QED
    BY <1>1, <1>2 DEF RoutedFairly, RoutingInv, Unexplained

\* However the automatic assignment overlaps with routings and with others' changes,
\* the agents it gave tickets end within one ticket of every other, and one more
\* for each load changed behind its count (TicketRouting.RoutedFairly).
THEOREM RoutingIsEven == RoutingSpec => []RoutedFairly
<1>1. QED
    BY RoutingInitially, RoutingStep, RoutingIsFair, PTL DEF RoutingSpec

=================================================================================
