-------------------------- MODULE AuditChainProofs --------------------------
(***************************************************************************)
(* Proofs about AuditChain for every set of processes, every finite set of *)
(* entries and every choice of faults.                                     *)
(***************************************************************************)
EXTENDS AuditChain, WellFoundedInduction, TLAPS

-----------------------------------------------------------------------------
(* Lemmas about numbers, chains and the newest record *)

LEMMA SmallestNumber ==
    ASSUME NEW S \in SUBSET Nat, S # {}
    PROVE  \E m \in S : \A n \in S : m <= n
<1>1. \E m \in S : \A n \in S : <<n, m>> \notin OpToRel(<, Nat)
  BY NatLessThanWellFounded, WFMin, Zenon
<1>2. PICK m \in S : \A n \in S : <<n, m>> \notin OpToRel(<, Nat)
  BY <1>1
<1>3. \A n \in S : ~(n < m)
  BY <1>2 DEF OpToRel
<1>4. QED
  BY <1>3

LEMMA ChainFacts ==
    ASSUME TypeOK, NEW p \in Processes, chain[p] # <<>>
    PROVE  /\ Head(chain[p]) = chain[p][1] /\ Head(chain[p]) \in Entries
           /\ Len(chain[p]) \in Nat \ {0}
           /\ Tail(chain[p]) \in Seq(Entries)
           /\ Len(Tail(chain[p])) = Len(chain[p]) - 1
           /\ \A i \in 1..Len(Tail(chain[p])) : Tail(chain[p])[i] = chain[p][i + 1]
<1>1. chain[p] \in Seq(Entries)
  BY DEF TypeOK
<1>2. QED
  BY <1>1

\* A record that was inserted has a sequence number above that of the genesis.
LEMMA InsertedFacts ==
    ASSUME TypeOK, LinksPointBack, NEW e \in Inserted
    PROVE  /\ e \in Entries
           /\ rows[e].seq \in Nat \ {0}
           /\ rows[e].seq < nextSeq
           /\ rows[e].by \in Processes
BY DEF TypeOK, LinksPointBack, Inserted

LEMMA VisibleInserted == Visible \subseteq Inserted
BY DEF Visible, Inserted

LEMMA SeqOfType ==
    ASSUME AuditAssumption, TypeOK, NEW link \in Entries \cup {Genesis}
    PROVE  SeqOf(link) \in Nat
BY DEF SeqOf, TypeOK, Row

\* The largest sequence number of a set of records is one of a record.
LEMMA HighestSeq ==
    ASSUME TypeOK, LinksPointBack, NEW S \in SUBSET Inserted, S # {}
    PROVE  \E e \in S : \A f \in S : rows[f].seq <= rows[e].seq
<1> DEFINE Gaps == {nextSeq - rows[e].seq : e \in S}
<1>1. \A e \in S : rows[e].seq \in Nat /\ rows[e].seq < nextSeq
  BY InsertedFacts
<1>2. nextSeq \in Nat
  BY DEF TypeOK
<1>3. Gaps \in SUBSET Nat /\ Gaps # {}
  BY <1>1, <1>2
<1>4. PICK m \in Gaps : \A n \in Gaps : m <= n
  BY <1>3, SmallestNumber
<1>5. PICK e \in S : m = nextSeq - rows[e].seq
  OBVIOUS
<1>6. ASSUME NEW f \in S PROVE rows[f].seq <= rows[e].seq
  <2>1. nextSeq - rows[f].seq \in Gaps
    OBVIOUS
  <2>2. nextSeq - rows[e].seq <= nextSeq - rows[f].seq
    BY <1>4, <1>5, <2>1
  <2>3. QED
    BY <1>1, <1>2, <2>2
<1>7. QED
  BY <1>6

LEMMA LowestSeq ==
    ASSUME TypeOK, LinksPointBack, NEW S \in SUBSET Inserted, S # {}
    PROVE  \E e \in S : \A f \in S : rows[e].seq <= rows[f].seq
<1> DEFINE Seqs == {rows[e].seq : e \in S}
<1>1. Seqs \in SUBSET Nat /\ Seqs # {}
  BY InsertedFacts
<1>2. PICK m \in Seqs : \A n \in Seqs : m <= n
  BY <1>1, SmallestNumber
<1>3. QED
  BY <1>2

LEMMA NewestFacts ==
    ASSUME TypeOK, LinksPointBack, NEW S \in SUBSET Inserted
    PROVE  /\ S = {} => NewestOf(S) = Genesis
           /\ S # {} => /\ NewestOf(S) \in S
                        /\ \A f \in S : rows[f].seq <= rows[NewestOf(S)].seq
<1>1. CASE S = {}
  BY <1>1 DEF NewestOf
<1>2. CASE S # {}
  <2>1. \E e \in S : \A f \in S : rows[f].seq <= rows[e].seq
    BY <1>2, HighestSeq
  <2>2. NewestOf(S) = CHOOSE e \in S : \A f \in S : rows[f].seq <= rows[e].seq
    BY <1>2 DEF NewestOf
  <2>3. QED
    BY <1>2, <2>1, <2>2
<1>3. QED
  BY <1>1, <1>2

\* It is the only one.
LEMMA NewestUnique ==
    ASSUME TypeOK, LinksPointBack, NEW S \in SUBSET Inserted, NEW e \in S,
           \A f \in S : rows[f].seq <= rows[e].seq
    PROVE  NewestOf(S) = e
<1>1. /\ NewestOf(S) \in S
      /\ rows[e].seq <= rows[NewestOf(S)].seq
      /\ rows[NewestOf(S)].seq <= rows[e].seq
  BY NewestFacts
<1>2. rows[e].seq = rows[NewestOf(S)].seq
  BY <1>1, InsertedFacts
<1>3. QED
  BY <1>1, <1>2 DEF LinksPointBack

-----------------------------------------------------------------------------
(* Types *)

LEMMA FaultType ==
    ASSUME AuditAssumption, TypeOK, NEW kind, Fault(kind)
    PROVE  faults' \in 0..MaxFaults
BY DEF Fault, TypeOK, AuditAssumption

LEMMA RowStateType ==
    ASSUME TypeOK, NEW e \in Entries, NEW st \in {"inserting", "visible", "aborted"}
    PROVE  [rows EXCEPT ![e].state = st] \in [Entries -> Row]
<1>1. rows \in [Entries -> Row]
  BY DEF TypeOK
<1>2. QED
  BY <1>1 DEF Row

LEMMA SettleType ==
    ASSUME TypeOK, NEW p \in Processes, chain[p] # <<>>,
           NEW result \in {"written", "failed"}, Settle(p, result)
    PROVE  /\ chain' \in [Processes -> Seq(Entries)]
           /\ pc' \in [Processes -> {"ready", "read", "insert"}]
           /\ outcome' \in [Entries -> {"new", "pending", "written", "failed"}]
<1>1. Head(chain[p]) \in Entries /\ Tail(chain[p]) \in Seq(Entries)
  BY ChainFacts
<1>2. QED
  BY <1>1 DEF Settle, TypeOK

LEMMA TypeStep ==
    ASSUME AuditAssumption, IInv, Next
    PROVE  TypeOK'
<1>1. TypeOK
  BY DEF IInv
<1>2. ASSUME NEW p \in Processes, NEW e \in Entries, Record(p, e) PROVE TypeOK'
  BY <1>1, <1>2 DEF Record, TypeOK
<1>3. ASSUME NEW p \in Processes, ReadLast(p) PROVE TypeOK'
  <2>1. NewestOf(Visible) \in Entries \cup {Genesis}
    BY <1>1, VisibleInserted, NewestFacts DEF Visible, IInv
  <2>2. QED
    BY <1>1, <1>3, <2>1 DEF ReadLast, TypeOK
<1>4. ASSUME NEW p \in Processes, Insert(p) PROVE TypeOK'
  <2>1. chain[p] # <<>> /\ Head(chain[p]) \in Entries
    BY <1>1, <1>4, ChainFacts DEF Insert, IInv, ChainsFit
  <2>2. rows' \in [Entries -> Row]
    BY <1>1, <1>4, <2>1 DEF Insert, TypeOK, Row
  <2>3. QED
    BY <1>1, <1>4, <2>2 DEF Insert, TypeOK
<1>5. ASSUME NEW p \in Processes, Resolve(p) PROVE TypeOK'
  <2>1. chain[p] # <<>>
    BY <1>5 DEF Resolve, IInv, ChainsFit
  <2>2. QED
    BY <1>1, <1>5, <2>1, SettleType DEF Resolve, TypeOK
<1>6. ASSUME NEW p \in Processes, StatementFails(p) PROVE TypeOK'
  <2>1. chain[p] # <<>> /\ Settle(p, "failed") /\ Fault("statement")
    BY <1>6 DEF StatementFails
  <2>2. rows' \in [Entries -> Row]
    <3>1. \/ rows' = rows
          \/ rows' = [rows EXCEPT ![Head(chain[p])].state = "aborted"]
      BY <1>6 DEF StatementFails
    <3>2. Head(chain[p]) \in Entries
      BY <1>1, <2>1, ChainFacts
    <3>3. [rows EXCEPT ![Head(chain[p])].state = "aborted"] \in [Entries -> Row]
      BY <1>1, <3>2, RowStateType
    <3>4. QED
      BY <1>1, <3>1, <3>3 DEF TypeOK
  <2>3. QED
    BY <1>1, <1>6, <2>1, <2>2, SettleType, FaultType DEF StatementFails, TypeOK
<1>7. ASSUME NEW p \in Processes, ReplyLost(p) PROVE TypeOK'
  <2>1. chain[p] # <<>> /\ Settle(p, "failed") /\ Fault("reply")
    BY <1>7 DEF ReplyLost, IInv, ChainsFit
  <2>2. QED
    BY <1>1, <1>7, <2>1, SettleType, FaultType DEF ReplyLost, TypeOK
<1>8. ASSUME NEW p \in Processes, Crash(p) PROVE TypeOK'
  <2>1. faults' \in 0..MaxFaults
    BY <1>1, <1>8, FaultType DEF Crash
  <2>2. chain' \in [Processes -> Seq(Entries)] /\ pc' = [pc EXCEPT ![p] = "ready"]
    BY <1>1, <1>8 DEF Crash, TypeOK
  <2>3. outcome' \in [Entries -> {"new", "pending", "written", "failed"}]
    <3>1. \A e \in Entries : outcome'[e] \in {"failed", outcome[e]}
      BY <1>8 DEF Crash
    <3>2. outcome' = [e \in Entries |-> outcome'[e]]
      BY <1>8, Zenon DEF Crash
    <3>3. QED
      BY <1>1, <3>1, <3>2 DEF TypeOK
  <2>4. QED
    BY <1>1, <1>8, <2>1, <2>2, <2>3 DEF Crash, TypeOK
<1>9. ASSUME NEW e \in Entries, InsertCommits(e) \/ OrphanAborts(e) PROVE TypeOK'
  <2>1. rows' \in [Entries -> Row]
    <3>1. \/ rows' = [rows EXCEPT ![e].state = "visible"]
          \/ rows' = [rows EXCEPT ![e].state = "aborted"]
      BY <1>9 DEF InsertCommits, OrphanAborts
    <3>2. QED
      BY <1>1, <3>1, RowStateType
  <2>2. QED
    BY <1>1, <1>9, <2>1 DEF InsertCommits, OrphanAborts, TypeOK
<1>10. QED
  BY <1>2, <1>3, <1>4, <1>5, <1>6, <1>7, <1>8, <1>9 DEF Next

-----------------------------------------------------------------------------
(* The inductive step, action by action *)

\* The running append is the first of its chain, and waits nowhere else.
LEMMA RunningFacts ==
    ASSUME IInv, NEW p \in Processes, chain[p] # <<>>
    PROVE  LET h == Head(chain[p]) IN
           /\ h \in Entries
           /\ outcome[h] = "pending"
           /\ pc[p] = "insert" =>
                 rows[h].state \in {"inserting", "visible"} /\ rows[h].by = p
           /\ pc[p] # "insert" => h \notin Inserted
           /\ \A q \in Processes : \A j \in 1..Len(chain[q]) :
                 chain[q][j] = h => q = p /\ j = 1
<1>1. /\ Head(chain[p]) = chain[p][1] /\ Head(chain[p]) \in Entries
      /\ 1 \in 1..Len(chain[p])
  BY ChainFacts DEF IInv
<1>2. ChainsFit
  BY DEF IInv
<1>3. /\ outcome[chain[p][1]] = "pending"
      /\ IF pc[p] = "insert"
         THEN /\ rows[chain[p][1]].state \in {"inserting", "visible"}
              /\ rows[chain[p][1]].by = p
         ELSE chain[p][1] \notin Inserted
  BY <1>1, <1>2 DEF ChainsFit
<1>4. ASSUME NEW q \in Processes, NEW j \in 1..Len(chain[q]), chain[q][j] = Head(chain[p])
      PROVE  q = p /\ j = 1
  BY <1>1, <1>2, <1>4 DEF ChainsFit
<1>5. QED
  BY <1>1, <1>3, <1>4

\* An entry of which the outcome is open has its row from a running insert.
LEMMA PendingFacts ==
    ASSUME IInv, NEW e \in Inserted, outcome[e] # "failed", e \notin Visible
    PROVE  pc[rows[e].by] = "insert" /\ e = Head(chain[rows[e].by])
<1>1. e \in Entries /\ outcome[e] = "pending"
  BY DEF IInv, OutcomesFit, TypeOK, Inserted
<1>2. PICK p \in Processes : pc[p] = "insert" /\ e = Head(chain[p])
  BY <1>1 DEF IInv, OutcomesFit
<1>3. rows[e].by = p
  BY <1>2, RunningFacts DEF IInv, ChainsFit
<1>4. QED
  BY <1>2, <1>3

LEMMA RecordStep ==
    ASSUME IInv, TypeOK', NEW p \in Processes, NEW e \in Entries, Record(p, e)
    PROVE  IInv'
<1>1. /\ outcome[e] = "new"
      /\ outcome' = [outcome EXCEPT ![e] = "pending"]
      /\ chain' = [chain EXCEPT ![p] = Append(@, e)]
      /\ UNCHANGED <<rows, nextSeq, pc, last, faults>>
  BY DEF Record
<1>2. TypeOK
  BY DEF IInv
<1>3. e \notin Inserted
  BY <1>1 DEF IInv, OutcomesFit
<1>4. /\ chain[p] \in Seq(Entries) /\ Len(chain[p]) \in Nat
      /\ chain'[p] = Append(chain[p], e)
      /\ Len(chain'[p]) = Len(chain[p]) + 1
      /\ \A i \in 1..Len(chain[p]) : chain'[p][i] = chain[p][i]
      /\ chain'[p][Len(chain[p]) + 1] = e
      /\ \A q \in Processes \ {p} : chain'[q] = chain[q]
  BY <1>1, <1>2 DEF TypeOK
<1>5. \A q \in Processes : \A i \in 1..Len(chain[q]) :
         chain[q][i] # e /\ chain[q][i] \in Entries
  BY <1>1, <1>2 DEF IInv, ChainsFit, TypeOK
<1>6. ASSUME NEW q \in Processes, NEW i \in 1..Len(chain'[q])
      PROVE  \/ i \in 1..Len(chain[q]) /\ chain'[q][i] = chain[q][i]
             \/ /\ q = p /\ i = Len(chain[p]) + 1 /\ chain'[q][i] = e
                /\ (i = 1 => chain[p] = <<>>)
  <2>1. CASE q = p
    <3>1. CASE i = Len(chain[p]) + 1
      <4>1. i = 1 => chain[p] = <<>>
        <5>1. chain[p] \in Seq(Entries) /\ (i = 1 => Len(chain[p]) = 0)
          BY <1>4, <3>1
        <5>2. Len(chain[p]) = 0 => chain[p] = <<>>
          BY <5>1
        <5>3. QED
          BY <5>1, <5>2
      <4>2. chain'[q][i] = e
        BY <1>4, <2>1, <3>1
      <4>3. QED
        BY <2>1, <3>1, <4>1, <4>2
    <3>2. CASE i # Len(chain[p]) + 1
      BY <1>4, <2>1, <3>2
    <3>3. QED
      BY <3>1, <3>2
  <2>2. CASE q # p
    BY <1>4, <2>2
  <2>3. QED
    BY <2>1, <2>2
<1>7. ChainsFit'
  <2>1. ASSUME NEW q \in Processes, NEW i \in 1..Len(chain'[q])
        PROVE  /\ outcome'[chain'[q][i]] = "pending"
               /\ IF i = 1 /\ pc'[q] = "insert"
                  THEN /\ rows'[chain'[q][i]].state \in {"inserting", "visible"}
                       /\ rows'[chain'[q][i]].by = q
                  ELSE chain'[q][i] \notin Inserted'
    <3>1. CASE i \in 1..Len(chain[q]) /\ chain'[q][i] = chain[q][i]
      BY <1>1, <1>2, <1>5, <3>1 DEF IInv, ChainsFit, Inserted, TypeOK
    <3>2. CASE q = p /\ chain'[q][i] = e /\ (i = 1 => chain[p] = <<>>)
      BY <1>1, <1>2, <1>3, <3>2 DEF IInv, ChainsFit, Inserted, TypeOK
    <3>3. QED
      BY <1>6, <3>1, <3>2
  <2>2. ASSUME NEW q \in Processes, NEW i \in 1..Len(chain'[q]),
               NEW r \in Processes, NEW j \in 1..Len(chain'[r]),
               chain'[q][i] = chain'[r][j]
        PROVE  q = r /\ i = j
    <3>1. CASE chain'[q][i] = e
      <4>1. q = p /\ i = Len(chain[p]) + 1
        BY <1>5, <1>6, <3>1
      <4>2. r = p /\ j = Len(chain[p]) + 1
        BY <1>5, <1>6, <2>2, <3>1
      <4>3. QED
        BY <4>1, <4>2
    <3>2. CASE chain'[q][i] # e
      BY <1>6, <2>2, <3>2 DEF IInv, ChainsFit
    <3>3. QED
      BY <3>1, <3>2
  <2>3. \A q \in Processes : pc'[q] # "ready" => chain'[q] # <<>>
    <3>1. \A q \in Processes : pc[q] # "ready" => chain[q] # <<>>
      BY DEF IInv, ChainsFit
    <3>2. chain'[p] # <<>>
      BY <1>4
    <3>3. QED
      BY <1>1, <1>4, <3>1, <3>2
  <2>4. QED
    BY <2>1, <2>2, <2>3 DEF ChainsFit
<1>8. OutcomesFit'
  <2>1. ASSUME NEW q \in Processes, pc[q] = "insert" PROVE Head(chain'[q]) = Head(chain[q])
    <3>1. chain[q] # <<>> /\ chain[q] \in Seq(Entries)
      BY <1>2, <2>1 DEF IInv, ChainsFit, TypeOK
    <3>2. QED
      BY <1>4, <3>1
  <2>2. ASSUME NEW f \in Entries
        PROVE  /\ outcome'[f] = "new" => f \notin Inserted'
               /\ outcome'[f] = "written" => f \in Visible'
               /\ outcome'[f] = "pending" /\ f \in Inserted' =>
                     \E q \in Processes : pc'[q] = "insert" /\ f = Head(chain'[q])
               /\ rows'[f].state = "aborted" => outcome'[f] = "failed"
    BY <1>1, <1>2, <1>3, <2>1 DEF IInv, OutcomesFit, Inserted, Visible, TypeOK
  <2>3. QED
    BY <2>2 DEF OutcomesFit
<1>9. LinksPointBack'
  BY <1>1 DEF IInv, LinksPointBack, Inserted, Visible, SeqOf
<1>10. ReadsItsOwn'
  <2>1. \A f \in Inserted : outcome'[f] = outcome[f]
    BY <1>1, <1>2, <1>3 DEF TypeOK, Inserted
  <2>2. Inserted' = Inserted
    BY <1>1 DEF Inserted
  <2>3. QED
    BY <1>1, <2>1, <2>2 DEF IInv, ReadsItsOwn, SeqOf
<1>11. QED
  BY <1>7, <1>8, <1>9, <1>10 DEF IInv

\* The last record that a process reads is at least as new as its own ones.
LEMMA ReadStep ==
    ASSUME AuditAssumption, IInv, TypeOK', NEW p \in Processes, ReadLast(p)
    PROVE  IInv'
<1>1. /\ chain[p] # <<>> /\ pc[p] = "ready"
      /\ last' = [last EXCEPT ![p] = NewestOf(Visible)]
      /\ pc' = [pc EXCEPT ![p] = "read"]
      /\ UNCHANGED <<rows, nextSeq, chain, outcome, faults>>
  BY DEF ReadLast
<1>2. /\ TypeOK /\ ChainsFit /\ OutcomesFit /\ LinksPointBack /\ ReadsItsOwn
      /\ pc \in [Processes -> {"ready", "read", "insert"}]
      /\ last \in [Processes -> Entries \cup {Genesis}]
  BY DEF IInv, TypeOK
<1>3. /\ \A q \in Processes : pc'[q] = "insert" <=> pc[q] = "insert"
      /\ \A q \in Processes \ {p} : pc'[q] = pc[q] /\ last'[q] = last[q]
      /\ last'[p] = NewestOf(Visible)
      /\ Inserted' = Inserted /\ Visible' = Visible
  BY <1>1, <1>2 DEF Inserted, Visible
<1>4. ChainsFit'
  BY <1>1, <1>2, <1>3 DEF ChainsFit
<1>5. OutcomesFit'
  BY <1>1, <1>2, <1>3 DEF OutcomesFit
<1>6. NewestOf(Visible) \in Visible \cup {Genesis}
  BY <1>2, VisibleInserted, NewestFacts
<1>7. LinksPointBack'
  <2>1. \A q \in Processes : pc'[q] = "read" => last'[q] \in Visible' \cup {Genesis}
    BY <1>2, <1>3, <1>6 DEF LinksPointBack
  <2>2. QED
    BY <1>1, <1>2, <1>3, <2>1 DEF LinksPointBack, SeqOf
<1>8. ReadsItsOwn'
  <2>1. ASSUME NEW e \in Inserted, outcome[e] # "failed", rows[e].by = p
        PROVE  rows[e].seq <= SeqOf(NewestOf(Visible))
    <3>1. e \in Visible
      BY <1>1, <2>1, PendingFacts
    <3>2. /\ NewestOf(Visible) \in Visible
          /\ rows[e].seq <= rows[NewestOf(Visible)].seq
      BY <1>2, <3>1, VisibleInserted, NewestFacts
    <3>3. NewestOf(Visible) # Genesis
      BY <3>2 DEF Visible, AuditAssumption
    <3>4. QED
      BY <3>2, <3>3 DEF SeqOf
  <2>2. ASSUME NEW e \in Inserted, outcome[e] # "failed", pc'[rows[e].by] = "read"
        PROVE  rows[e].seq <= SeqOf(last'[rows[e].by])
    <3>1. rows[e].by \in Processes
      BY <1>2, InsertedFacts
    <3>2. CASE rows[e].by = p
      BY <1>3, <2>1, <2>2, <3>2
    <3>3. CASE rows[e].by # p
      BY <1>2, <1>3, <2>2, <3>1, <3>3 DEF ReadsItsOwn
    <3>4. QED
      BY <3>2, <3>3
  <2>3. \A link : SeqOf(link)' = IF link = Genesis THEN 0 ELSE rows[link].seq
    BY <1>1 DEF SeqOf
  <2>4. QED
    BY <1>1, <1>2, <1>3, <2>2 DEF ReadsItsOwn, SeqOf
<1>9. QED
  BY <1>4, <1>5, <1>7, <1>8 DEF IInv

LEMMA InsertStep ==
    ASSUME AuditAssumption, IInv, TypeOK', NEW p \in Processes, Insert(p)
    PROVE  IInv'
<1> DEFINE h == Head(chain[p])
           new == [state |-> "inserting", seq |-> nextSeq, prev |-> last[p], by |-> p]
           SeqAfter(link) == IF link = Genesis THEN 0 ELSE rows'[link].seq
<1>1. /\ pc[p] = "read"
      /\ rows' = [rows EXCEPT ![h] = new]
      /\ nextSeq' = nextSeq + 1
      /\ pc' = [pc EXCEPT ![p] = "insert"]
      /\ UNCHANGED <<chain, last, outcome, faults>>
  BY DEF Insert
<1>2. /\ TypeOK /\ ChainsFit /\ OutcomesFit /\ LinksPointBack /\ ReadsItsOwn
      /\ pc \in [Processes -> {"ready", "read", "insert"}]
      /\ rows \in [Entries -> Row] /\ nextSeq \in Nat \ {0}
  BY DEF IInv, TypeOK
<1>3. chain[p] # <<>>
  BY <1>1, <1>2 DEF ChainsFit
<1>4. /\ h \in Entries /\ outcome[h] = "pending" /\ h \notin Inserted
      /\ \A q \in Processes : \A j \in 1..Len(chain[q]) :
            chain[q][j] = h => q = p /\ j = 1
      /\ h = chain[p][1]
  BY <1>1, <1>3, RunningFacts, ChainFacts DEF IInv
<1> HIDE DEF h
<1>5. /\ rows'[h] = new
      /\ \A e \in Entries \ {h} : rows'[e] = rows[e]
  BY <1>1, <1>2, <1>4
<1>6. Inserted' = Inserted \cup {h} /\ Visible' = Visible /\ h \notin Visible
  BY <1>4, <1>5, VisibleInserted DEF Inserted, Visible
<1>7. /\ pc'[p] = "insert"
      /\ \A q \in Processes \ {p} : pc'[q] = pc[q]
  BY <1>1, <1>2
<1>8. ChainsFit'
  <2>1. ASSUME NEW q \in Processes, NEW i \in 1..Len(chain[q])
        PROVE  IF i = 1 /\ pc'[q] = "insert"
               THEN /\ rows'[chain[q][i]].state \in {"inserting", "visible"}
                    /\ rows'[chain[q][i]].by = q
               ELSE chain[q][i] \notin Inserted'
    <3>1. CASE q = p /\ i = 1
      BY <1>4, <1>5, <1>7, <3>1
    <3>2. CASE ~(q = p /\ i = 1)
      <4>1. chain[q][i] # h /\ chain[q][i] \in Entries
        BY <1>2, <1>4, <3>2 DEF TypeOK
      <4>2. i = 1 /\ pc'[q] = "insert" <=> i = 1 /\ pc[q] = "insert"
        BY <1>7, <3>2
      <4>3. QED
        BY <1>2, <1>5, <1>6, <4>1, <4>2 DEF ChainsFit
    <3>3. QED
      BY <3>1, <3>2
  <2>2. \A q \in Processes : pc'[q] # "ready" => chain[q] # <<>>
    BY <1>2, <1>3, <1>7 DEF ChainsFit
  <2>3. QED
    BY <1>1, <1>2, <2>1, <2>2 DEF ChainsFit
<1>9. OutcomesFit'
  <2>1. ASSUME NEW e \in Entries \ {h}
        PROVE  /\ outcome[e] = "new" => e \notin Inserted'
               /\ outcome[e] = "written" => e \in Visible'
               /\ outcome[e] = "pending" /\ e \in Inserted' =>
                     \E q \in Processes : pc'[q] = "insert" /\ e = Head(chain[q])
               /\ rows'[e].state = "aborted" => outcome[e] = "failed"
    BY <1>1, <1>2, <1>5, <1>6, <1>7 DEF OutcomesFit
  <2>2. /\ outcome[h] = "pending" /\ pc'[p] = "insert" /\ h = Head(chain[p])
        /\ rows'[h].state # "aborted"
    BY <1>4, <1>5, <1>7 DEF h
  <2>3. QED
    BY <1>1, <2>1, <2>2 DEF OutcomesFit
<1>10. \A link \in Visible \cup {Genesis} : SeqAfter(link) = SeqOf(link)
  BY <1>5, <1>6 DEF SeqOf, Visible
<1>11. last[p] \in Visible \cup {Genesis}
  BY <1>1, <1>2 DEF LinksPointBack
<1>12. /\ SeqOf(last[p]) < nextSeq
       /\ \A e \in Inserted : rows[e].seq \in Nat /\ rows[e].seq < nextSeq
                              /\ rows'[e] = rows[e]
       /\ \A e \in Inserted : rows[e].prev \in Visible \cup {Genesis}
  <2>1. \A e \in Inserted : rows[e].seq \in Nat /\ rows[e].seq < nextSeq
    BY <1>2, InsertedFacts
  <2>2. SeqOf(last[p]) < nextSeq
    BY <1>2, <1>11, <2>1, VisibleInserted DEF SeqOf
  <2>3. \A e \in Inserted : rows'[e] = rows[e]
    BY <1>4, <1>5 DEF Inserted
  <2>4. QED
    BY <1>2, <2>1, <2>2, <2>3 DEF LinksPointBack
<1>13. LinksPointBack'
  <2>1. \A e \in Inserted' :
           /\ rows'[e].seq \in 1..(nextSeq' - 1) /\ rows'[e].by \in Processes
           /\ rows'[e].prev \in Visible' \cup {Genesis}
           /\ SeqAfter(rows'[e].prev) < rows'[e].seq
    <3>1. ASSUME NEW e \in Inserted
          PROVE  /\ rows'[e].seq \in 1..(nextSeq' - 1) /\ rows'[e].by \in Processes
                 /\ rows'[e].prev \in Visible' \cup {Genesis}
                 /\ SeqAfter(rows'[e].prev) < rows'[e].seq
      <4>1. /\ rows[e].seq \in 1..(nextSeq - 1) /\ rows[e].by \in Processes
            /\ rows[e].prev \in Visible \cup {Genesis}
            /\ SeqOf(rows[e].prev) < rows[e].seq
            /\ rows'[e] = rows[e]
        BY <1>2, <1>12 DEF LinksPointBack
      <4>2. SeqAfter(rows[e].prev) = SeqOf(rows[e].prev)
        BY <1>10, <4>1
      <4>3. QED
        BY <1>1, <1>2, <1>6, <4>1, <4>2
    <3>2. /\ rows'[h].seq = nextSeq /\ rows'[h].by = p /\ rows'[h].prev = last[p]
          /\ SeqAfter(last[p]) = SeqOf(last[p])
      BY <1>5, <1>10, <1>11
    <3>3. QED
      BY <1>1, <1>2, <1>6, <1>11, <1>12, <3>1, <3>2
  <2>2. \A e, f \in Inserted' : rows'[e].seq = rows'[f].seq => e = f
    <3>1. \A e, f \in Inserted : rows'[e].seq = rows'[f].seq => e = f
      BY <1>2, <1>12 DEF LinksPointBack
    <3>2. \A e \in Inserted : rows'[e].seq # rows'[h].seq
      BY <1>2, <1>5, <1>12
    <3>3. QED
      BY <1>6, <3>1, <3>2
  <2>3. \A q \in Processes : pc'[q] = "read" => last'[q] \in Visible' \cup {Genesis}
    BY <1>1, <1>2, <1>6, <1>7 DEF LinksPointBack
  <2>4. QED
    BY <2>1, <2>2, <2>3 DEF LinksPointBack, SeqOf
<1>14. ReadsItsOwn'
  <2>1. ASSUME NEW e \in Inserted', outcome[e] # "failed", pc'[rows'[e].by] = "read"
        PROVE  rows'[e].seq <= SeqAfter(last'[rows'[e].by])
    <3>1. rows'[e].by # p
      BY <1>7, <2>1
    <3>2. e \in Inserted /\ rows'[e] = rows[e] /\ rows[e].by \in Processes
      BY <1>2, <1>5, <1>6, <1>12, <3>1, InsertedFacts
    <3>3. pc[rows[e].by] = "read"
      BY <1>7, <2>1, <3>1, <3>2
    <3>4. last[rows[e].by] \in Visible \cup {Genesis}
      BY <1>2, <3>2, <3>3 DEF LinksPointBack
    <3>5. SeqAfter(last[rows[e].by]) = SeqOf(last[rows[e].by])
      BY <1>1, <1>10, <3>4
    <3>6. rows[e].seq <= SeqOf(last[rows[e].by])
      BY <1>2, <2>1, <3>2, <3>3 DEF ReadsItsOwn
    <3>7. QED
      BY <1>1, <3>2, <3>5, <3>6
  <2>2. ASSUME NEW e \in Inserted', outcome[e] # "failed",
               NEW f \in Inserted', rows'[f].by = rows'[e].by, outcome[f] # "failed",
               rows'[e].seq < rows'[f].seq
        PROVE  rows'[e].seq <= SeqAfter(rows'[f].prev)
    <3>1. e \in Inserted /\ rows'[e] = rows[e]
      BY <1>2, <1>5, <1>6, <1>12, <2>2
    <3>2. CASE f = h
      <4>1. rows[e].by = p /\ rows'[f].prev = last[p]
        BY <1>5, <2>2, <3>1, <3>2
      <4>2. rows[e].seq <= SeqOf(last[p])
        BY <1>1, <1>2, <2>2, <3>1, <4>1 DEF ReadsItsOwn
      <4>3. QED
        BY <1>10, <1>11, <3>1, <4>1, <4>2
    <3>3. CASE f # h
      <4>1. f \in Inserted /\ rows'[f] = rows[f]
        BY <1>6, <1>12, <3>3
      <4>2. rows[e].seq <= SeqOf(rows[f].prev)
        BY <1>2, <2>2, <3>1, <4>1 DEF ReadsItsOwn
      <4>3. QED
        BY <1>10, <1>12, <3>1, <4>1, <4>2
    <3>4. QED
      BY <3>2, <3>3
  <2>3. QED
    BY <1>1, <2>1, <2>2 DEF ReadsItsOwn, SeqOf
<1>15. QED
  BY <1>8, <1>9, <1>13, <1>14 DEF IInv

\* A step that inserts nothing, hides nothing and reads nothing keeps the links.
LEMMA SameRecords ==
    ASSUME AuditAssumption, IInv, Inserted' = Inserted, Visible \subseteq Visible',
           nextSeq' = nextSeq,
           \A e \in Entries : /\ rows'[e].seq = rows[e].seq
                              /\ rows'[e].prev = rows[e].prev
                              /\ rows'[e].by = rows[e].by,
           \A e \in Inserted : outcome'[e] # "failed" => outcome[e] # "failed",
           \A p \in Processes : pc'[p] = "read" => pc[p] = "read" /\ last'[p] = last[p]
    PROVE  LinksPointBack' /\ ReadsItsOwn'
<1> DEFINE SeqAfter(link) == IF link = Genesis THEN 0 ELSE rows'[link].seq
<1>1. LinksPointBack /\ ReadsItsOwn /\ TypeOK
  BY DEF IInv
<1>2. \A link \in Visible \cup {Genesis} : SeqAfter(link) = SeqOf(link)
  BY DEF SeqOf, Visible
<1>3. \A e \in Inserted : /\ e \in Entries /\ rows[e].by \in Processes
                          /\ rows[e].prev \in Visible \cup {Genesis}
  BY <1>1, InsertedFacts DEF LinksPointBack
<1>4. \A p \in Processes : pc[p] = "read" => last[p] \in Visible \cup {Genesis}
  BY <1>1 DEF LinksPointBack
<1>5. LinksPointBack'
  <2>1. \A e \in Inserted :
           /\ rows'[e].seq \in 1..(nextSeq' - 1) /\ rows'[e].by \in Processes
           /\ rows'[e].prev \in Visible' \cup {Genesis}
           /\ SeqAfter(rows'[e].prev) < rows'[e].seq
    BY <1>1, <1>2, <1>3 DEF LinksPointBack
  <2>2. \A e, f \in Inserted : rows'[e].seq = rows'[f].seq => e = f
    BY <1>1, <1>3 DEF LinksPointBack
  <2>3. \A p \in Processes : pc'[p] = "read" => last'[p] \in Visible' \cup {Genesis}
    BY <1>4
  <2>4. QED
    BY <2>1, <2>2, <2>3 DEF LinksPointBack, SeqOf
<1>6. ReadsItsOwn'
  <2>1. ASSUME NEW e \in Inserted, outcome'[e] # "failed", pc'[rows'[e].by] = "read"
        PROVE  rows'[e].seq <= SeqAfter(last'[rows'[e].by])
    <3>1. /\ rows'[e].by = rows[e].by /\ rows'[e].seq = rows[e].seq
          /\ pc[rows[e].by] = "read" /\ last'[rows[e].by] = last[rows[e].by]
          /\ outcome[e] # "failed"
      BY <1>3, <2>1
    <3>2. rows[e].seq <= SeqOf(last[rows[e].by])
      BY <1>1, <3>1 DEF ReadsItsOwn
    <3>3. QED
      BY <1>2, <1>3, <1>4, <3>1, <3>2
  <2>2. ASSUME NEW e \in Inserted, outcome'[e] # "failed",
               NEW f \in Inserted, rows'[f].by = rows'[e].by, outcome'[f] # "failed",
               rows'[e].seq < rows'[f].seq
        PROVE  rows'[e].seq <= SeqAfter(rows'[f].prev)
    <3>1. rows[e].seq <= SeqOf(rows[f].prev)
      BY <1>1, <1>3, <2>2 DEF ReadsItsOwn
    <3>2. QED
      BY <1>2, <1>3, <3>1
  <2>3. QED
    BY <2>1, <2>2 DEF ReadsItsOwn, SeqOf
<1>7. QED
  BY <1>5, <1>6

\* The running append leaves its chain; a statement that fails aborts its row.
LEMMA SettleStep ==
    ASSUME AuditAssumption, IInv, TypeOK', NEW p \in Processes, chain[p] # <<>>,
           NEW result \in {"written", "failed"}, Settle(p, result),
           UNCHANGED <<nextSeq, last>>,
           \/ rows' = rows
           \/ /\ rows[Head(chain[p])].state = "inserting" /\ result = "failed"
              /\ rows' = [rows EXCEPT ![Head(chain[p])].state = "aborted"],
           result = "written" => Head(chain[p]) \in Visible /\ rows' = rows
    PROVE  IInv'
<1> DEFINE h == Head(chain[p])
<1>1. /\ TypeOK /\ ChainsFit /\ OutcomesFit
      /\ pc \in [Processes -> {"ready", "read", "insert"}]
      /\ outcome \in [Entries -> {"new", "pending", "written", "failed"}]
      /\ chain \in [Processes -> Seq(Entries)]
      /\ rows \in [Entries -> Row]
  BY DEF IInv, TypeOK
<1>2. /\ h \in Entries /\ outcome[h] = "pending"
      /\ \A q \in Processes : \A j \in 1..Len(chain[q]) :
            chain[q][j] = h => q = p /\ j = 1
  BY RunningFacts
<1>3. /\ outcome' = [outcome EXCEPT ![h] = result]
      /\ chain' = [chain EXCEPT ![p] = Tail(@)]
      /\ pc' = [pc EXCEPT ![p] = "ready"]
  BY DEF Settle
<1>4. /\ \A e \in Entries \ {h} : rows'[e] = rows[e]
      /\ rows'[h].seq = rows[h].seq /\ rows'[h].prev = rows[h].prev
      /\ rows'[h].by = rows[h].by
      /\ rows'[h].state = rows[h].state
         \/ (rows[h].state = "inserting" /\ rows'[h].state = "aborted" /\ result = "failed")
  BY <1>1, <1>2 DEF Row
<1>5. /\ \A e \in Entries \ {h} : outcome'[e] = outcome[e]
      /\ outcome'[h] = result
      /\ \A q \in Processes \ {p} : chain'[q] = chain[q] /\ pc'[q] = pc[q]
      /\ chain'[p] = Tail(chain[p]) /\ pc'[p] = "ready"
  BY <1>1, <1>2, <1>3
<1>6. Inserted' = Inserted /\ Visible' = Visible
  BY <1>4 DEF Inserted, Visible
<1>7. /\ Len(chain'[p]) = Len(chain[p]) - 1 /\ Len(chain[p]) \in Nat
      /\ \A i \in 1..Len(chain'[p]) : chain'[p][i] = chain[p][i + 1]
  BY <1>1, <1>5, ChainFacts
<1> HIDE DEF h
<1>8. ChainsFit'
  <2>1. ASSUME NEW q \in Processes, NEW i \in 1..Len(chain'[q])
        PROVE  \E j \in 1..Len(chain[q]) :
                  /\ chain'[q][i] = chain[q][j] /\ chain[q][j] \in Entries \ {h}
                  /\ j = IF q = p THEN i + 1 ELSE i
    <3>1. CASE q = p
      <4>1. /\ i + 1 \in 1..Len(chain[p]) /\ i + 1 # 1
            /\ chain'[p][i] = chain[p][i + 1]
        BY <1>7, <3>1
      <4>2. chain[p][i + 1] \in Entries \ {h}
        BY <1>1, <1>2, <4>1
      <4>3. QED
        BY <3>1, <4>1, <4>2
    <3>2. CASE q # p
      BY <1>1, <1>2, <1>5, <3>2
    <3>3. QED
      BY <3>1, <3>2
  <2>2. ASSUME NEW q \in Processes, NEW i \in 1..Len(chain'[q])
        PROVE  /\ outcome'[chain'[q][i]] = "pending"
               /\ IF i = 1 /\ pc'[q] = "insert"
                  THEN /\ rows'[chain'[q][i]].state \in {"inserting", "visible"}
                       /\ rows'[chain'[q][i]].by = q
                  ELSE chain'[q][i] \notin Inserted'
    <3>1. PICK j \in 1..Len(chain[q]) :
             /\ chain'[q][i] = chain[q][j] /\ chain[q][j] \in Entries \ {h}
             /\ j = IF q = p THEN i + 1 ELSE i
      BY <2>1
    <3>2. /\ outcome[chain[q][j]] = "pending"
          /\ IF j = 1 /\ pc[q] = "insert"
             THEN /\ rows[chain[q][j]].state \in {"inserting", "visible"}
                  /\ rows[chain[q][j]].by = q
             ELSE chain[q][j] \notin Inserted
      BY <1>1 DEF ChainsFit
    <3>3. /\ outcome'[chain[q][j]] = outcome[chain[q][j]]
          /\ rows'[chain[q][j]] = rows[chain[q][j]]
      BY <1>4, <1>5, <3>1
    <3>4. CASE q = p
      <4>1. j # 1 /\ pc'[q] # "insert"
        BY <1>5, <3>1, <3>4
      <4>2. QED
        BY <1>6, <3>1, <3>2, <3>3, <4>1
    <3>5. CASE q # p
      <4>1. j = i /\ pc'[q] = pc[q]
        BY <1>5, <3>1, <3>5
      <4>2. QED
        BY <1>6, <3>1, <3>2, <3>3, <4>1
    <3>6. QED
      BY <3>4, <3>5
  <2>3. ASSUME NEW q \in Processes, NEW i \in 1..Len(chain'[q]),
               NEW r \in Processes, NEW k \in 1..Len(chain'[r]),
               chain'[q][i] = chain'[r][k]
        PROVE  q = r /\ i = k
    <3>1. PICK j \in 1..Len(chain[q]) :
             chain'[q][i] = chain[q][j] /\ j = IF q = p THEN i + 1 ELSE i
      BY <2>1
    <3>2. PICK l \in 1..Len(chain[r]) :
             chain'[r][k] = chain[r][l] /\ l = IF r = p THEN k + 1 ELSE k
      BY <2>1
    <3>3. q = r /\ j = l
      <4>1. chain[q][j] = chain[r][l]
        BY <2>3, <3>1, <3>2
      <4>2. QED
        BY <1>1, <4>1 DEF ChainsFit
    <3>4. QED
      BY <3>1, <3>2, <3>3
  <2>4. \A q \in Processes : pc'[q] # "ready" => chain'[q] # <<>>
    BY <1>1, <1>5 DEF ChainsFit
  <2>5. QED
    BY <2>2, <2>3, <2>4 DEF ChainsFit
<1>9. OutcomesFit'
  <2>1. ASSUME NEW e \in Entries \ {h}
        PROVE  /\ outcome'[e] = "new" => e \notin Inserted'
               /\ outcome'[e] = "written" => e \in Visible'
               /\ outcome'[e] = "pending" /\ e \in Inserted' =>
                     \E q \in Processes : pc'[q] = "insert" /\ e = Head(chain'[q])
               /\ rows'[e].state = "aborted" => outcome'[e] = "failed"
    <3>1. /\ outcome[e] = "new" => e \notin Inserted
          /\ outcome[e] = "written" => e \in Visible
          /\ outcome[e] = "pending" /\ e \in Inserted =>
                \E q \in Processes : pc[q] = "insert" /\ e = Head(chain[q])
          /\ rows[e].state = "aborted" => outcome[e] = "failed"
      BY <1>1 DEF OutcomesFit
    <3>2. \A q \in Processes : e = Head(chain[q]) => q # p
      BY DEF h
    <3>3. QED
      BY <1>4, <1>5, <1>6, <3>1, <3>2
  <2>2. /\ outcome'[h] \in {"written", "failed"}
        /\ outcome'[h] = "written" => h \in Visible' /\ rows'[h].state # "aborted"
    <3>1. result = "written" => h \in Visible
      BY DEF h
    <3>2. QED
      BY <1>4, <1>5, <1>6, <3>1 DEF Visible
  <2>3. QED
    BY <2>1, <2>2 DEF OutcomesFit
<1>10. LinksPointBack' /\ ReadsItsOwn'
  <2>1. \A e \in Inserted : outcome'[e] # "failed" => outcome[e] # "failed"
    BY <1>2, <1>5 DEF Inserted
  <2>2. \A q \in Processes : pc'[q] = "read" => pc[q] = "read" /\ last'[q] = last[q]
    BY <1>5
  <2>3. \A e \in Entries : /\ rows'[e].seq = rows[e].seq
                           /\ rows'[e].prev = rows[e].prev
                           /\ rows'[e].by = rows[e].by
    BY <1>4
  <2>4. QED
    BY <1>6, <2>1, <2>2, <2>3, SameRecords
<1>11. QED
  BY <1>8, <1>9, <1>10 DEF IInv

LEMMA CrashStep ==
    ASSUME AuditAssumption, IInv, TypeOK', NEW p \in Processes, Crash(p)
    PROVE  IInv'
<1> DEFINE Dropped == {e \in Entries : \E i \in 1..Len(chain[p]) : chain[p][i] = e}
<1>1. /\ chain' = [chain EXCEPT ![p] = <<>>]
      /\ pc' = [pc EXCEPT ![p] = "ready"]
      /\ UNCHANGED <<rows, nextSeq, last>>
      /\ outcome' = [e \in Entries |-> IF \E i \in 1..Len(chain[p]) : chain[p][i] = e
                                       THEN "failed" ELSE outcome[e]]
  BY DEF Crash
<1>2. /\ TypeOK /\ ChainsFit /\ OutcomesFit
      /\ pc \in [Processes -> {"ready", "read", "insert"}]
      /\ chain \in [Processes -> Seq(Entries)]
  BY DEF IInv, TypeOK
<1>3. /\ \A e \in Dropped : outcome'[e] = "failed"
      /\ \A e \in Entries \ Dropped : outcome'[e] = outcome[e]
  BY <1>1
<1>4. /\ \A q \in Processes \ {p} : chain'[q] = chain[q] /\ pc'[q] = pc[q]
      /\ chain'[p] = <<>> /\ pc'[p] = "ready"
      /\ Inserted' = Inserted /\ Visible' = Visible
  BY <1>1, <1>2 DEF Inserted, Visible
<1>5. \A q \in Processes \ {p} : \A i \in 1..Len(chain[q]) :
         chain[q][i] \in Entries \ Dropped
  <2>1. ASSUME NEW q \in Processes \ {p}, NEW i \in 1..Len(chain[q])
        PROVE  chain[q][i] \in Entries /\ chain[q][i] \notin Dropped
    <3>1. chain[q][i] \in Entries
      BY <1>2
    <3>2. \A j \in 1..Len(chain[p]) : chain[p][j] # chain[q][i]
      BY <1>2 DEF ChainsFit
    <3>3. QED
      BY <3>1, <3>2
  <2>2. QED
    BY <2>1
<1>6. \A q \in Processes : chain[q] # <<>> => Head(chain[q]) = chain[q][1] /\ 1 \in 1..Len(chain[q])
  BY <1>2
<1> HIDE DEF Dropped
<1>7. ChainsFit'
  <2>1. ASSUME NEW q \in Processes, NEW i \in 1..Len(chain'[q])
        PROVE  q # p /\ i \in 1..Len(chain[q])
    BY <1>4
  <2>2. ASSUME NEW q \in Processes, NEW i \in 1..Len(chain'[q])
        PROVE  /\ outcome'[chain'[q][i]] = "pending"
               /\ IF i = 1 /\ pc'[q] = "insert"
                  THEN /\ rows'[chain'[q][i]].state \in {"inserting", "visible"}
                       /\ rows'[chain'[q][i]].by = q
                  ELSE chain'[q][i] \notin Inserted'
    <3>1. /\ chain'[q][i] = chain[q][i] /\ pc'[q] = pc[q]
          /\ outcome'[chain[q][i]] = outcome[chain[q][i]]
      BY <1>3, <1>4, <1>5, <2>1
    <3>2. /\ outcome[chain[q][i]] = "pending"
          /\ IF i = 1 /\ pc[q] = "insert"
             THEN /\ rows[chain[q][i]].state \in {"inserting", "visible"}
                  /\ rows[chain[q][i]].by = q
             ELSE chain[q][i] \notin Inserted
      BY <1>2, <2>1 DEF ChainsFit
    <3>3. QED
      BY <1>1, <1>4, <3>1, <3>2
  <2>3. ASSUME NEW q \in Processes, NEW i \in 1..Len(chain'[q]),
               NEW r \in Processes, NEW k \in 1..Len(chain'[r]),
               chain'[q][i] = chain'[r][k]
        PROVE  q = r /\ i = k
    <3>1. /\ i \in 1..Len(chain[q]) /\ k \in 1..Len(chain[r])
          /\ chain[q][i] = chain[r][k]
      BY <1>4, <2>1, <2>3
    <3>2. QED
      BY <1>2, <3>1 DEF ChainsFit
  <2>4. \A q \in Processes : pc'[q] # "ready" => chain'[q] # <<>>
    BY <1>2, <1>4 DEF ChainsFit
  <2>5. QED
    BY <2>2, <2>3, <2>4 DEF ChainsFit
<1>8. OutcomesFit'
  <2>1. ASSUME NEW e \in Entries \ Dropped
        PROVE  /\ outcome'[e] = "new" => e \notin Inserted'
               /\ outcome'[e] = "written" => e \in Visible'
               /\ outcome'[e] = "pending" /\ e \in Inserted' =>
                     \E q \in Processes : pc'[q] = "insert" /\ e = Head(chain'[q])
               /\ rows'[e].state = "aborted" => outcome'[e] = "failed"
    <3>1. /\ outcome[e] = "new" => e \notin Inserted
          /\ outcome[e] = "written" => e \in Visible
          /\ outcome[e] = "pending" /\ e \in Inserted =>
                \E q \in Processes : pc[q] = "insert" /\ e = Head(chain[q])
          /\ rows[e].state = "aborted" => outcome[e] = "failed"
      BY <1>2 DEF OutcomesFit
    <3>2. ASSUME pc[p] = "insert" PROVE Head(chain[p]) \in Dropped
      <4>1. chain[p] # <<>> /\ Head(chain[p]) \in Entries
        BY <1>2, <3>2, ChainFacts DEF ChainsFit
      <4>2. QED
        BY <1>6, <4>1 DEF Dropped
    <3>3. QED
      BY <1>1, <1>3, <1>4, <3>1, <3>2
  <2>2. QED
    BY <1>3, <2>1 DEF OutcomesFit
<1>9. LinksPointBack' /\ ReadsItsOwn'
  <2>1. \A e \in Inserted : outcome'[e] # "failed" => outcome[e] # "failed"
    BY <1>3 DEF Inserted
  <2>2. \A q \in Processes : pc'[q] = "read" => pc[q] = "read" /\ last'[q] = last[q]
    BY <1>1, <1>4
  <2>3. QED
    BY <1>1, <1>4, <2>1, <2>2, SameRecords
<1>10. QED
  BY <1>7, <1>8, <1>9 DEF IInv

\* PostgreSQL ends an insert.
LEMMA EndStep ==
    ASSUME AuditAssumption, IInv, TypeOK', NEW e \in Entries,
           InsertCommits(e) \/ OrphanAborts(e)
    PROVE  IInv'
<1>1. /\ rows[e].state = "inserting"
      /\ \/ rows' = [rows EXCEPT ![e].state = "visible"]
         \/ outcome[e] = "failed" /\ rows' = [rows EXCEPT ![e].state = "aborted"]
      /\ UNCHANGED <<nextSeq, chain, pc, last, outcome, faults>>
  BY DEF InsertCommits, OrphanAborts
<1>2. /\ TypeOK /\ ChainsFit /\ OutcomesFit
      /\ rows \in [Entries -> Row]
      /\ chain \in [Processes -> Seq(Entries)]
  BY DEF IInv, TypeOK
<1>3. /\ \A f \in Entries \ {e} : rows'[f] = rows[f]
      /\ \A f \in Entries : /\ rows'[f].seq = rows[f].seq
                            /\ rows'[f].prev = rows[f].prev
                            /\ rows'[f].by = rows[f].by
      /\ \/ rows'[e].state = "visible"
         \/ outcome[e] = "failed" /\ rows'[e].state = "aborted"
  <2>1. rows[e] \in Row
    BY <1>2
  <2>2. CASE rows' = [rows EXCEPT ![e].state = "visible"]
    BY <1>2, <2>1, <2>2 DEF Row
  <2>3. CASE outcome[e] = "failed" /\ rows' = [rows EXCEPT ![e].state = "aborted"]
    BY <1>2, <2>1, <2>3 DEF Row
  <2>4. QED
    BY <1>1, <2>2, <2>3
<1>4. /\ Inserted' = Inserted /\ Visible \subseteq Visible'
  BY <1>1, <1>3 DEF Inserted, Visible
<1>5. ChainsFit'
  <2>1. ASSUME NEW q \in Processes, NEW i \in 1..Len(chain[q])
        PROVE  IF i = 1 /\ pc[q] = "insert"
               THEN /\ rows'[chain[q][i]].state \in {"inserting", "visible"}
                    /\ rows'[chain[q][i]].by = q
               ELSE chain[q][i] \notin Inserted'
    <3>1. /\ outcome[chain[q][i]] = "pending" /\ chain[q][i] \in Entries
          /\ IF i = 1 /\ pc[q] = "insert"
             THEN /\ rows[chain[q][i]].state \in {"inserting", "visible"}
                  /\ rows[chain[q][i]].by = q
             ELSE chain[q][i] \notin Inserted
      BY <1>2 DEF ChainsFit
    <3>2. QED
      BY <1>3, <1>4, <3>1
  <2>2. QED
    BY <1>1, <1>2, <2>1 DEF ChainsFit
<1>6. OutcomesFit'
  BY <1>1, <1>2, <1>3, <1>4 DEF OutcomesFit
<1>7. LinksPointBack' /\ ReadsItsOwn'
  BY <1>1, <1>3, <1>4, SameRecords
<1>8. QED
  BY <1>5, <1>6, <1>7 DEF IInv

-----------------------------------------------------------------------------
(* The theorems *)

LEMMA InitInv ==
    ASSUME AuditAssumption, Init
    PROVE  IInv
<1>1. TypeOK
  BY DEF Init, TypeOK, Row, NoRow, AuditAssumption
<1>2. Inserted = {}
  BY DEF Init, Inserted, NoRow
<1>3. ChainsFit
  BY DEF Init, ChainsFit
<1>4. OutcomesFit
  BY <1>2 DEF Init, OutcomesFit, NoRow
<1>5. LinksPointBack /\ ReadsItsOwn
  BY <1>2 DEF Init, LinksPointBack, ReadsItsOwn
<1>6. QED
  BY <1>1, <1>3, <1>4, <1>5 DEF IInv

LEMMA NextInv ==
    ASSUME AuditAssumption, IInv, Next
    PROVE  IInv'
<1>1. TypeOK'
  BY TypeStep
<1>2. \A p \in Processes : pc[p] # "ready" => chain[p] # <<>>
  BY DEF IInv, ChainsFit
<1>3. ASSUME NEW p \in Processes, Resolve(p) PROVE IInv'
  <2>1. /\ chain[p] # <<>> /\ Head(chain[p]) \in Entries
        /\ rows[Head(chain[p])].state = "visible"
        /\ Settle(p, "written")
        /\ rows' = rows /\ UNCHANGED <<nextSeq, last>>
    BY <1>2, <1>3, ChainFacts DEF Resolve, IInv
  <2>2. QED
    BY <1>1, <2>1, SettleStep DEF Visible
<1>4. ASSUME NEW p \in Processes, StatementFails(p) PROVE IInv'
  <2>1. /\ chain[p] # <<>>
        /\ Settle(p, "failed")
        /\ UNCHANGED <<nextSeq, last>>
        /\ \/ rows' = rows
           \/ /\ rows[Head(chain[p])].state = "inserting"
              /\ rows' = [rows EXCEPT ![Head(chain[p])].state = "aborted"]
    BY <1>4 DEF StatementFails
  <2>2. QED
    BY <1>1, <2>1, SettleStep
<1>5. ASSUME NEW p \in Processes, ReplyLost(p) PROVE IInv'
  <2>1. /\ chain[p] # <<>>
        /\ Settle(p, "failed")
        /\ rows' = rows /\ UNCHANGED <<nextSeq, last>>
    BY <1>2, <1>5 DEF ReplyLost
  <2>2. QED
    BY <1>1, <2>1, SettleStep
<1>6. QED
  BY <1>1, <1>3, <1>4, <1>5, RecordStep, ReadStep, InsertStep, CrashStep, EndStep DEF Next

LEMMA StutterInv ==
    ASSUME IInv, UNCHANGED vars
    PROVE  IInv'
BY DEF vars, IInv, TypeOK, ChainsFit, OutcomesFit, LinksPointBack, ReadsItsOwn,
       Inserted, Visible, SeqOf

\* What the chains, outcomes, links and reads have to do with each other, for
\* any number of processes and any faults.
THEOREM Invariance == Spec => []IInv
<1>1. Init => IInv
  BY InitInv, AuditAssumption
<1>2. IInv /\ [Next]_vars => IInv'
  BY NextInv, StutterInv, AuditAssumption
<1>3. QED
  BY <1>1, <1>2, PTL DEF Spec

\* Every state of the audit log is of its type, whatever fails.
THEOREM TypeCorrect == Spec => []TypeOK
<1>1. IInv => TypeOK
  BY DEF IInv
<1>2. QED
  BY <1>1, Invariance, PTL

LEMMA ForksTell == IInv => ForksHaveACause
<1>1. ASSUME IInv PROVE ForksHaveACause
  <2>1. TypeOK /\ LinksPointBack /\ ReadsItsOwn
    BY <1>1 DEF IInv
  <2>2. ASSUME NEW e \in Visible, NEW f \in Visible, rows[e].prev = rows[f].prev,
               rows[e].by = rows[f].by, outcome[e] # "failed", outcome[f] # "failed",
               rows[e].seq < rows[f].seq
        PROVE  FALSE
    <3>1. e \in Inserted /\ f \in Inserted
      BY VisibleInserted
    <3>2. rows[e].seq <= SeqOf(rows[f].prev)
      BY <2>1, <2>2, <3>1 DEF ReadsItsOwn
    <3>3. SeqOf(rows[e].prev) < rows[e].seq
      BY <2>1, <3>1 DEF LinksPointBack
    <3>4. SeqOf(rows[e].prev) \in Nat /\ rows[e].seq \in Nat
      <4>1. rows[e].prev \in Entries \cup {Genesis}
        BY <2>1, <3>1 DEF LinksPointBack, Visible
      <4>2. QED
        BY <2>1, <3>1, <4>1, SeqOfType, InsertedFacts, AuditAssumption
    <3>5. QED
      BY <2>2, <3>2, <3>3, <3>4
  <2>3. ASSUME NEW e \in Visible, NEW f \in Visible, e # f,
               rows[e].prev = rows[f].prev
        PROVE  rows[e].by # rows[f].by \/ "failed" \in {outcome[e], outcome[f]}
    <3>1. rows[e].seq # rows[f].seq /\ rows[e].seq \in Nat /\ rows[f].seq \in Nat
      BY <2>1, <2>3, VisibleInserted, InsertedFacts DEF LinksPointBack
    <3>2. rows[e].seq < rows[f].seq \/ rows[f].seq < rows[e].seq
      BY <3>1
    <3>3. QED
      BY <2>2, <2>3, <3>2
  <2>4. QED
    BY <2>3 DEF ForksHaveACause
<1>2. QED
  BY <1>1

\* The log forks only where the promise chain does not serialise: two
\* processes, or an append that was reported as failed, for any number of
\* processes and any faults.
THEOREM ForksExplained == Spec => []ForksHaveACause
BY ForksTell, Invariance, PTL

LEMMA BreaksTell == IInv => BrokenMeansFork
<1>1. ASSUME IInv, VerifyChain = "BROKEN"
      PROVE  \E e, f \in Visible : e # f /\ rows[e].prev = rows[f].prev
  <2> DEFINE Bad == {e \in Visible : BadLink(e)}
  <2>1. TypeOK /\ LinksPointBack
    BY <1>1 DEF IInv
  <2>2. Bad \in SUBSET Inserted /\ Bad # {}
    BY <1>1, VisibleInserted DEF VerifyChain
  <2>3. PICK e \in Bad : \A f \in Bad : rows[e].seq <= rows[f].seq
    BY <2>1, <2>2, LowestSeq
  <2> DEFINE Between == {f \in Before(e) : SeqOf(rows[e].prev) < rows[f].seq}
  <2>4. e \in Visible /\ e \in Inserted /\ rows[e].prev # NewestOf(Before(e))
    BY <2>2, <2>3 DEF BadLink
  <2>5. /\ rows[e].prev \in Visible \cup {Genesis}
        /\ SeqOf(rows[e].prev) < rows[e].seq
        /\ Before(e) \in SUBSET Inserted
    BY <2>1, <2>4, VisibleInserted DEF LinksPointBack, Before
  <2>6. Between # {}
    <3>1. SUFFICES ASSUME \A f \in Before(e) : ~(SeqOf(rows[e].prev) < rows[f].seq)
                   PROVE  FALSE
      OBVIOUS
    <3>2. CASE rows[e].prev = Genesis
      <4>1. Before(e) # {}
        BY <2>1, <2>4, <2>5, <3>2, NewestFacts
      <4>2. PICK f \in Before(e) : TRUE
        BY <4>1
      <4>3. rows[f].seq \in Nat \ {0} /\ SeqOf(rows[e].prev) = 0
        BY <2>1, <2>5, <3>2, InsertedFacts DEF SeqOf
      <4>4. QED
        BY <3>1, <4>3
    <3>3. CASE rows[e].prev # Genesis
      <4>1. SeqOf(rows[e].prev) = rows[rows[e].prev].seq
        BY <3>3 DEF SeqOf
      <4>2. rows[e].prev \in Before(e)
        BY <2>5, <3>3, <4>1 DEF Before
      <4>3. \A f \in Before(e) : rows[f].seq \in Nat
        BY <2>1, <2>5, InsertedFacts
      <4>4. \A f \in Before(e) : rows[f].seq <= rows[rows[e].prev].seq
        BY <3>1, <4>1, <4>2, <4>3
      <4>5. QED
        BY <2>1, <2>4, <2>5, <4>2, <4>4, NewestUnique
    <3>4. QED
      BY <3>2, <3>3
  <2>7. Between \in SUBSET Inserted
    BY <2>5
  <2>8. PICK f \in Between : \A g \in Between : rows[f].seq <= rows[g].seq
    BY <2>1, <2>6, <2>7, LowestSeq
  <2>9. /\ f \in Visible /\ f \in Inserted /\ f # e
        /\ rows[f].seq < rows[e].seq /\ SeqOf(rows[e].prev) < rows[f].seq
        /\ rows[f].seq \in Nat /\ rows[e].seq \in Nat
    BY <2>1, <2>4, <2>7, <2>8, InsertedFacts DEF Before
  <2>10. rows[f].prev = NewestOf(Before(f))
    <3>1. f \notin Bad
      BY <2>3, <2>9
    <3>2. QED
      BY <2>9, <3>1 DEF BadLink
  <2>11. Before(f) \in SUBSET Inserted
    BY VisibleInserted DEF Before
  <2>12. ASSUME NEW g \in Before(f) PROVE rows[g].seq <= SeqOf(rows[e].prev)
    <3>1. g \in Visible /\ rows[g].seq < rows[f].seq /\ rows[g].seq \in Nat
      BY <2>1, <2>11, InsertedFacts DEF Before
    <3>2. g \in Before(e)
      BY <2>9, <3>1 DEF Before
    <3>3. g \notin Between
      BY <2>8, <2>9, <3>1
    <3>4. SeqOf(rows[e].prev) \in Nat
      <4>1. rows[e].prev \in Entries \cup {Genesis}
        BY <2>5 DEF Visible
      <4>2. QED
        BY <2>1, <4>1, SeqOfType, AuditAssumption
    <3>5. QED
      BY <3>1, <3>2, <3>3, <3>4
  <2>13. rows[f].prev = rows[e].prev
    <3>1. CASE rows[e].prev = Genesis
      <4>1. Before(f) = {}
        <5>1. ASSUME NEW g \in Before(f) PROVE FALSE
          <6>1. rows[g].seq <= 0 /\ rows[g].seq \in Nat \ {0}
            BY <2>1, <2>11, <2>12, <3>1, InsertedFacts DEF SeqOf
          <6>2. QED
            BY <6>1
        <5>2. QED
          BY <5>1
      <4>2. QED
        BY <2>1, <2>10, <2>11, <3>1, <4>1, NewestFacts
    <3>2. CASE rows[e].prev # Genesis
      <4>1. SeqOf(rows[e].prev) = rows[rows[e].prev].seq
        BY <3>2 DEF SeqOf
      <4>2. rows[e].prev \in Before(f)
        BY <2>5, <2>9, <3>2, <4>1 DEF Before
      <4>3. \A g \in Before(f) : rows[g].seq <= rows[rows[e].prev].seq
        BY <2>12, <4>1
      <4>4. QED
        BY <2>1, <2>10, <2>11, <4>2, <4>3, NewestUnique
    <3>3. QED
      BY <3>1, <3>2
  <2>14. QED
    BY <2>4, <2>9, <2>13
<1>2. QED
  BY <1>1 DEF BrokenMeansFork

\* The first record that verifyChain reports shares its link with another one,
\* for any number of processes and any faults: no record is missing.
THEOREM BreaksAreForks == Spec => []BrokenMeansFork
BY BreaksTell, Invariance, PTL

-----------------------------------------------------------------------------
(* One process that learns how its inserts end *)

\* The record with the highest sequence among unequal ones, in any table.
LEMMA NewestIn ==
    ASSUME NEW r, NEW S, NEW e \in S,
           \A f \in S : r[f].seq \in Nat /\ r[f].seq <= r[e].seq,
           \A f \in S : r[f].seq = r[e].seq => f = e
    PROVE  (CHOOSE x \in S : \A f \in S : r[f].seq <= r[x].seq) = e
<1> DEFINE m == CHOOSE x \in S : \A f \in S : r[f].seq <= r[x].seq
<1>1. \E x \in S : \A f \in S : r[f].seq <= r[x].seq
  OBVIOUS
<1>2. m \in S /\ \A f \in S : r[f].seq <= r[m].seq
  BY <1>1
<1>3. r[m].seq = r[e].seq
  BY <1>2
<1>4. QED
  BY <1>2, <1>3

LEMMA SameNewest ==
    ASSUME TypeOK, LinksPointBack, Visible' = Visible,
           \A e \in Visible : rows'[e].seq = rows[e].seq
    PROVE  NewestOf(Visible)' = NewestOf(Visible)
<1>1. CASE Visible = {}
  BY <1>1 DEF NewestOf
<1>2. CASE Visible # {}
  <2> DEFINE e == NewestOf(Visible)
  <2>1. e \in Visible /\ \A f \in Visible : rows[f].seq <= rows[e].seq
    BY <1>2, VisibleInserted, NewestFacts
  <2>2. \A f \in Visible : rows[f].seq \in Nat
    BY VisibleInserted, InsertedFacts
  <2>3. \A f \in Visible : rows[f].seq = rows[e].seq => f = e
    BY <2>1, VisibleInserted DEF LinksPointBack
  <2> HIDE DEF e
  <2>4. (CHOOSE x \in Visible : \A f \in Visible : rows'[f].seq <= rows'[x].seq) = e
    BY <2>1, <2>2, <2>3, NewestIn
  <2>5. NewestOf(Visible)' = CHOOSE x \in Visible : \A f \in Visible : rows'[f].seq <= rows'[x].seq
    BY <1>2 DEF NewestOf
  <2>6. QED
    BY <2>4, <2>5 DEF e
<1>3. QED
  BY <1>1, <1>2

\* A record that commits is the newest one.
LEMMA CommittedIsNewest ==
    ASSUME TypeOK, LinksPointBack, NEW e \in Entries, InsertCommits(e),
           \A f \in Visible : rows[f].seq < rows[e].seq
    PROVE  NewestOf(Visible)' = e
<1>1. rows[e].state = "inserting" /\ rows' = [rows EXCEPT ![e].state = "visible"]
      /\ rows \in [Entries -> Row]
  BY DEF InsertCommits, TypeOK
<1>2. Visible' = Visible \cup {e} /\ e \in Inserted
  BY <1>1 DEF Visible, Inserted
<1>3. \A f \in Entries : rows'[f].seq = rows[f].seq
  BY <1>1 DEF Row
<1>4. \A f \in Visible' : rows'[f].seq \in Nat /\ rows'[f].seq <= rows'[e].seq
  <2>1. \A f \in Visible' : f \in Entries /\ rows[f].seq \in Nat
    BY <1>2, VisibleInserted, InsertedFacts
  <2>2. QED
    BY <1>2, <1>3, <2>1
<1>5. \A f \in Visible' : rows'[f].seq = rows'[e].seq => f = e
  BY <1>2, <1>3, VisibleInserted DEF LinksPointBack, Inserted
<1>6. e \in Visible'
  BY <1>2
<1>7. (CHOOSE x \in Visible' : \A f \in Visible' : rows'[f].seq <= rows'[x].seq) = e
  BY <1>4, <1>5, <1>6, NewestIn
<1>8. QED
  BY <1>6, <1>7 DEF NewestOf

\* Two inserts never run at once.
LEMMA OneInsert ==
    ASSUME OneProcess, IInv, SoleWriter, NEW e \in Entries, rows[e].state = "inserting"
    PROVE  \E p \in Processes :
              /\ pc[p] = "insert" /\ \A q \in Processes : q = p
              /\ \A f \in Entries : rows[f].state = "inserting" => f = Head(chain[p])
<1>1. ASSUME NEW f \in Entries, rows[f].state = "inserting"
      PROVE  /\ rows[f].by \in Processes
             /\ pc[rows[f].by] = "insert" /\ f = Head(chain[rows[f].by])
  <2>1. f \in Inserted /\ f \notin Visible /\ outcome[f] # "failed"
    BY <1>1 DEF Inserted, Visible, SoleWriter
  <2>2. rows[f].by \in Processes
    BY <2>1, InsertedFacts DEF IInv
  <2>3. QED
    BY <2>1, <2>2, PendingFacts
<1>2. QED
  BY <1>1 DEF OneProcess

\* A step that leaves the visible records and the running inserts as they are.
LEMMA SameWriter ==
    ASSUME IInv, SoleWriter, Visible' = Visible,
           \A e \in Visible : rows'[e].seq = rows[e].seq,
           \A e \in Entries : rows'[e].state = "inserting" => rows'[e] = rows[e],
           \A e \in Entries : outcome'[e] = "failed" =>
              rows'[e].state \in {"absent", "aborted"},
           \A p \in Processes : pc'[p] = "read" =>
              \/ pc[p] = "read" /\ last'[p] = last[p]
              \/ last'[p] = NewestOf(Visible)
    PROVE  SoleWriter'
<1>1. NewestOf(Visible)' = NewestOf(Visible)
  BY SameNewest DEF IInv
<1>2. \A p \in Processes : pc'[p] = "read" => last'[p] = NewestOf(Visible)'
  BY <1>1 DEF SoleWriter
<1>3. ASSUME NEW e \in Entries, rows'[e].state = "inserting"
      PROVE  /\ rows'[e].prev = NewestOf(Visible)'
             /\ \A f \in Visible' : rows'[f].seq < rows'[e].seq
  <2>1. rows[e].state = "inserting" /\ rows'[e] = rows[e]
    BY <1>3
  <2>2. rows[e].prev = NewestOf(Visible) /\ \A f \in Visible : rows[f].seq < rows[e].seq
    BY <2>1 DEF SoleWriter
  <2>3. QED
    BY <1>1, <2>1, <2>2
<1>4. QED
  BY <1>2, <1>3 DEF SoleWriter

LEMMA SoleWriterNext ==
    ASSUME AuditAssumption, OneProcess, LearnsOutcomes, IInv, SoleWriter, Next
    PROVE  SoleWriter'
<1>1. /\ TypeOK /\ ChainsFit /\ OutcomesFit /\ LinksPointBack
      /\ rows \in [Entries -> Row]
      /\ pc \in [Processes -> {"ready", "read", "insert"}]
      /\ last \in [Processes -> Entries \cup {Genesis}]
      /\ outcome \in [Entries -> {"new", "pending", "written", "failed"}]
  BY DEF IInv, TypeOK
<1>2. \A e \in Entries : outcome[e] = "failed" => rows[e].state \in {"absent", "aborted"}
  BY DEF SoleWriter
<1>3. ASSUME NEW p \in Processes, NEW e \in Entries, Record(p, e) PROVE SoleWriter'
  <2>1. rows' = rows /\ pc' = pc /\ last' = last /\ outcome' = [outcome EXCEPT ![e] = "pending"]
    BY <1>3 DEF Record
  <2>2. Visible' = Visible
    BY <2>1 DEF Visible
  <2>3. \A f \in Entries : outcome'[f] = "failed" => outcome[f] = "failed"
    BY <1>1, <2>1
  <2>4. QED
    BY <1>2, <2>1, <2>2, <2>3, SameWriter
<1>4. ASSUME NEW p \in Processes, ReadLast(p) PROVE SoleWriter'
  <2>1. /\ rows' = rows /\ outcome' = outcome
        /\ last' = [last EXCEPT ![p] = NewestOf(Visible)]
        /\ pc' = [pc EXCEPT ![p] = "read"]
    BY <1>4 DEF ReadLast
  <2>2. Visible' = Visible
    BY <2>1 DEF Visible
  <2>3. \A q \in Processes : \/ q = p /\ last'[q] = NewestOf(Visible)
                             \/ pc'[q] = pc[q] /\ last'[q] = last[q]
    BY <1>1, <2>1
  <2>4. QED
    BY <1>2, <2>1, <2>2, <2>3, SameWriter
<1>5. ASSUME NEW p \in Processes, Insert(p) PROVE SoleWriter'
  <2> DEFINE h == Head(chain[p])
             new == [state |-> "inserting", seq |-> nextSeq, prev |-> last[p], by |-> p]
  <2>1. /\ pc[p] = "read" /\ rows' = [rows EXCEPT ![h] = new]
        /\ pc' = [pc EXCEPT ![p] = "insert"] /\ last' = last /\ outcome' = outcome
    BY <1>5 DEF Insert
  <2>2. chain[p] # <<>>
    BY <1>1, <2>1 DEF ChainsFit
  <2>3. h \in Entries /\ outcome[h] = "pending" /\ h \notin Inserted
    BY <2>1, <2>2, RunningFacts
  <2> HIDE DEF h
  <2>4. rows'[h] = new /\ \A e \in Entries \ {h} : rows'[e] = rows[e]
    BY <1>1, <2>1, <2>3
  <2>5. Visible' = Visible /\ h \notin Visible
    BY <2>3, <2>4, VisibleInserted DEF Visible
  <2>6. \A e \in Visible : e \in Entries /\ rows'[e] = rows[e]
    BY <2>4, <2>5 DEF Visible
  <2>7. NewestOf(Visible)' = NewestOf(Visible)
    BY <1>1, <2>5, <2>6, SameNewest
  <2>8. last[p] = NewestOf(Visible) /\ \A f \in Visible : rows[f].seq < nextSeq
    BY <1>1, <2>1, VisibleInserted, InsertedFacts DEF SoleWriter
  <2>9. ASSUME NEW e \in Entries, rows'[e].state = "inserting"
        PROVE  /\ rows'[e].prev = NewestOf(Visible)'
               /\ \A f \in Visible' : rows'[f].seq < rows'[e].seq
    <3>1. CASE e = h
      BY <2>4, <2>5, <2>6, <2>7, <2>8, <3>1
    <3>2. CASE e # h
      BY <2>4, <2>5, <2>6, <2>7, <2>9, <3>2 DEF SoleWriter
    <3>3. QED
      BY <3>1, <3>2
  <2>10. \A q \in Processes : pc'[q] = "read" => last'[q] = NewestOf(Visible)'
    BY <1>1, <2>1, <2>7 DEF SoleWriter
  <2>11. \A e \in Entries : outcome'[e] = "failed" => rows'[e].state \in {"absent", "aborted"}
    BY <1>2, <2>1, <2>3, <2>4
  <2>12. QED
    BY <2>9, <2>10, <2>11 DEF SoleWriter
<1>6. ASSUME NEW p \in Processes, Resolve(p) PROVE SoleWriter'
  <2>1. /\ rows' = rows /\ last' = last
        /\ outcome' = [outcome EXCEPT ![Head(chain[p])] = "written"]
        /\ pc' = [pc EXCEPT ![p] = "ready"]
    BY <1>6 DEF Resolve, Settle
  <2>2. Visible' = Visible
    BY <2>1 DEF Visible
  <2>3. /\ \A f \in Entries : outcome'[f] = "failed" => outcome[f] = "failed"
        /\ \A q \in Processes : pc'[q] = "read" => pc[q] = "read"
    BY <1>1, <2>1
  <2>4. QED
    BY <1>2, <2>1, <2>2, <2>3, SameWriter
<1>7. ASSUME NEW p \in Processes, StatementFails(p) PROVE SoleWriter'
  <2> DEFINE h == Head(chain[p])
  <2>1. /\ chain[p] # <<>> /\ last' = last
        /\ outcome' = [outcome EXCEPT ![h] = "failed"]
        /\ pc' = [pc EXCEPT ![p] = "ready"]
        /\ IF pc[p] = "insert"
           THEN rows[h].state = "inserting" /\ rows' = [rows EXCEPT ![h].state = "aborted"]
           ELSE rows' = rows
    BY <1>7 DEF StatementFails, Settle
  <2>2. h \in Entries /\ (pc[p] # "insert" => h \notin Inserted)
    BY <2>1, RunningFacts
  <2> HIDE DEF h
  <2>3. /\ \A e \in Entries \ {h} : rows'[e] = rows[e]
        /\ rows'[h].seq = rows[h].seq
        /\ rows'[h].state \in {"absent", "aborted"}
        /\ rows[h].state \in {"absent", "inserting"}
    BY <1>1, <2>1, <2>2 DEF Inserted, Row
  <2>4. Visible' = Visible
    BY <2>3 DEF Visible
  <2>5. /\ \A f \in Entries \ {h} : outcome'[f] = outcome[f]
        /\ \A q \in Processes : pc'[q] = "read" => pc[q] = "read"
    BY <1>1, <2>1, <2>2
  <2>6. \A f \in Entries : outcome'[f] = "failed" => rows'[f].state \in {"absent", "aborted"}
    BY <1>2, <2>3, <2>5
  <2>7. /\ \A e \in Visible : rows'[e].seq = rows[e].seq
        /\ \A e \in Entries : rows'[e].state = "inserting" => rows'[e] = rows[e]
    BY <2>3 DEF Visible
  <2>8. QED
    BY <2>1, <2>4, <2>5, <2>6, <2>7, SameWriter
<1>8. ASSUME NEW p \in Processes, ReplyLost(p) \/ Crash(p) PROVE SoleWriter'
  BY <1>8 DEF ReplyLost, Crash, Fault, LearnsOutcomes
<1>9. ASSUME NEW e \in Entries, InsertCommits(e) PROVE SoleWriter'
  <2>1. /\ rows[e].state = "inserting" /\ rows' = [rows EXCEPT ![e].state = "visible"]
        /\ pc' = pc /\ outcome' = outcome
    BY <1>9 DEF InsertCommits
  <2>2. PICK p \in Processes :
           /\ pc[p] = "insert" /\ \A q \in Processes : q = p
           /\ \A f \in Entries : rows[f].state = "inserting" => f = Head(chain[p])
    BY <2>1, OneInsert
  <2>3. rows'[e].state = "visible" /\ \A f \in Entries \ {e} : rows'[f] = rows[f]
    BY <1>1, <2>1 DEF Row
  <2>4. \A f \in Entries : rows'[f].state # "inserting"
    BY <2>1, <2>2, <2>3
  <2>5. \A q \in Processes : pc'[q] # "read"
    BY <2>1, <2>2
  <2>6. \A f \in Entries : outcome'[f] = "failed" => rows'[f].state \in {"absent", "aborted"}
    BY <1>2, <2>1, <2>3
  <2>7. QED
    BY <2>4, <2>5, <2>6 DEF SoleWriter
<1>10. ASSUME NEW e \in Entries, OrphanAborts(e) PROVE SoleWriter'
  BY <1>2, <1>10 DEF OrphanAborts
<1>11. QED
  BY <1>3, <1>4, <1>5, <1>6, <1>7, <1>8, <1>9, <1>10 DEF Next

LEMMA SoleWriterInvariance ==
    ASSUME OneProcess, LearnsOutcomes
    PROVE  Spec => [](IInv /\ SoleWriter)
<1>1. Init => IInv /\ SoleWriter
  <2>1. Init => SoleWriter
    BY DEF Init, SoleWriter, NoRow
  <2>2. QED
    BY <2>1, InitInv, AuditAssumption
<1>2. IInv /\ SoleWriter /\ [Next]_vars => (IInv /\ SoleWriter)'
  <2>1. IInv /\ SoleWriter /\ UNCHANGED vars => SoleWriter'
    BY DEF vars, SoleWriter, NewestOf, Visible
  <2>2. QED
    BY <2>1, NextInv, StutterInv, SoleWriterNext, AuditAssumption
<1>3. QED
  BY <1>1, <1>2, PTL DEF Spec

\* While one process writes and learns how its inserts end, verifyChain never
\* reports a break.
THEOREM SoleWriterVerifies ==
    ASSUME OneProcess, LearnsOutcomes
    PROVE  Spec => []ChainVerifies
<1>1. ASSUME IInv, SoleWriter, ForksHaveACause, BrokenMeansFork PROVE ChainVerifies
  <2>1. ASSUME NEW e \in Visible, NEW f \in Visible PROVE rows[e].by = rows[f].by
    BY <1>1, VisibleInserted, InsertedFacts DEF IInv, OneProcess
  <2>2. ASSUME NEW e \in Visible PROVE outcome[e] # "failed"
    BY <1>1 DEF SoleWriter, Visible
  <2>3. QED
    BY <1>1, <2>1, <2>2 DEF ForksHaveACause, BrokenMeansFork, ChainVerifies
<1>2. IInv /\ SoleWriter /\ ForksHaveACause /\ BrokenMeansFork => ChainVerifies
  BY <1>1
<1>3. QED
  BY <1>2, SoleWriterInvariance, ForksExplained, BreaksAreForks, PTL

\* A step that changes no visible record is a stutter of the trail.
LEMMA TrailStutter ==
    ASSUME IInv, Visible' = Visible, \A e \in Visible : rows'[e].seq = rows[e].seq,
           \A e \in Visible : rows'[e].prev = rows[e].prev
    PROVE  UNCHANGED Trail!vars
<1>1. NewestOf(Visible)' = NewestOf(Visible)
  BY SameNewest DEF IInv
<1>2. [e \in Entries |-> IF e \in Visible THEN rows[e].prev ELSE Absent]'
         = [e \in Entries |-> IF e \in Visible THEN rows[e].prev ELSE Absent]
  OBVIOUS
<1>3. QED
  BY <1>1, <1>2 DEF Trail!vars

LEMMA TrailStep ==
    ASSUME AuditAssumption, LearnsOutcomes, IInv, SoleWriter, Next
    PROVE  (\E e \in Entries : Trail!Append(e)) \/ UNCHANGED Trail!vars
<1>1. TypeOK /\ LinksPointBack /\ rows \in [Entries -> Row]
  BY DEF IInv, TypeOK
<1>2. ASSUME rows' = rows PROVE UNCHANGED Trail!vars
  BY <1>2, TrailStutter DEF Visible
<1>3. ASSUME NEW p \in Processes, Insert(p) PROVE UNCHANGED Trail!vars
  <2> DEFINE h == Head(chain[p])
  <2>1. h \notin Inserted
    BY <1>3, RunningFacts DEF Insert, IInv, ChainsFit
  <2>2. \E new : new.state = "inserting" /\ rows' = [rows EXCEPT ![h] = new]
    BY <1>3 DEF Insert
  <2> HIDE DEF h
  <2>3. \A e \in Entries : rows'[e] = rows[e] \/ (e = h /\ rows'[e].state = "inserting")
    BY <1>1, <2>2
  <2>4. Visible' = Visible /\ \A e \in Visible : rows'[e] = rows[e]
    BY <2>1, <2>3, VisibleInserted DEF Visible
  <2>5. QED
    BY <2>4, TrailStutter
<1>4. ASSUME NEW p \in Processes, StatementFails(p) PROVE UNCHANGED Trail!vars
  <2> DEFINE h == Head(chain[p])
  <2>1. \/ rows' = rows
        \/ rows[h].state = "inserting" /\ rows' = [rows EXCEPT ![h].state = "aborted"]
    BY <1>4 DEF StatementFails
  <2> HIDE DEF h
  <2>2. \A e \in Entries : \/ rows'[e] = rows[e]
                           \/ rows[e].state = "inserting" /\ rows'[e].state = "aborted"
    BY <1>1, <2>1 DEF Row
  <2>3. Visible' = Visible /\ \A e \in Visible : rows'[e] = rows[e]
    BY <2>2 DEF Visible
  <2>4. QED
    BY <2>3, TrailStutter
<1>5. ASSUME NEW e \in Entries, OrphanAborts(e) PROVE UNCHANGED Trail!vars
  <2>1. rows[e].state = "inserting" /\ rows' = [rows EXCEPT ![e].state = "aborted"]
    BY <1>5 DEF OrphanAborts
  <2>2. \A f \in Entries : \/ rows'[f] = rows[f]
                           \/ rows[f].state = "inserting" /\ rows'[f].state = "aborted"
    BY <1>1, <2>1 DEF Row
  <2>3. Visible' = Visible /\ \A f \in Visible : rows'[f] = rows[f]
    BY <2>2 DEF Visible
  <2>4. QED
    BY <2>3, TrailStutter
<1>6. ASSUME NEW e \in Entries, InsertCommits(e) PROVE Trail!Append(e)
  <2> DEFINE link == [f \in Entries |-> IF f \in Visible THEN rows[f].prev ELSE Absent]
  <2>1. rows[e].state = "inserting" /\ rows' = [rows EXCEPT ![e].state = "visible"]
    BY <1>6 DEF InsertCommits
  <2>2. /\ rows[e].prev = NewestOf(Visible)
        /\ \A f \in Visible : rows[f].seq < rows[e].seq
    BY <2>1 DEF SoleWriter
  <2>3. NewestOf(Visible)' = e
    BY <1>1, <1>6, <2>2, CommittedIsNewest
  <2>4. /\ Visible' = Visible \cup {e} /\ e \notin Visible
        /\ \A f \in Entries : rows'[f].prev = rows[f].prev
    BY <1>1, <2>1 DEF Visible, Row
  <2>5. link[e] = Absent
    BY <2>4
  <2>6. link' = [link EXCEPT ![e] = NewestOf(Visible)]
    BY <2>2, <2>4
  <2>7. QED
    BY <2>3, <2>5, <2>6 DEF Trail!Append
<1>7. ASSUME NEW p \in Processes, ReplyLost(p) \/ Crash(p) PROVE FALSE
  BY <1>7 DEF ReplyLost, Crash, Fault, LearnsOutcomes
<1>8. QED
  BY <1>2, <1>3, <1>4, <1>5, <1>6, <1>7 DEF Next, Record, ReadLast, Resolve

\* Such a process keeps the promise of the audit trail: what is visible is one
\* chain that grows at its end.
THEOREM SoleWriterKeepsTrail ==
    ASSUME OneProcess, LearnsOutcomes
    PROVE  Spec => ImplementsTrail
<1>1. Init => Trail!Init
  <2>1. Init => Visible = {}
    BY DEF Init, Visible, NoRow
  <2>2. QED
    BY <2>1 DEF Trail!Init, NewestOf
<1>2. IInv /\ SoleWriter /\ [Next]_vars => [\E e \in Entries : Trail!Append(e)]_(Trail!vars)
  <2>1. IInv /\ SoleWriter /\ Next => (\E e \in Entries : Trail!Append(e)) \/ UNCHANGED Trail!vars
    BY TrailStep, AuditAssumption
  <2>2. IInv /\ UNCHANGED vars => UNCHANGED Trail!vars
    BY TrailStutter DEF vars, Visible
  <2>3. QED
    BY <2>1, <2>2
<1>3. QED
  BY <1>1, <1>2, SoleWriterInvariance, PTL DEF Spec, ImplementsTrail, Trail!Spec
=============================================================================
