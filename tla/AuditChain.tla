------------------------------ MODULE AuditChain ------------------------------
(***************************************************************************)
(* The hash-chained audit log.  Every process serialises its own appends   *)
(* on a chain of promises; one append is two autocommitted statements:     *)
(* read the hash of the newest record, insert a record that links to it.   *)
(* The insert takes its sequence number when it executes and is visible    *)
(* when it commits.                                                        *)
(*                                                                         *)
(* Hashes are abstract: a record is told by its entry, its previousHash by *)
(* the entry that it links to.                                             *)
(***************************************************************************)
EXTENDS Integers, Sequences, FiniteSets

CONSTANTS
    Processes,   \* processes that append to the log
    Entries,     \* audit entries, each recorded once
    FaultKinds,  \* which faults may happen
    MaxFaults,   \* bound: how many faults may happen
    Genesis,     \* null in previousHash
    Absent,      \* no record
    NoProcess    \* the writer of no record

ASSUME AuditAssumption ==
    /\ IsFiniteSet(Entries)
    /\ FaultKinds \subseteq {"statement", "reply", "crash"}
    /\ MaxFaults \in Nat
    /\ Genesis \notin Entries
    /\ Absent \notin Entries \cup {Genesis}
    /\ NoProcess \notin Processes

VARIABLES
    rows,     \* the audit_logs table
    nextSeq,  \* its sequence
    chain,    \* appends of every process that are not settled, the first one running
    pc,       \* the running append of every process
    last,     \* the previousHash that it read
    outcome,  \* what became of every entry, as its process sees it
    faults    \* faults so far

vars == <<rows, nextSeq, chain, pc, last, outcome, faults>>

Row == [state : {"absent", "inserting", "visible", "aborted"}, seq : Nat,
        prev : Entries \cup {Genesis, Absent}, by : Processes \cup {NoProcess}]

NoRow == [state |-> "absent", seq |-> 0, prev |-> Absent, by |-> NoProcess]

TypeOK ==
    /\ rows \in [Entries -> Row]
    /\ nextSeq \in Nat \ {0}
    /\ chain \in [Processes -> Seq(Entries)]
    /\ pc \in [Processes -> {"ready", "read", "insert"}]
    /\ last \in [Processes -> Entries \cup {Genesis}]
    /\ outcome \in [Entries -> {"new", "pending", "written", "failed"}]
    /\ faults \in 0..MaxFaults

Init ==
    /\ rows = [e \in Entries |-> NoRow]
    /\ nextSeq = 1
    /\ chain = [p \in Processes |-> <<>>]
    /\ pc = [p \in Processes |-> "ready"]
    /\ last = [p \in Processes |-> Genesis]
    /\ outcome = [e \in Entries |-> "new"]
    /\ faults = 0

-----------------------------------------------------------------------------
(* The table *)

Visible == {e \in Entries : rows[e].state = "visible"}

\* The record with the highest sequence, if any.
NewestOf(S) ==
    IF S = {} THEN Genesis ELSE CHOOSE e \in S : \A f \in S : rows[f].seq <= rows[e].seq

Before(e) == {f \in Visible : rows[f].seq < rows[e].seq}

\* Faulty variant: the verification does not advance its previous hash.
BadLinkToGenesis(e) == rows[e].prev # Genesis

\* verifyChain finds e linked to something else than the record before it.
BadLink(e) == rows[e].prev # NewestOf(Before(e))

VerifyChain ==
    IF Visible = {} THEN "EMPTY"
    ELSE IF \E e \in Visible : BadLink(e) THEN "BROKEN" ELSE "VALID"

-----------------------------------------------------------------------------
(* Appending *)

Fault(kind) ==
    /\ kind \in FaultKinds
    /\ faults < MaxFaults
    /\ faults' = faults + 1

\* record(): the append waits for the earlier ones of its process.
Record(p, e) ==
    /\ outcome[e] = "new"
    /\ outcome' = [outcome EXCEPT ![e] = "pending"]
    /\ chain' = [chain EXCEPT ![p] = Append(@, e)]
    /\ UNCHANGED <<rows, nextSeq, pc, last, faults>>

\* Faulty variant: the records are ordered by ascending sequence.
ReadFirst(p) ==
    /\ chain[p] # <<>>
    /\ pc[p] = "ready"
    /\ last' = [last EXCEPT ![p] =
          IF Visible = {} THEN Genesis
          ELSE CHOOSE e \in Visible : \A f \in Visible : rows[e].seq <= rows[f].seq]
    /\ pc' = [pc EXCEPT ![p] = "read"]
    /\ UNCHANGED <<rows, nextSeq, chain, outcome, faults>>

ReadLast(p) ==
    /\ chain[p] # <<>>
    /\ pc[p] = "ready"
    /\ last' = [last EXCEPT ![p] = NewestOf(Visible)]
    /\ pc' = [pc EXCEPT ![p] = "read"]
    /\ UNCHANGED <<rows, nextSeq, chain, outcome, faults>>

Insert(p) ==
    /\ pc[p] = "read"
    /\ rows' = [rows EXCEPT ![Head(chain[p])] =
                   [state |-> "inserting", seq |-> nextSeq, prev |-> last[p], by |-> p]]
    /\ nextSeq' = nextSeq + 1
    /\ pc' = [pc EXCEPT ![p] = "insert"]
    /\ UNCHANGED <<chain, last, outcome, faults>>

\* PostgreSQL commits the insert, whether or not its client still waits.
InsertCommits(e) ==
    /\ rows[e].state = "inserting"
    /\ rows' = [rows EXCEPT ![e].state = "visible"]
    /\ UNCHANGED <<nextSeq, chain, pc, last, outcome, faults>>

\* Faulty variant: the rejection of an append is swallowed.
SettleSilently(p, result) ==
    /\ outcome' = IF result = "failed" THEN outcome
                  ELSE [outcome EXCEPT ![Head(chain[p])] = result]
    /\ chain' = [chain EXCEPT ![p] = Tail(@)]
    /\ pc' = [pc EXCEPT ![p] = "ready"]

\* The running append settles and the next one runs, whatever the result.
Settle(p, result) ==
    /\ outcome' = [outcome EXCEPT ![Head(chain[p])] = result]
    /\ chain' = [chain EXCEPT ![p] = Tail(@)]
    /\ pc' = [pc EXCEPT ![p] = "ready"]

Resolve(p) ==
    /\ pc[p] = "insert"
    /\ rows[Head(chain[p])].state = "visible"
    /\ Settle(p, "written")
    /\ UNCHANGED <<rows, nextSeq, last, faults>>

-----------------------------------------------------------------------------
(* Faults *)

\* The read or the insert fails; an insert that fails has used its sequence.
StatementFails(p) ==
    /\ chain[p] # <<>>
    /\ Fault("statement")
    /\ IF pc[p] = "insert"
       THEN /\ rows[Head(chain[p])].state = "inserting"
            /\ rows' = [rows EXCEPT ![Head(chain[p])].state = "aborted"]
       ELSE UNCHANGED rows
    /\ Settle(p, "failed")
    /\ UNCHANGED <<nextSeq, last>>

\* The connection breaks while the insert executes or after it committed.
ReplyLost(p) ==
    /\ pc[p] = "insert"
    /\ Fault("reply")
    /\ Settle(p, "failed")
    /\ UNCHANGED <<rows, nextSeq, last>>

\* An insert whose client is gone may be rolled back as well.
OrphanAborts(e) ==
    /\ rows[e].state = "inserting"
    /\ outcome[e] = "failed"
    /\ rows' = [rows EXCEPT ![e].state = "aborted"]
    /\ UNCHANGED <<nextSeq, chain, pc, last, outcome, faults>>

\* The process dies with its chain of promises, and starts again.
Crash(p) ==
    /\ chain[p] # <<>>
    /\ Fault("crash")
    /\ outcome' = [e \in Entries |-> IF \E i \in 1..Len(chain[p]) : chain[p][i] = e
                                     THEN "failed" ELSE outcome[e]]
    /\ chain' = [chain EXCEPT ![p] = <<>>]
    /\ pc' = [pc EXCEPT ![p] = "ready"]
    /\ UNCHANGED <<rows, nextSeq, last>>

-----------------------------------------------------------------------------
(* The specification *)

Next ==
    \/ \E p \in Processes :
          \/ \E e \in Entries : Record(p, e)
          \/ ReadLast(p) \/ Insert(p) \/ Resolve(p)
          \/ StatementFails(p) \/ ReplyLost(p) \/ Crash(p)
    \/ \E e \in Entries : InsertCommits(e) \/ OrphanAborts(e)

Spec == Init /\ [][Next]_vars

\* The event loop runs what it can run, and PostgreSQL ends what it executes.
Fairness ==
    /\ \A p \in Processes : WF_vars(ReadLast(p)) /\ WF_vars(Insert(p)) /\ WF_vars(Resolve(p))
    /\ \A e \in Entries : WF_vars(InsertCommits(e))

FairSpec == Spec /\ Fairness

-----------------------------------------------------------------------------
(* Correctness *)

\* verifyChain, which raises audit_chain_broken, finds nothing wrong.
ChainVerifies == VerifyChain # "BROKEN"

\* The log forks only where the promise chain does not serialise: between two
\* processes, or after an insert whose outcome the process did not learn.
ForksHaveACause ==
    \A e, f \in Visible :
        e # f /\ rows[e].prev = rows[f].prev =>
            \/ rows[e].by # rows[f].by
            \/ "failed" \in {outcome[e], outcome[f]}

\* A break that verifyChain reports is a fork: no record is ever missing, and
\* none links to what it did not read.
BrokenMeansFork ==
    VerifyChain = "BROKEN" =>
        \E e, f \in Visible : e # f /\ rows[e].prev = rows[f].prev

\* Every recorded entry is written or reported as failed.
EveryRecordSettles == \A e \in Entries : outcome[e] = "pending" ~> outcome[e] # "pending"

(***************************************************************************)
(* One process whose inserts do not commit behind its back keeps the       *)
(* promise of the audit trail.                                             *)
(***************************************************************************)
Trail == INSTANCE AuditTrail WITH
             link <- [e \in Entries |-> IF e \in Visible THEN rows[e].prev ELSE Absent],
             tail <- NewestOf(Visible)

ImplementsTrail == Trail!Spec
-----------------------------------------------------------------------------
(* The inductive invariant of the proofs *)

Inserted == {e \in Entries : rows[e].state # "absent"}

\* The sequence number of the record that is linked to.
SeqOf(link) == IF link = Genesis THEN 0 ELSE rows[link].seq

\* An entry waits in one chain, once; only the running insert has a row.
ChainsFit ==
    /\ \A p \in Processes : \A i \in 1..Len(chain[p]) :
          /\ outcome[chain[p][i]] = "pending"
          /\ IF i = 1 /\ pc[p] = "insert"
             THEN /\ rows[chain[p][i]].state \in {"inserting", "visible"}
                  /\ rows[chain[p][i]].by = p
             ELSE chain[p][i] \notin Inserted
          /\ \A q \in Processes : \A j \in 1..Len(chain[q]) :
                chain[p][i] = chain[q][j] => p = q /\ i = j
    /\ \A p \in Processes : pc[p] # "ready" => chain[p] # <<>>

OutcomesFit ==
    \A e \in Entries :
        /\ outcome[e] = "new" => e \notin Inserted
        /\ outcome[e] = "written" => e \in Visible
        /\ outcome[e] = "pending" /\ e \in Inserted =>
              \E p \in Processes : pc[p] = "insert" /\ e = Head(chain[p])
        /\ rows[e].state = "aborted" => outcome[e] = "failed"

\* Sequence numbers are unique, and a record links to one that was visible.
LinksPointBack ==
    /\ \A e \in Inserted : rows[e].seq \in 1..(nextSeq - 1) /\ rows[e].by \in Processes
    /\ \A e, f \in Inserted : rows[e].seq = rows[f].seq => e = f
    /\ \A e \in Inserted : /\ rows[e].prev \in Visible \cup {Genesis}
                           /\ SeqOf(rows[e].prev) < rows[e].seq
    /\ \A p \in Processes : pc[p] = "read" => last[p] \in Visible \cup {Genesis}

\* A process reads at least the newest of its own records, unless it was told
\* that the record failed.
ReadsItsOwn ==
    \A e \in Inserted :
        outcome[e] # "failed" =>
            /\ pc[rows[e].by] = "read" => rows[e].seq <= SeqOf(last[rows[e].by])
            /\ \A f \in Inserted :
                  /\ rows[f].by = rows[e].by
                  /\ outcome[f] # "failed"
                  /\ rows[e].seq < rows[f].seq
                  => rows[e].seq <= SeqOf(rows[f].prev)

IInv == TypeOK /\ ChainsFit /\ OutcomesFit /\ LinksPointBack /\ ReadsItsOwn

(* With one process that learns how its inserts end, more holds. *)

OneProcess == \A p, q \in Processes : p = q

LearnsOutcomes == FaultKinds \subseteq {"statement"}

\* No insert outlives its append, and nothing is newer than what was read.
SoleWriter ==
    /\ \A e \in Entries : outcome[e] = "failed" => rows[e].state \in {"absent", "aborted"}
    /\ \A p \in Processes : pc[p] = "read" => last[p] = NewestOf(Visible)
    /\ \A e \in Entries : rows[e].state = "inserting" =>
          /\ rows[e].prev = NewestOf(Visible)
          /\ \A f \in Visible : rows[f].seq < rows[e].seq
=============================================================================
