----------------------------- MODULE TicketFigures -----------------------------
(***************************************************************************)
(* The figures of a tenant's tickets, and their export.  A report is made  *)
(* of several statements, each of which sees the table at its own moment,  *)
(* while others change it; an export reads batch after batch, each behind  *)
(* the last ticket of the one before.                                      *)
(***************************************************************************)
EXTENDS Integers, FiniteSets, Sequences, TicketRules

CONSTANTS
    LastTicket,    \* tickets are numbered in the order of their ids
    FigStatuses,   \* bound: the statuses that tickets get; others are alike
    BatchOfExport, \* TICKET_EXPORT_BATCH_SIZE
    MaxFigTime,    \* bound: the time that is looked at
    MaxFigMoves    \* bound: changes of tickets by others

ASSUME FiguresAssumption ==
    /\ LastTicket \in Nat /\ FigStatuses \subseteq Status /\ BatchOfExport \in Nat \ {0}
    /\ MaxFigTime \in Nat \ {0, 1} /\ MaxFigMoves \in Nat

VARIABLES
    figTicket,  \* the table: status, assignment, due date (0 for null), closedAt (0 for
                \* null), updatedAt; and since when the ticket has been resolved
    figNow,
    figReport,  \* the report: its kind and filter, the statements to run, what they saw
    figExport   \* its export: the tickets sent, in order, and those it never ceased to ask for

figVars == <<figTicket, figNow, figReport, figExport>>

FigTickets == 1..LastTicket

Times == 0..MaxFigTime

Resolved == {"RESOLVED", "CLOSED"}

Row == [status : Status \cup {"none"}, mine : BOOLEAN, due : Times, closed : Times,
        updated : Times, since : Times]

NoRow == [status |-> "none", mine |-> FALSE, due |-> 0, closed |-> 0, updated |-> 0, since |-> 0]

\* The statements of every report: those of a summary are the first three of an
\* overview, and those of the metrics run one after the other.
StatementsOf ==
    [overview |-> {"total", "byStatus", "breached", "resolved"},
     sla      |-> {"active", "breached"},
     metrics  |-> {"closed", "breached"},
     agent    |-> {"mine", "mineResolved", "mineActive"},
     export   |-> {}]

Filters == {"any", "RESOLVED"}

\* What a statement answers of a ticket.
Seen == [id : FigTickets, status : Status, due : Times]

FiguresTypeOK ==
    /\ figTicket \in [FigTickets -> Row] /\ figNow \in 1..MaxFigTime
    /\ figReport.kind \in DOMAIN StatementsOf /\ figReport.filter \in Filters
    /\ figReport.pc \in {"run", "done"} /\ figReport.now \in Times
    /\ figReport.todo \subseteq StatementsOf[figReport.kind]
    /\ \A s \in StatementsOf[figReport.kind] : figReport.saw[s] \subseteq Seen
    /\ figReport.moves \in 0..MaxFigMoves
    /\ figExport.sent \in Seq(FigTickets) /\ figExport.steady \subseteq FigTickets
    /\ figExport.skips \in 0..LastTicket

\* The due dates that a report tells apart: none, in the past, now.
DueDates(kind) ==
    CASE kind \in {"sla", "metrics"} -> 0..2
      [] kind \in {"overview", "export"} -> 0..1
      [] OTHER -> {0}

\* The table when a report begins.  updateStatus leaves a RESOLVED ticket without a
\* closing date; the seed, like any other import, may bring one that has it.
FiguresInit ==
    /\ figTicket \in [FigTickets ->
           {NoRow} \cup
           {row \in Row : /\ row.due \in 0..2
                          /\ \/ row.status = "OPEN" /\ row.updated = 1 /\ row.since = 0 /\ row.closed = 0
                             \/ row.status = "RESOLVED" /\ row.updated = 1 /\ row.since = 1 /\ row.closed \in 0..1
                             \/ row.status = "CLOSED" /\ row.updated = 2 /\ row.since = 1 /\ row.closed = 2}]
    /\ figNow = 2
    /\ \E kind \in DOMAIN StatementsOf, filter \in Filters :
           /\ kind \in {"metrics", "agent"} => filter = "any"
           /\ \A t \in FigTickets : figTicket[t].due \in DueDates(kind)
           /\ kind # "agent" => \A t \in FigTickets : ~figTicket[t].mine
           /\ figReport = [kind |-> kind, filter |-> filter, pc |-> "run", now |-> 2,
                           todo |-> StatementsOf[kind], saw |-> [s \in StatementsOf[kind] |-> {}],
                           moves |-> 0]
           /\ figExport = [sent |-> <<>>, skips |-> 0,
                           steady |-> {t \in FigTickets : filter \in {"any", figTicket[t].status}
                                                          /\ figTicket[t] # NoRow}]

-----------------------------------------------------------------------------
(* Which tickets a statement asks for *)

\* buildAnalyticsWhere, buildTicketListWhere.
Matches(row) == row.status # "none" /\ figReport.filter \in {"any", row.status}

\* A condition on the status replaces that of the filter.
Where(statement, row, now) ==
    CASE statement \in {"total", "byStatus"} -> Matches(row)
      [] statement = "breached" -> /\ row.status \notin Resolved \cup {"none"}
                                   /\ row.due # 0 /\ row.due < now
      [] statement = "resolved" -> row.status \in Resolved
      [] statement = "active" -> row.status \notin Resolved \cup {"none"} /\ row.due # 0
      [] statement = "closed" -> row.status = "RESOLVED" /\ row.closed # 0
      [] statement = "mine" -> row.mine
      [] statement = "mineResolved" -> row.mine /\ row.status \in Resolved
      [] statement = "mineActive" -> row.mine /\ row.status \notin Resolved

-----------------------------------------------------------------------------
(* Steps *)

\* What others do to a ticket while the report is made.
Moved(t, row) ==
    /\ figReport.pc = "run" /\ figReport.moves < MaxFigMoves
    /\ figTicket' = [figTicket EXCEPT ![t] = row]
    /\ figReport' = [figReport EXCEPT !.moves = @ + 1]
    /\ figExport' = [figExport EXCEPT !.steady = IF Matches(row) THEN @ ELSE @ \ {t}]
    /\ UNCHANGED figNow

TicketOpened(t) ==
    /\ figTicket[t].status = "none"
    /\ \E due \in {0, figNow} :
           Moved(t, [NoRow EXCEPT !.status = "OPEN", !.due = due, !.updated = figNow])

\* updateStatus: closedAt is set for CLOSED and removed for any other status.
ClosingDate(status) == IF status = "CLOSED" THEN figNow ELSE 0

StatusUpdated(t) ==
    LET row == figTicket[t] IN
    /\ row.status # "none"
    /\ \E status \in FigStatuses \ {row.status} :
           Moved(t, [row EXCEPT !.status = status, !.closed = ClosingDate(status), !.updated = figNow,
                         !.since = IF status \notin Resolved THEN 0 ELSE IF @ = 0 THEN figNow ELSE @])

TicketAssigned(t) ==
    /\ figTicket[t].status # "none"
    /\ Moved(t, [figTicket[t] EXCEPT !.mine = ~@, !.updated = figNow])

FigTick ==
    /\ figReport.pc = "run" /\ figNow < MaxFigTime
    /\ figNow' = figNow + 1
    /\ UNCHANGED <<figTicket, figReport, figExport>>

\* One statement of Promise.all, in whatever order; of the metrics the overdue
\* tickets are counted last, and as of then.
RunStatement(s) ==
    LET now == IF figReport.kind = "metrics" THEN figNow ELSE figReport.now IN
    /\ figReport.pc = "run" /\ s \in figReport.todo
    /\ figReport.kind = "metrics" /\ s = "breached" => figReport.todo = {s}
    /\ figReport' = [figReport EXCEPT
           !.todo = @ \ {s},
           !.saw[s] = {[id |-> t, status |-> figTicket[t].status, due |-> figTicket[t].due] :
                           t \in {u \in FigTickets : Where(s, figTicket[u], now)}},
           !.pc = IF figReport.todo = {s} THEN "done" ELSE "run"]
    /\ UNCHANGED <<figTicket, figNow, figExport>>

Cursor == IF figExport.sent = <<>> THEN 0 ELSE figExport.sent[Len(figExport.sent)]

\* Faulty variant: the first of the tickets from the cursor on is sent again.
BehindAndCursor(cursor) == {t \in FigTickets : t >= cursor /\ Matches(figTicket[t])}

\* The tickets from the cursor on, of which Prisma skips the first.
Behind(cursor) ==
    LET from == {t \in FigTickets : t >= cursor /\ Matches(figTicket[t])} IN
    IF cursor = 0 THEN from ELSE {t \in from : \E u \in from : u < t}

\* As many of them as a batch holds, in the order of their ids.
FirstOf(S, n) ==
    LET before(t) == Cardinality({u \in S : u < t}) IN
    [i \in 1..Cardinality({t \in S : before(t) < n}) |-> CHOOSE t \in S : before(t) = i - 1]

ExportBatch ==
    LET batch == FirstOf(Behind(Cursor), BatchOfExport) IN
    /\ figReport.kind = "export" /\ figReport.pc = "run"
    /\ figExport' = [figExport EXCEPT
           !.sent = @ \o batch,
           !.skips = IF Cursor # 0 /\ ~Matches(figTicket[Cursor]) THEN @ + 1 ELSE @]
    /\ figReport' = [figReport EXCEPT !.pc = IF Len(batch) < BatchOfExport THEN "done" ELSE "run"]
    /\ UNCHANGED <<figTicket, figNow>>

FiguresNext ==
    \/ FigTick \/ ExportBatch
    \/ \E s \in StatementsOf[figReport.kind] : RunStatement(s)
    \/ \E t \in FigTickets : TicketOpened(t) \/ StatusUpdated(t) \/ TicketAssigned(t)

FiguresSpec == FiguresInit /\ [][FiguresNext]_figVars

-----------------------------------------------------------------------------
(* Correctness *)

Figure(s) == Cardinality(figReport.saw[s])

FigureOf(s, Test(_)) == Cardinality({seen \in figReport.saw[s] : Test(seen)})

Difference(m, n) == IF m < n THEN n - m ELSE m - n

\* Two figures are of the same tickets as far as these were left alone.
Agree(m, n) == Difference(m, n) <= figReport.moves

Breached(row) == figReport.now >= row.due

Both(s, u) == {x.id : x \in figReport.saw[s]} \cap {x.id : x \in figReport.saw[u]}

\* Figures of one report that tell the same thing agree, but for what was changed
\* while it was made and for tickets due at its very moment; and the metrics, whose
\* statements run one after the other, count a ticket both as resolved and as
\* overdue only if it was reopened between them.
FiguresAgree ==
    figReport.pc = "done" =>
        CASE figReport.kind = "overview" ->
               /\ Agree(Figure("total"), Figure("byStatus"))
               /\ figReport.filter = "any" => Figure("breached") <= Figure("total") + figReport.moves
               /\ figReport.filter = "any" =>
                      Agree(Figure("resolved"), FigureOf("byStatus", LAMBDA row : row.status \in Resolved))
          [] figReport.kind = "sla" ->
               Difference(FigureOf("active", Breached), Figure("breached"))
                   <= figReport.moves + FigureOf("active", LAMBDA row : row.due = figReport.now)
          [] figReport.kind = "agent" -> Agree(Figure("mine"), Figure("mineResolved") + Figure("mineActive"))
          [] figReport.kind = "metrics" -> Cardinality(Both("closed", "breached")) <= figReport.moves
          [] OTHER -> TRUE

\* resolvedTickets, as the API's description has it: of the tickets that nobody touches
\* meanwhile, the metrics count every one that is resolved.
MetricsCountResolved ==
    figReport.kind = "metrics" /\ figReport.pc = "done" /\ figReport.moves = 0 =>
        Figure("closed") = Cardinality({t \in FigTickets : figTicket[t].status = "RESOLVED"})

\* getResolutionTimestamp and the comparison with the due date.
Compliant(row) == (IF row.closed # 0 THEN row.closed ELSE row.updated) <= row.due

\* A ticket that counts as compliant was resolved in time; one that was and does not
\* count has been written since.
ComplianceExplained ==
    \A t \in FigTickets :
        LET row == figTicket[t] IN
        row.status \in Resolved /\ row.due # 0 =>
            /\ Compliant(row) => row.since <= row.due
            /\ ~Compliant(row) /\ row.since <= row.due => row.updated > row.since

\* An export sends every ticket once, in order, and misses none that matched from its
\* beginning to its end, except for one whenever the last ticket of a batch had
\* ceased to match.
ExportComplete ==
    LET sent == figExport.sent IN
    /\ \A i, j \in DOMAIN sent : i < j => sent[i] < sent[j]
    /\ figReport.kind = "export" /\ figReport.pc = "done" =>
           Cardinality(figExport.steady \ {sent[i] : i \in DOMAIN sent}) <= figExport.skips
================================================================================
