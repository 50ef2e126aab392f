------------------------------- MODULE SlaMonitor -------------------------------
(***************************************************************************)
(* The SLA monitor: every run selects the active tickets that have a due   *)
(* date, records a breach in the history and publishes the events whose    *)
(* handler notifies the assignee.  Each "already?" is a look-up and each   *)
(* answer to it another statement, so runs that overlap may repeat each    *)
(* other.  One ticket: the runs treat tickets one after the other.         *)
(***************************************************************************)
EXTENDS Integers, FiniteSets

CONSTANTS
    Monitors,          \* runs of the monitor
    MaxMonitorFaults,  \* bound: failures of a statement or of the handler
    MaxTicketMoves     \* bound: changes of the ticket by others

ASSUME MonitorAssumption ==
    IsFiniteSet(Monitors) /\ MaxMonitorFaults \in Nat /\ MaxTicketMoves \in Nat

VARIABLES
    slaTicket,   \* the ticket's row, and how near its due date is
    slaRun,      \* every run: where it stands and the ticket as it was selected
    slaBreached, \* SLA_BREACHED entries of the history
    slaNotices,  \* notifications by type
    slaOverlaps, \* runs during which another one was running
    slaMoves,    \* changes of the ticket so far
    slaFaults    \* faults so far

slaVars == <<slaTicket, slaRun, slaBreached, slaNotices, slaOverlaps, slaMoves, slaFaults>>

SlaStatus == {"ON_TIME", "WARNING", "BREACHED"}

SlaTicket == [active : BOOLEAN, assigned : BOOLEAN, sla : SlaStatus]

NoticeTypes == {"SLA_WARNING", "SLA_EXPIRED"}

MonitorTypeOK ==
    /\ slaTicket \in SlaTicket
    /\ slaRun \in [Monitors -> [pc : {"new", "history", "record", "look", "publish", "done", "failed"},
                                seen : SlaTicket]]
    /\ slaBreached \in 0..Cardinality(Monitors)
    /\ slaNotices \in [NoticeTypes -> 0..Cardinality(Monitors)]
    /\ slaOverlaps \subseteq Monitors
    /\ slaMoves \in 0..MaxTicketMoves
    /\ slaFaults \in 0..MaxMonitorFaults

MonitorInit ==
    /\ slaTicket \in [active : {TRUE}, assigned : BOOLEAN, sla : SlaStatus]
    /\ slaRun = [m \in Monitors |-> [pc |-> "new", seen |-> slaTicket]]
    /\ slaBreached = 0
    /\ slaNotices = [t \in NoticeTypes |-> 0]
    /\ slaOverlaps = {}
    /\ slaMoves = 0
    /\ slaFaults = 0

-----------------------------------------------------------------------------
(* The ticket *)

TimePasses ==
    /\ slaTicket.sla # "BREACHED"
    /\ slaTicket' = [slaTicket EXCEPT !.sla = IF @ = "ON_TIME" THEN "WARNING" ELSE "BREACHED"]
    /\ UNCHANGED <<slaRun, slaBreached, slaNotices, slaOverlaps, slaMoves, slaFaults>>

\* Somebody assigns the ticket, resolves it or reopens it.
TicketMoves ==
    /\ slaMoves < MaxTicketMoves
    /\ slaMoves' = slaMoves + 1
    /\ \/ slaTicket' = [slaTicket EXCEPT !.active = ~@]
       \/ ~slaTicket.assigned /\ slaTicket' = [slaTicket EXCEPT !.assigned = TRUE]
    /\ UNCHANGED <<slaRun, slaBreached, slaNotices, slaOverlaps, slaFaults>>

-----------------------------------------------------------------------------
(* A run *)

MonitorRunning(m) == slaRun[m].pc \notin {"new", "done", "failed"}

GoesTo(m, pc) == slaRun' = [slaRun EXCEPT ![m].pc = pc]

\* findAll: the active tickets with a due date, and the time, once for the run.
SelectTickets(m) ==
    LET pc == CASE slaTicket.active /\ slaTicket.sla = "BREACHED" -> "history"
                [] slaTicket.active /\ slaTicket.sla = "WARNING" /\ slaTicket.assigned -> "look"
                [] OTHER -> "done"
        others == {n \in Monitors : MonitorRunning(n)}
    IN
    /\ slaRun[m].pc = "new"
    /\ slaRun' = [slaRun EXCEPT ![m] = [pc |-> pc, seen |-> slaTicket]]
    /\ slaOverlaps' = IF pc = "done" \/ others = {} THEN slaOverlaps
                      ELSE slaOverlaps \cup others \cup {m}
    /\ UNCHANGED <<slaTicket, slaBreached, slaNotices, slaMoves, slaFaults>>

\* createExpiredNotification and createWarningNotification tell nobody if the
\* ticket has no assignee.
AfterHistory(m) == IF slaRun[m].seen.assigned THEN "look" ELSE "done"

\* Faulty variant: the breach is recorded without looking for an older entry.
HasBreachEntryNever(m) ==
    /\ slaRun[m].pc = "history"
    /\ GoesTo(m, "record")
    /\ UNCHANGED <<slaTicket, slaBreached, slaNotices, slaOverlaps, slaMoves, slaFaults>>

\* hasEventByTicketId.
HasBreachEntry(m) ==
    /\ slaRun[m].pc = "history"
    /\ GoesTo(m, IF slaBreached > 0 THEN AfterHistory(m) ELSE "record")
    /\ UNCHANGED <<slaTicket, slaBreached, slaNotices, slaOverlaps, slaMoves, slaFaults>>

RecordBreach(m) ==
    /\ slaRun[m].pc = "record"
    /\ slaBreached' = slaBreached + 1
    /\ GoesTo(m, AfterHistory(m))
    /\ UNCHANGED <<slaTicket, slaNotices, slaOverlaps, slaMoves, slaFaults>>

NoticeType(m) == IF slaRun[m].seen.sla = "BREACHED" THEN "SLA_EXPIRED" ELSE "SLA_WARNING"

\* hasExistingNotification.
HasNotification(m) ==
    /\ slaRun[m].pc = "look"
    /\ GoesTo(m, IF slaNotices[NoticeType(m)] > 0 THEN "done" ELSE "publish")
    /\ UNCHANGED <<slaTicket, slaBreached, slaNotices, slaOverlaps, slaMoves, slaFaults>>

\* The bus has called the notification handler when publish returns.
PublishSla(m) ==
    /\ slaRun[m].pc = "publish"
    /\ slaNotices' = [slaNotices EXCEPT ![NoticeType(m)] = @ + 1]
    /\ GoesTo(m, "done")
    /\ UNCHANGED <<slaTicket, slaBreached, slaOverlaps, slaMoves, slaFaults>>

MonitorFault == slaFaults < MaxMonitorFaults /\ slaFaults' = slaFaults + 1

\* An exception ends the run, with the tickets that it had not come to.
MonitorThrows(m) ==
    /\ MonitorFault
    /\ slaRun[m].pc \in {"history", "record", "look"}
    /\ GoesTo(m, "failed")
    /\ UNCHANGED <<slaTicket, slaBreached, slaNotices, slaOverlaps, slaMoves>>

\* The handler fails, the bus keeps it to itself, and the run counts a notification.
HandlerFails(m) ==
    /\ MonitorFault
    /\ slaRun[m].pc = "publish"
    /\ GoesTo(m, "done")
    /\ UNCHANGED <<slaTicket, slaBreached, slaNotices, slaOverlaps, slaMoves>>

MonitorNext ==
    \/ TimePasses
    \/ TicketMoves
    \/ \E m \in Monitors :
          SelectTickets(m) \/ HasBreachEntry(m) \/ RecordBreach(m) \/ HasNotification(m)
          \/ PublishSla(m) \/ MonitorThrows(m) \/ HandlerFails(m)

MonitorSpec == MonitorInit /\ [][MonitorNext]_slaVars

-----------------------------------------------------------------------------
(* Correctness *)

AtMostOneUnless(count, repeats) == count <= 1 \/ count <= repeats

\* A breach is recorded once and each notification is created once, except by
\* runs that overlapped; nobody is notified of a breach the history does not
\* have; and a run that has seen a breach through has left an entry of it.
BreachToldOnce ==
    /\ AtMostOneUnless(slaBreached, Cardinality(slaOverlaps))
    /\ \A t \in NoticeTypes : AtMostOneUnless(slaNotices[t], Cardinality(slaOverlaps))
    /\ slaNotices["SLA_EXPIRED"] > 0 => slaBreached > 0
    /\ \A m \in Monitors : slaRun[m].pc = "done" /\ slaRun[m].seen.active
                              /\ slaRun[m].seen.sla = "BREACHED" => slaBreached > 0
=================================================================================
