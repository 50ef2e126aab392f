---------------------------- MODULE TicketPriority ----------------------------
(***************************************************************************)
(* The priority of one ticket: recalculated from its text and its category *)
(* by requests that read the row, calculate, and update it by id, and set  *)
(* by the automation in the same two statements, the row and the entry.    *)
(***************************************************************************)
EXTENDS Integers, Sequences, FiniteSets, FiniteSetsExt

CONSTANTS
    PriorityRequests,   \* requests that change the priority
    MaxPriorityFaults   \* bound: statements that fail

ASSUME PriorityAssumption == IsFiniteSet(PriorityRequests) /\ MaxPriorityFaults \in Nat

\* LOW, MEDIUM, HIGH and URGENT.
Level == 1..4

\* What the text says by its keywords, and what the category's name says.
TextLevels == {1, 2, 3, 4}
CategoryLevels == {1, 2, 3}

VARIABLES
    prioRow,         \* the ticket's priority
    prioText,        \* the level its title and description suggest
    prioEntries,     \* PRIORITY_CHANGED entries of the history
    prioRequest,     \* every request: what it does and where it stands
    prioOverlapped,  \* requests that ran while another one did
    prioFaults       \* faults so far

prioVars == <<prioRow, prioText, prioEntries, prioRequest, prioOverlapped, prioFaults>>

PriorityEntry == [by : PriorityRequests, old : Level, new : Level]

PriorityTypeOK ==
    /\ prioRow \in Level
    /\ prioText \in TextLevels
    /\ prioEntries \in Seq(PriorityEntry)
    /\ prioRequest \in [PriorityRequests ->
          [kind : {"recalculate", "force", "automation"},
           pc : {"new", "calculate", "write", "history", "done", "failed"},
           seen : Level, value : Level]]
    /\ prioOverlapped \subseteq PriorityRequests
    /\ prioFaults \in 0..MaxPriorityFaults

PriorityInit ==
    /\ prioRow \in {1, 3}
    /\ prioText \in TextLevels
    /\ prioEntries = <<>>
    /\ prioRequest \in [PriorityRequests -> [kind : {"recalculate", "force", "automation"},
                                             pc : {"new"}, seen : {1}, value : {1}]]
    /\ prioOverlapped = {}
    /\ prioFaults = 0

-----------------------------------------------------------------------------
(* The calculation *)

\* Each source raises the priority and none lowers it.  manuallySet has no
\* effect: the suggestion is never below the current priority.
Suggested(current, category) == Max({current, prioText, category})

-----------------------------------------------------------------------------
(* Requests *)

PriorityBusy == {r \in PriorityRequests : prioRequest[r].pc \in {"calculate", "write", "history"}}

\* The ticket as the request, or the automation's job, reads it.
ReadTicket(r) ==
    /\ prioRequest[r].pc = "new"
    /\ prioRequest' = [prioRequest EXCEPT ![r].pc = "calculate", ![r].seen = prioRow]
    /\ prioOverlapped' = IF PriorityBusy = {} THEN prioOverlapped
                         ELSE prioOverlapped \cup PriorityBusy \cup {r}
    /\ UNCHANGED <<prioRow, prioText, prioEntries, prioFaults>>

\* With force there is no current priority: the calculation begins with LOW, and
\* whatever it suggests counts as a change.
CalculatePriority(r) ==
    LET request == prioRequest[r] IN
    /\ request.pc = "calculate"
    /\ request.kind # "automation"
    /\ \E category \in CategoryLevels :
          LET value == Suggested(IF request.kind = "force" THEN 1 ELSE request.seen, category) IN
          prioRequest' = [prioRequest EXCEPT ![r].value = value,
              ![r].pc = IF request.kind = "recalculate" /\ value = request.seen THEN "done" ELSE "write"]
    /\ UNCHANGED <<prioRow, prioText, prioEntries, prioOverlapped, prioFaults>>

\* CHANGE_PRIORITY: the rule's value, unless the ticket has it.
AutomationPriority(r) ==
    LET request == prioRequest[r] IN
    /\ request.pc = "calculate"
    /\ request.kind = "automation"
    /\ \E value \in Level :
          prioRequest' = [prioRequest EXCEPT ![r].value = value,
                              ![r].pc = IF value = request.seen THEN "done" ELSE "write"]
    /\ UNCHANGED <<prioRow, prioText, prioEntries, prioOverlapped, prioFaults>>

\* By id alone.
UpdatePriority(r) ==
    /\ prioRequest[r].pc = "write"
    /\ prioRow' = prioRequest[r].value
    /\ prioRequest' = [prioRequest EXCEPT ![r].pc = "history"]
    /\ UNCHANGED <<prioText, prioEntries, prioOverlapped, prioFaults>>

RecordPriority(r) ==
    /\ prioRequest[r].pc = "history"
    /\ prioEntries' = Append(prioEntries, [by |-> r, old |-> prioRequest[r].seen,
                                           new |-> prioRequest[r].value])
    /\ prioRequest' = [prioRequest EXCEPT ![r].pc = "done"]
    /\ UNCHANGED <<prioRow, prioText, prioOverlapped, prioFaults>>

PriorityRequestFails(r) ==
    /\ prioFaults < MaxPriorityFaults
    /\ prioFaults' = prioFaults + 1
    /\ r \in PriorityBusy
    /\ prioRequest' = [prioRequest EXCEPT ![r].pc = "failed"]
    /\ UNCHANGED <<prioRow, prioText, prioEntries, prioOverlapped>>

PriorityNext ==
    \E r \in PriorityRequests :
        ReadTicket(r) \/ CalculatePriority(r) \/ AutomationPriority(r) \/ UpdatePriority(r)
        \/ RecordPriority(r) \/ PriorityRequestFails(r)

PrioritySpec == PriorityInit /\ [][PriorityNext]_prioVars

-----------------------------------------------------------------------------
(* Correctness *)

Breaks == {i \in 2..Len(prioEntries) : prioEntries[i].old # prioEntries[i - 1].new}

\* A recalculation that is not forced only ever raises the priority it has read.
\* The entries continue each other and end with the row's value, unless requests
\* overlapped or one failed between the row and its entry.
PriorityExplained ==
    /\ \A i \in DOMAIN prioEntries :
          LET entry == prioEntries[i] IN
          CASE prioRequest[entry.by].kind = "recalculate" -> entry.old < entry.new
            [] prioRequest[entry.by].kind = "force" -> entry.new >= prioText
            [] OTHER -> entry.old # entry.new
    /\ \A i \in Breaks : \/ {prioEntries[i].by, prioEntries[i - 1].by} \cap prioOverlapped # {}
                         \/ prioFaults > 0
    /\ PriorityBusy = {} /\ prioOverlapped = {} /\ prioFaults = 0 /\ prioEntries # <<>>
          => prioRow = prioEntries[Len(prioEntries)].new
===============================================================================
