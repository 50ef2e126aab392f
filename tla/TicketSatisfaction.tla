--------------------------- MODULE TicketSatisfaction ---------------------------
(***************************************************************************)
(* The satisfaction survey of one ticket: several submissions of it, each  *)
(* of which validates what it has read and then writes the survey, the     *)
(* history entry and the event, one after the other.                       *)
(***************************************************************************)
EXTENDS Integers, FiniteSets

CONSTANTS
    Submissions,    \* requests that submit a survey
    MaxCsatMoves,   \* bound: changes of the ticket's status by others
    MaxCsatFaults   \* bound: statements that fail

ASSUME SatisfactionAssumption ==
    IsFiniteSet(Submissions) /\ MaxCsatMoves \in Nat /\ MaxCsatFaults \in Nat

VARIABLES
    csatDone,     \* whether the ticket is resolved or closed
    csatSurveys,  \* the ticket's rows of the surveys table, by submission
    csatEntries,  \* the submissions that the history tells
    csatEvents,   \* the submissions whose event was published
    csatRun,      \* every submission: who makes it and where it stands
    csatMoves,    \* changes of the status so far
    csatFaults    \* faults so far

csatVars == <<csatDone, csatSurveys, csatEntries, csatEvents, csatRun, csatMoves, csatFaults>>

SatisfactionTypeOK ==
    /\ csatDone \in BOOLEAN
    /\ csatSurveys \subseteq Submissions
    /\ csatEntries \subseteq Submissions
    /\ csatEvents \subseteq Submissions
    /\ csatRun \in [Submissions ->
          [by : {"customer", "other"},
           pc : {"new", "look", "create", "history", "publish", "accepted", "refused", "failed"}]]
    /\ csatMoves \in 0..MaxCsatMoves
    /\ csatFaults \in 0..MaxCsatFaults

SatisfactionInit ==
    /\ csatDone \in BOOLEAN
    /\ csatSurveys = {} /\ csatEntries = {} /\ csatEvents = {}
    /\ csatRun \in [Submissions -> [by : {"customer", "other"}, pc : {"new"}]]
    /\ csatMoves = 0
    /\ csatFaults = 0

-----------------------------------------------------------------------------
(* Operations *)

\* The ticket is resolved, or reopened.
CsatTicketMoves ==
    /\ csatMoves < MaxCsatMoves
    /\ csatMoves' = csatMoves + 1
    /\ csatDone' = ~csatDone
    /\ UNCHANGED <<csatSurveys, csatEntries, csatEvents, csatRun, csatFaults>>

StandsAt(s, pc) == csatRun[s].pc = pc

MovesTo(s, pc) == csatRun' = [csatRun EXCEPT ![s].pc = pc]

\* assertCanSubmitTicketSatisfaction, of the ticket as it is read.
ValidateSubmission(s) ==
    /\ StandsAt(s, "new")
    /\ MovesTo(s, IF csatRun[s].by = "customer" /\ csatDone THEN "look" ELSE "refused")
    /\ UNCHANGED <<csatDone, csatSurveys, csatEntries, csatEvents, csatMoves, csatFaults>>

\* findByTicketId and assertTicketHasNoSatisfactionSurvey.
FindSurvey(s) ==
    /\ StandsAt(s, "look")
    /\ MovesTo(s, IF csatSurveys = {} THEN "create" ELSE "refused")
    /\ UNCHANGED <<csatDone, csatSurveys, csatEntries, csatEvents, csatMoves, csatFaults>>

\* Faulty variant: the table does not say that a ticket has one survey.
CreateAnotherSurvey(s) ==
    /\ StandsAt(s, "create")
    /\ csatSurveys' = csatSurveys \cup {s}
    /\ MovesTo(s, "history")
    /\ UNCHANGED <<csatDone, csatEntries, csatEvents, csatMoves, csatFaults>>

\* ticketId is unique: the second of two inserts fails.
CreateSurvey(s) ==
    /\ StandsAt(s, "create")
    /\ IF csatSurveys = {}
       THEN csatSurveys' = {s} /\ MovesTo(s, "history")
       ELSE UNCHANGED csatSurveys /\ MovesTo(s, "refused")
    /\ UNCHANGED <<csatDone, csatEntries, csatEvents, csatMoves, csatFaults>>

RecordSubmission(s) ==
    /\ StandsAt(s, "history")
    /\ csatEntries' = csatEntries \cup {s}
    /\ MovesTo(s, "publish")
    /\ UNCHANGED <<csatDone, csatSurveys, csatEvents, csatMoves, csatFaults>>

\* publish never throws.
PublishCsat(s) ==
    /\ StandsAt(s, "publish")
    /\ csatEvents' = csatEvents \cup {s}
    /\ MovesTo(s, "accepted")
    /\ UNCHANGED <<csatDone, csatSurveys, csatEntries, csatMoves, csatFaults>>

\* A statement fails, or the process dies before it.
SubmissionFails(s) ==
    /\ csatFaults < MaxCsatFaults
    /\ csatFaults' = csatFaults + 1
    /\ csatRun[s].pc \in {"look", "create", "history", "publish"}
    /\ MovesTo(s, "failed")
    /\ UNCHANGED <<csatDone, csatSurveys, csatEntries, csatEvents, csatMoves>>

SatisfactionNext ==
    \/ CsatTicketMoves
    \/ \E s \in Submissions :
          ValidateSubmission(s) \/ FindSurvey(s) \/ CreateSurvey(s) \/ RecordSubmission(s)
          \/ PublishCsat(s) \/ SubmissionFails(s)

SatisfactionSpec == SatisfactionInit /\ [][SatisfactionNext]_csatVars

-----------------------------------------------------------------------------
(* Correctness *)

InFlight == {s \in Submissions : csatRun[s].pc \in {"history", "publish"}}

\* A ticket gets one survey at most, from a submission that was not told of a
\* refusal; history and event follow it in this order; what is missing of them
\* is still to come or was cost by a fault, and an accepted submission has all.
SurveyIsTold ==
    /\ Cardinality(csatSurveys) <= 1
    /\ csatEvents \subseteq csatEntries /\ csatEntries \subseteq csatSurveys
    /\ \A s \in csatSurveys : csatRun[s].by = "customer" /\ csatRun[s].pc # "refused"
    /\ Cardinality(csatSurveys \ (csatEvents \cup InFlight)) <= csatFaults
    /\ \A s \in Submissions : StandsAt(s, "accepted") => s \in csatEvents
=================================================================================
