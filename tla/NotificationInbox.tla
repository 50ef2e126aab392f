--------------------------- MODULE NotificationInbox ---------------------------
(***************************************************************************)
(* The in-app notifications: created by the event handlers, read by their  *)
(* recipients, one by one (a look-up and then an update) or all at once.   *)
(***************************************************************************)
EXTENDS Integers, FiniteSets

CONSTANTS
    Notices,  \* notifications
    Users,    \* users of one tenant
    NoUser,   \* no user
    Readers   \* requests that mark one notification as read

ASSUME InboxAssumption == IsFiniteSet(Notices) /\ NoUser \notin Users

VARIABLES
    inboxRow,     \* the notifications table; "times" counts the writes of readAt
    inboxReader,  \* what every request is about, and where it stands
    inboxCounted, \* sum of the counts that mark-all requests have returned
    inboxWritten  \* rows that mark-one requests have updated

inboxVars == <<inboxRow, inboxReader, inboxCounted, inboxWritten>>

NoticeRow == [recipient : Users \cup {NoUser}, times : 0..2, by : Users \cup {NoUser}]

NoticeReader == [pc : {"new", "find", "update", "done", "not-found"},
                 notice : Notices, user : Users]

InboxTypeOK ==
    /\ inboxRow \in [Notices -> NoticeRow]
    /\ inboxReader \in [Readers -> NoticeReader]
    /\ inboxCounted \in 0..Cardinality(Notices)
    /\ inboxWritten \in 0..Cardinality(Notices)

InboxInit ==
    /\ inboxRow = [n \in Notices |-> [recipient |-> NoUser, times |-> 0, by |-> NoUser]]
    /\ inboxReader \in [Readers -> [pc : {"new"}, notice : Notices, user : Users]]
    /\ inboxCounted = 0
    /\ inboxWritten = 0

-----------------------------------------------------------------------------
(* Operations *)

NoticesOf(user) == {n \in Notices : inboxRow[n].recipient = user}

UnreadOf(user) == {n \in NoticesOf(user) : inboxRow[n].times = 0}

CreateNotification(n, user) ==
    /\ inboxRow[n].recipient = NoUser
    /\ inboxRow' = [inboxRow EXCEPT ![n].recipient = user]
    /\ UNCHANGED <<inboxReader, inboxCounted, inboxWritten>>

ReadBy(user, S) ==
    inboxRow' = [n \in Notices |-> IF n \in S THEN [inboxRow[n] EXCEPT !.times = @ + 1, !.by = user]
                                   ELSE inboxRow[n]]

MarkAllAsRead(user) ==
    /\ UnreadOf(user) # {}
    /\ ReadBy(user, UnreadOf(user))
    /\ inboxCounted' = inboxCounted + Cardinality(UnreadOf(user))
    /\ UNCHANGED <<inboxReader, inboxWritten>>

\* findById looks for the recipient's own; one that was read needs no update.
FindNotification(r) ==
    LET notice == inboxReader[r].notice
        user == inboxReader[r].user
    IN
    /\ inboxReader[r].pc = "new"
    /\ inboxReader' = [inboxReader EXCEPT ![r].pc =
           IF notice \notin NoticesOf(user) THEN "not-found"
           ELSE IF notice \in UnreadOf(user) THEN "update" ELSE "done"]
    /\ UNCHANGED <<inboxRow, inboxCounted, inboxWritten>>

\* Faulty variant: the update does not ask whether the row is still unread.
UpdateReadAtAgain(r) ==
    LET mine == {inboxReader[r].notice} \cap NoticesOf(inboxReader[r].user) IN
    /\ inboxReader[r].pc = "update"
    /\ ReadBy(inboxReader[r].user, mine)
    /\ inboxWritten' = inboxWritten + Cardinality(mine)
    /\ inboxReader' = [inboxReader EXCEPT ![r].pc = "done"]
    /\ UNCHANGED inboxCounted

\* updateMany: the row is updated only if it is unread by then.
UpdateReadAt(r) ==
    LET mine == {inboxReader[r].notice} \cap UnreadOf(inboxReader[r].user) IN
    /\ inboxReader[r].pc = "update"
    /\ ReadBy(inboxReader[r].user, mine)
    /\ inboxWritten' = inboxWritten + Cardinality(mine)
    /\ inboxReader' = [inboxReader EXCEPT ![r].pc = "done"]
    /\ UNCHANGED inboxCounted

InboxNext ==
    \/ \E n \in Notices, u \in Users : CreateNotification(n, u)
    \/ \E u \in Users : MarkAllAsRead(u)
    \/ \E r \in Readers : FindNotification(r) \/ UpdateReadAt(r)

InboxSpec == InboxInit /\ [][InboxNext]_inboxVars

-----------------------------------------------------------------------------
(* Correctness *)

\* However the two ways of reading overlap, a notification gets its readAt once,
\* from its recipient, and each reading is counted by exactly one request.
ReadOnce ==
    /\ \A n \in Notices : inboxRow[n].times <= 1
    /\ \A n \in Notices : inboxRow[n].by \in {NoUser, inboxRow[n].recipient}
    /\ inboxCounted + inboxWritten = Cardinality({n \in Notices : inboxRow[n].times > 0})
================================================================================
