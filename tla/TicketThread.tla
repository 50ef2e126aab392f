----------------------------- MODULE TicketThread -----------------------------
(***************************************************************************)
(* What is attached to one ticket: files, each with a row that names it,   *)
(* and comments.  An upload writes the file before the row and a deletion  *)
(* deletes the row before the file; the history entry and the notification *)
(* of the assignee come last.  No two of these steps are one transaction.  *)
(***************************************************************************)
EXTENDS Integers, Sequences, FiniteSets, FiniteSetsExt

CONSTANTS
    Uploads,        \* requests that upload a file, each to a name of its own
    Deletions,      \* requests that delete an attachment
    Comments,       \* requests that write a comment
    MaxThreadFaults \* bound: steps that fail, and processes that die

\* A request is one of the three.
ASSUME ThreadAssumption ==
    /\ IsFiniteSet(Uploads \cup Deletions \cup Comments)
    /\ Uploads \cap Deletions = {} /\ Uploads \cap Comments = {} /\ Deletions \cap Comments = {}
    /\ MaxThreadFaults \in Nat

VARIABLES
    threadFiles,    \* files in the upload directory
    threadRows,     \* rows of ticket_attachments
    threadComments, \* rows of ticket_comments
    threadAdded,    \* ATTACHMENT_ADDED and COMMENT_ADDED entries, by request
    threadRemoved,  \* ATTACHMENT_REMOVED entries, by request
    threadTold,     \* requests whose notification was created
    threadRun,      \* where every request stands
    threadFaults    \* faults so far

threadVars == <<threadFiles, threadRows, threadComments, threadAdded, threadRemoved,
                threadTold, threadRun, threadFaults>>

ThreadRequests == Uploads \cup Deletions \cup Comments

\* An author: the role, the visibility asked for ("none" if it is left out) and
\* whether the assignee writes.
ThreadAuthor == [role : {"CUSTOMER", "STAFF"}, asked : {"PUBLIC", "INTERNAL", "none"},
                 assignee : BOOLEAN]

\* A deletion's target is an upload's file; the others are their own.
ThreadRun == [author : ThreadAuthor, target : ThreadRequests, left : Seq({"file", "row", "history", "notify"}),
              pc : {"new", "busy", "done", "refused", "failed"}]

ThreadTypeOK ==
    /\ threadFiles \subseteq Uploads /\ threadRows \subseteq Uploads
    /\ threadComments \in [Comments -> {"none", "PUBLIC", "INTERNAL"}]
    /\ threadAdded \subseteq ThreadRequests /\ threadRemoved \subseteq Deletions
    /\ threadTold \subseteq ThreadRequests
    /\ threadRun \in [ThreadRequests -> ThreadRun]
    /\ threadFaults \in 0..MaxThreadFaults

StaffAuthor == [role |-> "STAFF", asked |-> "none", assignee |-> FALSE]

ThreadInit ==
    /\ threadFiles = {} /\ threadRows = {}
    /\ threadComments = [c \in Comments |-> "none"]
    /\ threadAdded = {} /\ threadRemoved = {} /\ threadTold = {}
    /\ \E author \in [Comments -> ThreadAuthor], target \in [Deletions -> Uploads] :
          /\ \A c \in Comments : author[c].role = "CUSTOMER" => ~author[c].assignee
          /\ threadRun = [r \in ThreadRequests |->
                 [author |-> IF r \in Comments THEN author[r] ELSE StaffAuthor,
                  target |-> IF r \in Deletions THEN target[r] ELSE r,
                  left |-> <<>>, pc |-> "new"]]
    /\ threadFaults = 0

-----------------------------------------------------------------------------
(* Requests *)

ThreadNew(r) == threadRun[r].pc = "new"

BeginThread(r, left) == threadRun' = [threadRun EXCEPT ![r].pc = "busy", ![r].left = left]

\* assertAllowedFileContent may refuse the file.
BeginUpload(u) ==
    /\ ThreadNew(u)
    /\ \/ BeginThread(u, <<"file", "row", "history", "notify">>)
       \/ threadRun' = [threadRun EXCEPT ![u].pc = "refused"]
    /\ UNCHANGED <<threadFiles, threadRows, threadComments, threadAdded, threadRemoved,
                   threadTold, threadFaults>>

\* Faulty variant: the file goes before the row.
BeginDeletionOfFile(d) ==
    /\ ThreadNew(d)
    /\ IF threadRun[d].target \in threadRows THEN BeginThread(d, <<"file", "row", "history">>)
       ELSE threadRun' = [threadRun EXCEPT ![d].pc = "refused"]
    /\ UNCHANGED <<threadFiles, threadRows, threadComments, threadAdded, threadRemoved,
                   threadTold, threadFaults>>

\* The look-up of the row; a deletion that comes later finds nothing.
BeginDeletion(d) ==
    /\ ThreadNew(d)
    /\ IF threadRun[d].target \in threadRows THEN BeginThread(d, <<"row", "file", "history">>)
       ELSE threadRun' = [threadRun EXCEPT ![d].pc = "refused"]
    /\ UNCHANGED <<threadFiles, threadRows, threadComments, threadAdded, threadRemoved,
                   threadTold, threadFaults>>

ResolveVisibility(author) ==
    IF author.role = "CUSTOMER" THEN "PUBLIC"
    ELSE IF author.asked = "none" THEN "INTERNAL" ELSE author.asked

\* Only staff is a user that the history can name.
BeginComment(c) ==
    LET author == threadRun[c].author IN
    /\ ThreadNew(c)
    /\ IF author.role = "CUSTOMER" /\ author.asked = "INTERNAL"
       THEN threadRun' = [threadRun EXCEPT ![c].pc = "refused"]
       ELSE BeginThread(c, IF author.role = "STAFF" THEN <<"row", "history", "notify">>
                                                    ELSE <<"row", "notify">>)
    /\ UNCHANGED <<threadFiles, threadRows, threadComments, threadAdded, threadRemoved,
                   threadTold, threadFaults>>

Does(r, step) ==
    /\ threadRun[r].left # <<>>
    /\ Head(threadRun[r].left) = step
    /\ threadRun' = [threadRun EXCEPT ![r].left = Tail(@),
                                      ![r].pc = IF Tail(threadRun[r].left) = <<>> THEN "done" ELSE @]

\* save, or delete, which keeps an error to itself.
FileStep(r) ==
    /\ Does(r, "file")
    /\ threadFiles' = IF r \in Uploads THEN threadFiles \cup {r}
                      ELSE threadFiles \ {threadRun[r].target}
    /\ UNCHANGED <<threadRows, threadComments, threadAdded, threadRemoved, threadTold, threadFaults>>

\* A deletion is of any number of rows, and none is as good as one.
RowStep(r) ==
    /\ Does(r, "row")
    /\ threadRows' = CASE r \in Uploads -> threadRows \cup {r}
                       [] r \in Deletions -> threadRows \ {threadRun[r].target}
                       [] OTHER -> threadRows
    /\ threadComments' = IF r \in Comments
                         THEN [threadComments EXCEPT ![r] = ResolveVisibility(threadRun[r].author)]
                         ELSE threadComments
    /\ UNCHANGED <<threadFiles, threadAdded, threadRemoved, threadTold, threadFaults>>

HistoryStep(r) ==
    /\ Does(r, "history")
    /\ threadAdded' = IF r \in Deletions THEN threadAdded ELSE threadAdded \cup {r}
    /\ threadRemoved' = IF r \in Deletions THEN threadRemoved \cup {r} ELSE threadRemoved
    /\ UNCHANGED <<threadFiles, threadRows, threadComments, threadTold, threadFaults>>

\* Nobody is notified of what they wrote.
NotifyStep(r) ==
    /\ Does(r, "notify")
    /\ threadTold' = IF threadRun[r].author.assignee THEN threadTold ELSE threadTold \cup {r}
    /\ UNCHANGED <<threadFiles, threadRows, threadComments, threadAdded, threadRemoved, threadFaults>>

ThreadFault == threadFaults < MaxThreadFaults /\ threadFaults' = threadFaults + 1

\* An exception, or the death of the process: the request ends where it stands.
ThreadFails(r) ==
    /\ ThreadFault
    /\ threadRun[r].pc = "busy"
    /\ ~(r \in Deletions /\ Head(threadRun[r].left) = "file")
    /\ threadRun' = [threadRun EXCEPT ![r].pc = "failed", ![r].left = <<>>]
    /\ UNCHANGED <<threadFiles, threadRows, threadComments, threadAdded, threadRemoved, threadTold>>

\* unlink fails and the deletion goes on, or the process dies before it.
UnlinkFails(d) ==
    /\ ThreadFault
    /\ threadRun[d].left # <<>> /\ Head(threadRun[d].left) = "file"
    /\ \/ Does(d, "file")
       \/ threadRun' = [threadRun EXCEPT ![d].pc = "failed", ![d].left = <<>>]
    /\ UNCHANGED <<threadFiles, threadRows, threadComments, threadAdded, threadRemoved, threadTold>>

ThreadNext ==
    \/ \E u \in Uploads : BeginUpload(u)
    \/ \E d \in Deletions : BeginDeletion(d) \/ UnlinkFails(d)
    \/ \E c \in Comments : BeginComment(c)
    \/ \E r \in ThreadRequests :
          FileStep(r) \/ RowStep(r) \/ HistoryStep(r) \/ NotifyStep(r) \/ ThreadFails(r)

ThreadSpec == ThreadInit /\ [][ThreadNext]_threadVars

-----------------------------------------------------------------------------
(* Correctness *)

\* getComments: what the ticket's customer is shown.
CommentsFor(role) ==
    {c \in Comments : threadComments[c] # "none" /\ (role = "CUSTOMER" => threadComments[c] = "PUBLIC")}

Busy(S) == {r \in S : threadRun[r].pc = "busy"}

\* At any time and after any failure or overlap, a row names a file that is
\* there; a file without a row, a row without its entry, and a deletion
\* without one, are on their way or were cost by a fault each.
ThreadKept ==
    /\ threadRows \subseteq threadFiles
    /\ LET orphans == {u \in threadFiles \ threadRows :
                         \A r \in Busy(Uploads \cup Deletions) : threadRun[r].target # u}
           untold == (threadRows \ threadAdded) \ Busy(Uploads)
           silent == {u \in Uploads : u \notin threadFiles /\ u \in threadAdded
                         /\ \A d \in Deletions : threadRun[d].target = u =>
                               d \notin threadRemoved \cup Busy(Deletions)}
       IN  Cardinality(orphans) + Cardinality(untold) + Cardinality(silent) <= threadFaults
    /\ \A u \in Uploads : Cardinality({d \in threadRemoved : threadRun[d].target = u}) > 0
          => u \notin threadRows

\* A customer neither writes an internal comment nor reads one; the history tells
\* every comment of the staff and no other, faults aside; and what the staff
\* wrote is in the history before the assignee hears of it.
CommentsKept ==
    /\ \A c \in CommentsFor("CUSTOMER") :
          threadRun[c].author.role = "STAFF" => threadRun[c].author.asked = "PUBLIC"
    /\ \A c \in Comments : threadComments[c] = "INTERNAL" => threadRun[c].author.role = "STAFF"
    /\ \A c \in Comments \cap threadAdded : threadRun[c].author.role = "STAFF"
    /\ Cardinality({c \in CommentsFor("STAFF") : threadRun[c].author.role = "STAFF"}
                      \ (threadAdded \cup Busy(Comments))) <= threadFaults
    /\ \A r \in threadTold : threadRun[r].author.role = "STAFF" => r \in threadAdded

\* Attachments and comments together.
ThreadAccounted == ThreadKept /\ CommentsKept
===============================================================================
