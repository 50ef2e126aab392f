----------------------------- MODULE UserSessions -----------------------------
(***************************************************************************)
(* One user: the account with its counter of failed logins and its lock,   *)
(* and the refresh tokens of its sessions.  Every statement commits by     *)
(* itself; a login writes the account from the row that it read at its     *)
(* beginning, and a refresh looks at a token before it revokes it.         *)
(***************************************************************************)
EXTENDS Integers, FiniteSets

CONSTANTS
    SessionRequests,   \* requests; one that issues a token issues the token of its name
    FirstToken,        \* the token of a session that was begun before
    MaxFailedLogins,      \* LOGIN_MAX_FAILED_ATTEMPTS
    LockTicks,         \* LOGIN_LOCK_DURATION_MS
    TokenTicks,        \* JWT_REFRESH_EXPIRES_IN
    MaxSessionTime,    \* bound: the time that is looked at
    MaxSessionFaults   \* bound: statements that fail

ASSUME SessionAssumption ==
    /\ IsFiniteSet(SessionRequests) /\ FirstToken \notin SessionRequests
    /\ MaxFailedLogins \in Nat \ {0} /\ LockTicks \in Nat \ {0} /\ TokenTicks \in Nat \ {0}
    /\ MaxSessionTime \in Nat \ {0} /\ MaxSessionFaults \in Nat

VARIABLES
    accRow,      \* the user's row: attempts and lockedUntil, 0 for null
    accToken,    \* the refresh tokens
    accRequest,  \* what every request is, where it stands, the row it has read
    accOwed,     \* audit records to be written, by request
    accTold,     \* audit records
    accNow,
    accFaults,
    accIdeal,    \* the row as logins that do not overlap would have left it
    accBlind,    \* logins that wrote the row after others had since they read it
    accLifted,   \* logins that took away a lock before its time
    accOverlaps  \* refreshes of one token that had both found it usable

accVars == <<accRow, accToken, accRequest, accOwed, accTold, accNow, accFaults,
             accIdeal, accBlind, accLifted, accOverlaps>>

accGhosts == <<accIdeal, accBlind, accLifted>>

Tokens == SessionRequests \cup {FirstToken}

\* A user that is not there yet has no attempts left to count.
NoAccount == [attempts |-> 0 - 1, lock |-> 0]

Account == [attempts : 0..MaxFailedLogins - 1, lock : 0..MaxSessionTime + LockTicks]

Clear == [attempts |-> 0, lock |-> 0]

SessionRequest ==
    [kind : {"login", "refresh", "logout", "register"},
     pc : {"new", "clear", "locked", "verify", "record", "tell", "reset", "revoke", "user",
           "insert", "issue", "done", "refused", "failed"},
     token : Tokens, seen : Account \cup {NoAccount}, stale : BOOLEAN]

SessionTypeOK ==
    /\ accRow \in Account \cup {NoAccount}
    /\ accIdeal \in Account \cup {NoAccount}
    /\ accToken \in [Tokens -> [state : {"unused", "live", "revoked"},
                                until : 0..MaxSessionTime + TokenTicks]]
    /\ accRequest \in [SessionRequests -> SessionRequest]
    /\ accOwed \subseteq SessionRequests /\ accTold \subseteq SessionRequests
    /\ accNow \in 1..MaxSessionTime /\ accFaults \in 0..MaxSessionFaults
    /\ accBlind \subseteq SessionRequests /\ accLifted \subseteq SessionRequests
    /\ accOverlaps \subseteq SUBSET SessionRequests

SessionInit ==
    /\ accRow \in {NoAccount} \cup {row \in Account : row.lock \in {0, 2} /\ (row.lock > 0 => row.attempts = 0)}
    /\ accToken = [t \in Tokens |->
           IF t = FirstToken /\ accRow # NoAccount THEN [state |-> "live", until |-> 1 + TokenTicks]
           ELSE [state |-> "unused", until |-> 0]]
    /\ accRequest \in [SessionRequests ->
           [kind : {"login", "refresh", "logout", "register"}, pc : {"new"}, token : {FirstToken},
            seen : {NoAccount}, stale : {FALSE}]]
    /\ accOwed = {} /\ accTold = {} /\ accNow = 1 /\ accFaults = 0
    /\ accIdeal = accRow /\ accBlind = {} /\ accLifted = {} /\ accOverlaps = {}

-----------------------------------------------------------------------------
(* Steps *)

SessionAt(q, pc) == accRequest[q].pc = pc

SessionGoes(q, pc) == accRequest' = [accRequest EXCEPT ![q].pc = pc]

IsLocked(row) == row.lock > accNow

Expired(row) == row.lock # 0 /\ row.lock <= accNow

\* findByEmail; a user that is not found is audited like a wrong password.
FindUser(q) ==
    /\ SessionAt(q, "new") /\ accRequest[q].kind = "login"
    /\ accRequest' = [accRequest EXCEPT ![q].seen = accRow,
                         ![q].pc = IF accRow = NoAccount THEN "refused" ELSE "clear"]
    /\ accOwed' = IF accRow = NoAccount THEN accOwed \cup {q} ELSE accOwed
    /\ UNCHANGED <<accRow, accToken, accTold, accNow, accFaults, accGhosts, accOverlaps>>

\* A login writes the account: whoever has read it before has read an older row.
Writes(q, row, ideal, pc, seen) ==
    /\ accRow' = row
    /\ accIdeal' = ideal
    /\ accBlind' = IF accRequest[q].stale THEN accBlind \cup {q} ELSE accBlind
    /\ accLifted' = IF IsLocked(accRow) /\ row.lock < accRow.lock THEN accLifted \cup {q} ELSE accLifted
    /\ accRequest' = [p \in SessionRequests |->
           IF p = q THEN [accRequest[q] EXCEPT !.pc = pc, !.seen = seen, !.stale = FALSE]
           ELSE IF accRequest[p].pc \in {"clear", "locked", "verify", "record", "reset"}
                THEN [accRequest[p] EXCEPT !.stale = TRUE]
                ELSE accRequest[p]]

\* clearExpiredLock, which answers with the row as it is updated ...
ClearExpiredLock(q) ==
    /\ SessionAt(q, "clear")
    /\ IF Expired(accRequest[q].seen)
       THEN Writes(q, Clear, IF Expired(accIdeal) THEN Clear ELSE accIdeal, "locked", Clear)
       ELSE SessionGoes(q, "locked") /\ UNCHANGED <<accRow, accGhosts>>
    /\ UNCHANGED <<accToken, accOwed, accTold, accNow, accFaults, accOverlaps>>

\* Faulty variant: a lock is looked at when it has run out only.
LockForgotten(q) ==
    /\ SessionAt(q, "locked")
    /\ IF Expired(accRequest[q].seen)
       THEN Writes(q, Clear, IF Expired(accIdeal) THEN Clear ELSE accIdeal, "verify", accRequest[q].seen)
       ELSE SessionGoes(q, "verify") /\ UNCHANGED <<accRow, accGhosts>>
    /\ UNCHANGED <<accToken, accOwed, accTold, accNow, accFaults, accOverlaps>>

\* ... and isAccountLocked, which clears a lock that has run out since and keeps the row it had.
IsAccountLocked(q) ==
    /\ SessionAt(q, "locked")
    /\ IF Expired(accRequest[q].seen)
       THEN Writes(q, Clear, IF Expired(accIdeal) THEN Clear ELSE accIdeal, "verify", accRequest[q].seen)
       ELSE /\ SessionGoes(q, IF IsLocked(accRequest[q].seen) THEN "tell" ELSE "verify")
            /\ UNCHANGED <<accRow, accGhosts>>
    /\ UNCHANGED <<accToken, accOwed, accTold, accNow, accFaults, accOverlaps>>

\* The password is right or wrong.
VerifyPassword(q) ==
    /\ SessionAt(q, "verify")
    /\ SessionGoes(q, "record") \/ SessionGoes(q, "reset")
    /\ UNCHANGED <<accRow, accToken, accOwed, accTold, accNow, accFaults, accGhosts, accOverlaps>>

\* What one more failed login makes of a row; the last one that is allowed locks it.
Failed(row) ==
    IF row.attempts + 1 >= MaxFailedLogins THEN [attempts |-> 0, lock |-> accNow + LockTicks]
    ELSE [attempts |-> row.attempts + 1, lock |-> 0]

\* recordFailedLogin counts from the row that was read; LOGIN_FAILED is recorded
\* meanwhile, and LOGIN_LOCKED before the answer.
RecordFailedLogin(q) ==
    LET row == Failed(accRequest[q].seen) IN
    /\ SessionAt(q, "record")
    /\ Writes(q, row, Failed(accIdeal), IF row.lock # 0 THEN "tell" ELSE "refused", accRequest[q].seen)
    /\ accOwed' = accOwed \cup {q}
    /\ UNCHANGED <<accToken, accTold, accNow, accFaults, accOverlaps>>

TellLocked(q) ==
    /\ SessionAt(q, "tell")
    /\ SessionGoes(q, "refused")
    /\ accTold' = accTold \cup {q}
    /\ UNCHANGED <<accRow, accToken, accOwed, accNow, accFaults, accGhosts, accOverlaps>>

RecordAudit(q) ==
    /\ q \in accOwed
    /\ accOwed' = accOwed \ {q}
    /\ accTold' = accTold \cup {q}
    /\ UNCHANGED <<accRow, accToken, accRequest, accNow, accFaults, accGhosts, accOverlaps>>

ResetAfterSuccessfulLogin(q) ==
    /\ SessionAt(q, "reset")
    /\ Writes(q, Clear, Clear, "issue", accRequest[q].seen)
    /\ UNCHANGED <<accToken, accOwed, accTold, accNow, accFaults, accOverlaps>>

Usable(t) == accToken[t].state = "live" /\ accToken[t].until > accNow

\* findByTokenHash and assertRefreshTokenIsUsable, for a refresh or a logout.
FindToken(q) ==
    /\ SessionAt(q, "new") /\ accRequest[q].kind \in {"refresh", "logout"}
    /\ \E t \in Tokens \ {q} :
           /\ accToken[t].state # "unused"
           /\ accRequest' = [accRequest EXCEPT ![q].token = t,
                                ![q].pc = IF Usable(t) THEN "revoke" ELSE "refused"]
           /\ accOverlaps' = accOverlaps \cup
                  {{p, q} : p \in {r \in SessionRequests : SessionAt(r, "revoke") /\ accRequest[r].token = t}}
    /\ UNCHANGED <<accRow, accToken, accOwed, accTold, accNow, accFaults, accGhosts>>

RevokeToken(q) ==
    /\ SessionAt(q, "revoke")
    /\ accToken' = [accToken EXCEPT ![accRequest[q].token].state = "revoked"]
    /\ SessionGoes(q, IF accRequest[q].kind = "logout" THEN "done" ELSE "user")
    /\ UNCHANGED <<accRow, accOwed, accTold, accNow, accFaults, accGhosts, accOverlaps>>

\* findById: no user is ever deleted.
FindTokensUser(q) ==
    /\ SessionAt(q, "user")
    /\ SessionGoes(q, "issue")
    /\ UNCHANGED <<accRow, accToken, accOwed, accTold, accNow, accFaults, accGhosts, accOverlaps>>

IssueTokenPair(q) ==
    /\ SessionAt(q, "issue")
    /\ accToken' = [accToken EXCEPT ![q] = [state |-> "live", until |-> accNow + TokenTicks]]
    /\ SessionGoes(q, "done")
    /\ UNCHANGED <<accRow, accOwed, accTold, accNow, accFaults, accGhosts, accOverlaps>>

\* UsersService.create: findByEmail ...
CheckEmail(q) ==
    /\ SessionAt(q, "new") /\ accRequest[q].kind = "register"
    /\ SessionGoes(q, IF accRow = NoAccount THEN "insert" ELSE "refused")
    /\ UNCHANGED <<accRow, accToken, accOwed, accTold, accNow, accFaults, accGhosts, accOverlaps>>

\* ... and the insert, which is refused if the address is taken by now; a role other
\* than the customer's is audited.
InsertUser(q) ==
    /\ SessionAt(q, "insert")
    /\ IF accRow = NoAccount
       THEN /\ accRow' = Clear /\ accIdeal' = Clear
            /\ \E records \in {{}, {q}} : accOwed' = accOwed \cup records
            /\ SessionGoes(q, "done")
       ELSE SessionGoes(q, "refused") /\ UNCHANGED <<accRow, accIdeal, accOwed>>
    /\ UNCHANGED <<accToken, accTold, accNow, accFaults, accBlind, accLifted, accOverlaps>>

SessionTick ==
    /\ accNow < MaxSessionTime
    /\ accNow' = accNow + 1
    /\ UNCHANGED <<accRow, accToken, accRequest, accOwed, accTold, accFaults, accGhosts, accOverlaps>>

\* A failing statement ends its request; a failing audit record is only logged.
SessionStatementFails(q) ==
    /\ accFaults < MaxSessionFaults
    /\ accFaults' = accFaults + 1
    /\ \/ /\ accRequest[q].pc \in {"clear", "locked", "record", "reset", "revoke", "user", "insert", "issue"}
          /\ accRequest[q].pc \in {"clear", "locked"} => Expired(accRequest[q].seen)
          /\ SessionGoes(q, "failed")
          /\ UNCHANGED accOwed
       \/ SessionAt(q, "tell") /\ SessionGoes(q, "refused") /\ UNCHANGED accOwed
       \/ q \in accOwed /\ accOwed' = accOwed \ {q} /\ UNCHANGED accRequest
    /\ UNCHANGED <<accRow, accToken, accTold, accNow, accGhosts, accOverlaps>>

SessionNext ==
    \/ SessionTick
    \/ \E q \in SessionRequests :
          \/ FindUser(q) \/ ClearExpiredLock(q) \/ IsAccountLocked(q) \/ VerifyPassword(q)
          \/ RecordFailedLogin(q) \/ TellLocked(q) \/ RecordAudit(q) \/ ResetAfterSuccessfulLogin(q)
          \/ FindToken(q) \/ RevokeToken(q) \/ FindTokensUser(q) \/ IssueTokenPair(q)
          \/ CheckEmail(q) \/ InsertUser(q) \/ SessionStatementFails(q)

SessionSpec == SessionInit /\ [][SessionNext]_accVars

-----------------------------------------------------------------------------
(* Correctness *)

\* The account is as logins one after the other would have left it, unless a login
\* wrote it from a row that others had changed; only such a login takes a lock away
\* before its time; and a refused login is audited, unless a fault has cost the record.
LoginsAccounted ==
    /\ accBlind = {} => accRow = accIdeal
    /\ accLifted \subseteq accBlind
    /\ Cardinality({q \in SessionRequests : accRequest[q].kind = "login" /\ SessionAt(q, "refused")}
                       \ (accOwed \cup accTold)) <= accFaults

Exchanges(t) == {q \in SessionRequests : /\ accRequest[q].kind = "refresh" /\ accRequest[q].token = t
                                         /\ accRequest[q].pc \in {"user", "issue", "done"}}

LoggedOut(t) == \E q \in SessionRequests : /\ accRequest[q].kind = "logout" /\ accRequest[q].token = t
                                           /\ SessionAt(q, "done")

\* A token is exchanged for two others only by refreshes that had both found it
\* usable; one that is revoked was exchanged, or logged out, or is lost to a fault;
\* and no session goes on that has been logged out, unless a refresh was under way.
SessionsAccounted ==
    /\ \A t \in Tokens : \A p, q \in Exchanges(t) : p # q => {p, q} \in accOverlaps
    /\ Cardinality({t \in Tokens : /\ accToken[t].state = "revoked"
                                   /\ Exchanges(t) = {} /\ ~LoggedOut(t)}) <= accFaults
    /\ \A t \in Tokens : LoggedOut(t) => /\ accToken[t].state = "revoked"
                                         /\ \A q \in Exchanges(t) : \E S \in accOverlaps : q \in S
===============================================================================
