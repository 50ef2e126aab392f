-------------------------------- MODULE ApiKeys --------------------------------
(***************************************************************************)
(* One API key: its administration, and the requests that come with it,    *)
(* whose last use is written beside the answer and may arrive in any order *)
(* or after the key is gone.                                               *)
(***************************************************************************)
EXTENDS Integers, FiniteSets

CONSTANTS
    KeyRequests,
    MaxKeyTime,   \* bound: the time that is looked at
    MaxKeyFaults  \* bound: statements that fail

ASSUME KeyAssumption == IsFiniteSet(KeyRequests) /\ MaxKeyTime \in Nat \ {0} /\ MaxKeyFaults \in Nat

VARIABLES
    keyRow,      \* the key: active, lastUsedAt and expiresAt, 0 for null
    keyRequest,  \* what every request is, where it stands, and when it was let in
    keyTouch,    \* the requests whose last use is still to be written
    keyOwed,     \* audit records to be written, by request
    keyTold,     \* audit records
    keyNow,
    keyFaults,
    keyUntold,   \* requests whose last use a fault has kept from the row
    keyTogether  \* pairs of requests whose last uses were to be written together

keyVars == <<keyRow, keyRequest, keyTouch, keyOwed, keyTold, keyNow, keyFaults, keyUntold, keyTogether>>

KeyRow == [state : {"absent", "active", "revoked", "deleted"},
           used : 0..MaxKeyTime, expires : 0..MaxKeyTime]

NoKey == [state |-> "absent", used |-> 0, expires |-> 0]

KeyRequest == [kind : {"create", "use", "revoke", "delete"},
               pc : {"new", "write", "again", "done", "refused", "failed"}, at : 0..MaxKeyTime]

KeysTypeOK ==
    /\ keyRow \in KeyRow
    /\ keyRequest \in [KeyRequests -> KeyRequest]
    /\ keyTouch \subseteq KeyRequests /\ keyUntold \subseteq KeyRequests
    /\ keyOwed \subseteq KeyRequests /\ keyTold \subseteq KeyRequests
    /\ keyNow \in 1..MaxKeyTime /\ keyFaults \in 0..MaxKeyFaults
    /\ keyTogether \subseteq SUBSET KeyRequests

KeysInit ==
    /\ keyRow \in {NoKey} \cup {row \in KeyRow : row.state = "active" /\ row.used = 0}
    /\ keyRequest \in [KeyRequests -> {r \in KeyRequest : r.pc = "new" /\ r.at = 0}]
    /\ keyTouch = {} /\ keyOwed = {} /\ keyTold = {} /\ keyNow = 1 /\ keyFaults = 0
    /\ keyUntold = {} /\ keyTogether = {}

-----------------------------------------------------------------------------
(* Steps *)

KeyStored == keyRow.state \in {"active", "revoked"}

KeyAt(q, pc) == keyRequest[q].pc = pc

KeyGoes(q, pc) == keyRequest' = [keyRequest EXCEPT ![q].pc = pc]

\* create; an expiry in the past is accepted.
CreateKey(q) ==
    /\ KeyAt(q, "new") /\ keyRequest[q].kind = "create" /\ keyRow.state = "absent"
    /\ \E expires \in 0..MaxKeyTime : keyRow' = [NoKey EXCEPT !.state = "active", !.expires = expires]
    /\ KeyGoes(q, "done")
    /\ keyOwed' = keyOwed \cup {q}
    /\ UNCHANGED <<keyTouch, keyTold, keyNow, keyFaults, keyUntold, keyTogether>>

KeyUsable == keyRow.state = "active" /\ (keyRow.expires = 0 \/ keyRow.expires > keyNow)

\* authenticateApiKey: the request goes on while its last use is written.
AuthenticateApiKey(q) ==
    /\ KeyAt(q, "new") /\ keyRequest[q].kind = "use"
    /\ IF KeyUsable
       THEN /\ keyRequest' = [keyRequest EXCEPT ![q].pc = "done", ![q].at = keyNow]
            /\ keyTouch' = keyTouch \cup {q}
            /\ keyTogether' = keyTogether \cup {{p, q} : p \in keyTouch}
       ELSE KeyGoes(q, "refused") /\ UNCHANGED <<keyTouch, keyTogether>>
    /\ UNCHANGED <<keyRow, keyOwed, keyTold, keyNow, keyFaults, keyUntold>>

\* The date is that of the call; nobody hears of a key that is gone.
TouchLastUsedAt(q) ==
    /\ q \in keyTouch
    /\ keyTouch' = keyTouch \ {q}
    /\ keyRow' = IF KeyStored THEN [keyRow EXCEPT !.used = keyRequest[q].at] ELSE keyRow
    /\ UNCHANGED <<keyRequest, keyOwed, keyTold, keyNow, keyFaults, keyUntold, keyTogether>>

\* findByIdAndTenant of revoke and delete.
FindKey(q) ==
    /\ KeyAt(q, "new") /\ keyRequest[q].kind \in {"revoke", "delete"}
    /\ KeyGoes(q, IF ~KeyStored THEN "refused" ELSE IF keyRequest[q].kind = "revoke" THEN "write" ELSE "again")
    /\ UNCHANGED <<keyRow, keyTouch, keyOwed, keyTold, keyNow, keyFaults, keyUntold, keyTogether>>

\* The repository's delete looks once more, and has nothing to say if the key is gone ...
FindKeyAgain(q) ==
    /\ KeyAt(q, "again")
    /\ KeyGoes(q, IF KeyStored THEN "write" ELSE "done")
    /\ UNCHANGED <<keyRow, keyTouch, keyOwed, keyTold, keyNow, keyFaults, keyUntold, keyTogether>>

\* ... while an update or a deletion of a row that is gone throws.  A deletion is logged only.
WriteKey(q) ==
    LET revoke == keyRequest[q].kind = "revoke" IN
    /\ KeyAt(q, "write")
    /\ IF KeyStored
       THEN /\ keyRow' = [keyRow EXCEPT !.state = IF revoke THEN "revoked" ELSE "deleted"]
            /\ keyOwed' = IF revoke THEN keyOwed \cup {q} ELSE keyOwed
            /\ KeyGoes(q, "done")
       ELSE KeyGoes(q, "failed") /\ UNCHANGED <<keyRow, keyOwed>>
    /\ UNCHANGED <<keyTouch, keyTold, keyNow, keyFaults, keyUntold, keyTogether>>

RecordKeyAudit(q) ==
    /\ q \in keyOwed
    /\ keyOwed' = keyOwed \ {q}
    /\ keyTold' = keyTold \cup {q}
    /\ UNCHANGED <<keyRow, keyRequest, keyTouch, keyNow, keyFaults, keyUntold, keyTogether>>

KeyTick ==
    /\ keyNow < MaxKeyTime
    /\ keyNow' = keyNow + 1
    /\ UNCHANGED <<keyRow, keyRequest, keyTouch, keyOwed, keyTold, keyFaults, keyUntold, keyTogether>>

\* Of a last use and an audit record nobody hears; other statements end their request.
KeyStatementFails(q) ==
    /\ keyFaults < MaxKeyFaults
    /\ keyFaults' = keyFaults + 1
    /\ \/ /\ q \in keyTouch
          /\ keyTouch' = keyTouch \ {q} /\ keyUntold' = keyUntold \cup {q}
          /\ UNCHANGED <<keyRequest, keyOwed>>
       \/ /\ q \in keyOwed
          /\ keyOwed' = keyOwed \ {q}
          /\ UNCHANGED <<keyRequest, keyTouch, keyUntold>>
       \/ /\ keyRequest[q].pc \in {"new", "again", "write"}
          /\ KeyGoes(q, "failed")
          /\ UNCHANGED <<keyTouch, keyOwed, keyUntold>>
    /\ UNCHANGED <<keyRow, keyTold, keyNow, keyTogether>>

KeysNext ==
    \/ KeyTick
    \/ \E q \in KeyRequests :
          \/ CreateKey(q) \/ AuthenticateApiKey(q) \/ TouchLastUsedAt(q) \/ FindKey(q)
          \/ FindKeyAgain(q) \/ WriteKey(q) \/ RecordKeyAudit(q) \/ KeyStatementFails(q)

KeysSpec == KeysInit /\ [][KeysNext]_keyVars

-----------------------------------------------------------------------------
(* Correctness *)

\* lastUsedAt lies before expiresAt; and it is at least as late as every use that has
\* been written, but for a use that was to be written together with the one it tells.
LastUseTold ==
    /\ keyRow.expires # 0 => keyRow.used < keyRow.expires
    /\ KeyStored =>
           \A q \in KeyRequests \ (keyTouch \cup keyUntold) :
              \/ keyRow.used >= keyRequest[q].at
              \/ \E p \in KeyRequests : {p, q} \in keyTogether /\ keyRequest[p].at = keyRow.used

\* A request fails by a fault, or because another has deleted the key under it; and
\* what is done to a key is audited, unless a fault has cost the record.
KeyChangesTold ==
    LET done == {q \in KeyRequests : KeyAt(q, "done") /\ keyRequest[q].kind \in {"create", "revoke"}}
        failed == {q \in KeyRequests : KeyAt(q, "failed")}
    IN  /\ keyRow.state # "deleted" => Cardinality(failed) <= keyFaults
        /\ Cardinality(done \ (keyOwed \cup keyTold)) <= keyFaults
================================================================================
