---------------------------- MODULE RolePermissions ----------------------------
(***************************************************************************)
(* The administration of roles: requests that create, rename and delete    *)
(* roles and that replace a role's permissions, a transaction of two       *)
(* statements at the database's default level (READ COMMITTED).            *)
(***************************************************************************)
EXTENDS Integers, FiniteSets, Sequences, Functions

CONSTANTS
    Roles,         \* role ids; an id is used once
    Catalog,       \* the keys of the permissions table
    KeyLists,      \* the lists of keys that requests may carry
    RoleRequests,  \* administration requests
    MaxRoleFaults  \* bound: statements that fail

ASSUME RolesAssumption ==
    /\ IsFiniteSet(RoleRequests)
    /\ \A list \in KeyLists : list \in Seq(Range(list)) /\ list # <<>>
    /\ MaxRoleFaults \in Nat

VARIABLES
    roleRow,      \* [state, rows]: a role and its role_permissions, each with its writer
    roleRequest,  \* what a request asks, where it stands, the rows it deletes
    roleOverlaps, \* pairs of replacements that ran at the same time
    roleAudited,  \* requests whose audit record was written
    roleFaults

roleVars == <<roleRow, roleRequest, roleOverlaps, roleAudited, roleFaults>>

PermissionRow == Catalog \X RoleRequests

RoleTypeOK ==
    /\ roleRow \in [Roles -> [state : {"unused", "kept", "deleted"}, rows : SUBSET PermissionRow]]
    /\ \A q \in RoleRequests :
           /\ roleRequest[q].op \in {"create", "rename", "delete", "assign"}
           /\ roleRequest[q].pc \in {"new", "write", "keys", "replace", "deleting", "insert",
                                     "audit", "done", "refused", "failed"}
           /\ roleRequest[q].role \in Roles /\ roleRequest[q].asked \in KeyLists
           /\ roleRequest[q].seen \in SUBSET PermissionRow
    /\ roleOverlaps \in SUBSET SUBSET RoleRequests
    /\ roleAudited \in SUBSET RoleRequests
    /\ roleFaults \in 0..MaxRoleFaults

RoleInit ==
    /\ roleRow \in [Roles -> [state : {"unused", "kept"}, rows : {{}}]]
    /\ roleRequest \in [RoleRequests ->
           [op : {"create", "rename", "delete", "assign"}, pc : {"new"},
            role : Roles, asked : KeyLists, seen : {{}}]]
    /\ roleOverlaps = {} /\ roleAudited = {} /\ roleFaults = 0

-----------------------------------------------------------------------------
(* Steps *)

RoleAt(q, pc) == roleRequest[q].pc = pc

RoleGoes(q, pc) == roleRequest' = [roleRequest EXCEPT ![q].pc = pc]

RoleRowOf(q) == roleRow[roleRequest[q].role]

KeysOf(role) == {row[1] : row \in roleRow[role].rows}

\* A name that another role has is refused by the unique constraint.
CreateRole(q) ==
    /\ RoleAt(q, "new") /\ roleRequest[q].op = "create" /\ RoleRowOf(q).state = "unused"
    /\ \/ /\ roleRow' = [roleRow EXCEPT ![roleRequest[q].role].state = "kept"]
          /\ RoleGoes(q, "audit")
       \/ RoleGoes(q, "refused") /\ UNCHANGED roleRow
    /\ UNCHANGED <<roleOverlaps, roleAudited, roleFaults>>

FindRole(q) ==
    /\ RoleAt(q, "new") /\ roleRequest[q].op # "create"
    /\ RoleGoes(q, IF RoleRowOf(q).state # "kept" THEN "refused"
                   ELSE IF roleRequest[q].op = "assign" THEN "keys" ELSE "write")
    /\ UNCHANGED <<roleRow, roleOverlaps, roleAudited, roleFaults>>

\* A role that is gone by now fails the statement; deleting one cascades to its
\* permissions and waits for a replacement that has deleted some of them.
WriteRole(q) ==
    LET role == roleRequest[q].role IN
    /\ RoleAt(q, "write")
    /\ roleRequest[q].op = "delete" =>
           \A p \in RoleRequests : ~(RoleAt(p, "insert") /\ roleRequest[p].role = role
                                     /\ roleRequest[p].seen # {})
    /\ RoleGoes(q, IF RoleRowOf(q).state = "kept" THEN "audit" ELSE "failed")
    /\ roleRow' = IF roleRequest[q].op = "delete" /\ RoleRowOf(q).state = "kept"
                  THEN [roleRow EXCEPT ![role] = [state |-> "deleted", rows |-> {}]]
                  ELSE roleRow
    /\ UNCHANGED <<roleOverlaps, roleAudited, roleFaults>>

\* As many permissions must be found as keys were sent: a repeated key counts as unknown.
FindKeys(q) ==
    /\ RoleAt(q, "keys")
    /\ RoleGoes(q, IF Cardinality(Catalog \cap Range(roleRequest[q].asked))
                        = Len(roleRequest[q].asked)
                   THEN "replace" ELSE "refused")
    /\ UNCHANGED <<roleRow, roleOverlaps, roleAudited, roleFaults>>

Replacing(role) == {q \in RoleRequests : /\ roleRequest[q].role = role
                                         /\ roleRequest[q].pc \in {"deleting", "insert"}}

\* deleteMany takes its snapshot of the committed rows ...
BeginReplace(q) ==
    /\ RoleAt(q, "replace")
    /\ roleRequest' = [roleRequest EXCEPT ![q].pc = "deleting", ![q].seen = RoleRowOf(q).rows]
    /\ roleOverlaps' = roleOverlaps \cup {{p, q} : p \in Replacing(roleRequest[q].role)}
    /\ UNCHANGED <<roleRow, roleAudited, roleFaults>>

\* Faulty variant: each of the two statements commits by itself.
DeletePermissionsAlone(q) ==
    /\ RoleAt(q, "deleting")
    /\ roleRow' = [roleRow EXCEPT ![roleRequest[q].role].rows = @ \ roleRequest[q].seen]
    /\ RoleGoes(q, "insert")
    /\ UNCHANGED <<roleOverlaps, roleAudited, roleFaults>>

\* ... waits for a transaction that is deleting some of them, and deletes what is
\* left of them; what was inserted meanwhile is not in the snapshot.
DeletePermissions(q) ==
    /\ RoleAt(q, "deleting")
    /\ \A p \in Replacing(roleRequest[q].role) :
           RoleAt(p, "insert") => roleRequest[p].seen \cap roleRequest[q].seen = {}
    /\ roleRequest' = [roleRequest EXCEPT ![q].pc = "insert", ![q].seen = @ \cap RoleRowOf(q).rows]
    /\ UNCHANGED <<roleRow, roleOverlaps, roleAudited, roleFaults>>

\* createMany, and the commit of both: refused when the role is gone, or when
\* it has one of the keys already (unique on role and permission).
InsertPermissions(q) ==
    LET asked == Range(roleRequest[q].asked)
        left == RoleRowOf(q).rows \ roleRequest[q].seen
        refused == RoleRowOf(q).state # "kept" \/ \E row \in left : row[1] \in asked
    IN
    /\ RoleAt(q, "insert")
    /\ roleRow' = IF refused THEN roleRow
                  ELSE [roleRow EXCEPT ![roleRequest[q].role].rows = left \cup (asked \X {q})]
    /\ RoleGoes(q, IF refused THEN "failed" ELSE "audit")
    /\ UNCHANGED <<roleOverlaps, roleAudited, roleFaults>>

\* The record is not awaited.
AuditRole(q) ==
    /\ RoleAt(q, "audit")
    /\ roleAudited' = roleAudited \cup {q}
    /\ RoleGoes(q, "done")
    /\ UNCHANGED <<roleRow, roleOverlaps, roleFaults>>

\* A failing statement rolls its transaction back; a failing record is only logged.
RoleStatementFails(q) ==
    /\ ~(roleRequest[q].pc \in {"done", "refused", "failed"}) /\ roleFaults < MaxRoleFaults
    /\ roleFaults' = roleFaults + 1
    /\ RoleGoes(q, IF RoleAt(q, "audit") THEN "done" ELSE "failed")
    /\ UNCHANGED <<roleRow, roleOverlaps, roleAudited>>

RoleNext ==
    \E q \in RoleRequests :
        \/ CreateRole(q) \/ FindRole(q) \/ WriteRole(q) \/ FindKeys(q)
        \/ BeginReplace(q) \/ DeletePermissions(q) \/ InsertPermissions(q)
        \/ AuditRole(q) \/ RoleStatementFails(q)

RoleSpec == RoleInit /\ [][RoleNext]_roleVars

-----------------------------------------------------------------------------
(* Correctness *)

WritersOf(role) == {row[2] : row \in roleRow[role].rows}

\* A role's permissions are the whole list of one request, and of two or more
\* only when their replacements overlapped; a role that was given some is never
\* left without any; what was done is audited unless a statement failed.
RolesKept ==
    /\ \A role \in Roles : \A q \in WritersOf(role) :
           {row[1] : row \in {r \in roleRow[role].rows : r[2] = q}}
               = Range(roleRequest[q].asked)
    /\ \A role \in Roles : \A p, q \in WritersOf(role) : p # q =>
           \E S \in roleOverlaps : q \in S /\ S # {q} /\ \E other \in WritersOf(role) : other \in S \ {q}
    /\ \A q \in RoleRequests :
           roleRequest[q].op = "assign" /\ RoleAt(q, "done") /\ RoleRowOf(q).state = "kept"
               => KeysOf(roleRequest[q].role) # {}
    /\ Cardinality({q \in RoleRequests : RoleAt(q, "done")} \ roleAudited) <= roleFaults
================================================================================
