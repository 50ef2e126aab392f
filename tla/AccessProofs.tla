------------------------------- MODULE AccessProofs -------------------------------
(***************************************************************************)
(* Who may do what: roles and their permissions, API keys, and the logins  *)
(* and sessions of an account.  For each an inductive invariant relates    *)
(* what a request has read to what the rows may have become meanwhile.     *)
(***************************************************************************)
EXTENDS TicketCareProofs, RolePermissions, ApiKeys, UserSessions

-----------------------------------------------------------------------------
(* Roles and their permissions *)

RoleOps == {"create", "rename", "delete", "assign"}

RolePcs == {"new", "write", "keys", "replace", "deleting", "insert", "audit", "done", "refused", "failed"}

RoleRequest ==
    [op : RoleOps, pc : RolePcs, role : Roles, asked : KeyLists, seen : SUBSET PermissionRow]

RoleTyped ==
    /\ roleRow \in [Roles -> [state : {"unused", "kept", "deleted"}, rows : SUBSET PermissionRow]]
    /\ roleRequest \in [RoleRequests -> RoleRequest]
    /\ roleAudited \subseteq RoleRequests
    /\ roleOverlaps \subseteq SUBSET RoleRequests
    /\ roleFaults \in 0..MaxRoleFaults

\* Of every writer the rows hold the whole list, or nothing.
WholeIn(requests, rows, role) ==
    \A row \in rows :
        /\ requests[row[2]].role = role /\ requests[row[2]].pc \in {"audit", "done"}
        /\ row[1] \in Range(requests[row[2]].asked)
        /\ \A key \in Range(requests[row[2]].asked) : <<key, row[2]>> \in rows

WholeLists(rows, role) == WholeIn(roleRequest, rows, role)

\* A replacement deletes every row but those of whoever replaced them meanwhile.
SeenOrOverlapped(q) ==
    \A row \in RoleRowOf(q).rows : row \in roleRequest[q].seen \/ {row[2], q} \in roleOverlaps

IsReplacing(q) == roleRequest[q].pc \in {"deleting", "insert"}

\* Where a request stands tells what it is and what it has found.
RequestStands(q) ==
    /\ roleRequest[q].pc = "write" => roleRequest[q].op # "assign"
    /\ roleRequest[q].pc \in {"keys", "replace", "deleting", "insert"} => roleRequest[q].op = "assign"
    /\ roleRequest[q].pc \in {"replace", "deleting", "insert"} => Range(roleRequest[q].asked) \subseteq Catalog
    /\ IsReplacing(q) => WholeLists(roleRequest[q].seen, roleRequest[q].role) /\ SeenOrOverlapped(q)
    /\ RoleAt(q, "insert") => roleRequest[q].seen \subseteq RoleRowOf(q).rows
    /\ roleRequest[q].op = "assign" /\ RoleRowOf(q).state = "unused" =>
           roleRequest[q].pc \in {"new", "refused", "failed"}
    /\ roleRequest[q].op = "assign" /\ roleRequest[q].pc \in {"audit", "done"}
           /\ RoleRowOf(q).state = "kept" => RoleRowOf(q).rows # {}

\* Two replacements of a role know of each other, and do not delete the same rows.
TheyOverlap(p, q) ==
    p # q /\ roleRequest[p].role = roleRequest[q].role /\ IsReplacing(p) /\ IsReplacing(q) =>
        /\ {p, q} \in roleOverlaps
        /\ RoleAt(p, "insert") /\ RoleAt(q, "insert") =>
               roleRequest[p].seen \cap roleRequest[q].seen = {}

WritersOverlapped(role) ==
    \A row, other \in roleRow[role].rows : row[2] # other[2] => {row[2], other[2]} \in roleOverlaps

DoneUnaudited == {q \in RoleRequests : RoleAt(q, "done")} \ roleAudited

RoleInv ==
    /\ RoleTyped
    /\ \A q \in RoleRequests : RequestStands(q)
    /\ \A p, q \in RoleRequests : TheyOverlap(p, q)
    /\ \A role \in Roles : WholeLists(roleRow[role].rows, role) /\ WritersOverlapped(role)
    /\ Cardinality(DoneUnaudited) <= roleFaults

\* A request may go on; what it asks stays, and what is done stays done.
SameRequests(f, g) ==
    \A p \in RoleRequests :
        /\ g[p].role = f[p].role /\ g[p].asked = f[p].asked
        /\ f[p].pc \in {"audit", "done"} => g[p].pc \in {"audit", "done"}

LEMMA WholeStays ==
    ASSUME NEW f, NEW g, SameRequests(f, g), NEW rows, rows \subseteq PermissionRow, NEW role,
           WholeIn(f, rows, role)
    PROVE  WholeIn(g, rows, role)
<1>1. \A row \in rows : row[2] \in RoleRequests
    BY DEF PermissionRow
<1>2. QED
    BY <1>1 DEF WholeIn, SameRequests

LEMMA WholeLess ==
    ASSUME NEW f, NEW role, NEW A, A \subseteq PermissionRow, NEW B,
           WholeIn(f, A, role), WholeIn(f, B, role)
    PROVE  WholeIn(f, A \ B, role) /\ WholeIn(f, A \cap B, role)
<1>1. WholeIn(f, A \ B, role)
    <2>1. SUFFICES ASSUME NEW row \in A \ B
                   PROVE  /\ f[row[2]].role = role /\ f[row[2]].pc \in {"audit", "done"}
                          /\ row[1] \in Range(f[row[2]].asked)
                          /\ \A key \in Range(f[row[2]].asked) : <<key, row[2]>> \in A \ B
        BY DEF WholeIn
    <2>2. /\ f[row[2]].role = role /\ f[row[2]].pc \in {"audit", "done"}
          /\ row[1] \in Range(f[row[2]].asked)
          /\ \A key \in Range(f[row[2]].asked) : <<key, row[2]>> \in A
        BY <2>1 DEF WholeIn
    <2>3. ASSUME NEW key \in Range(f[row[2]].asked), <<key, row[2]>> \in B PROVE FALSE
        <3>1. <<row[1], row[2]>> \in B
            BY <2>2, <2>3 DEF WholeIn
        <3>2. row = <<row[1], row[2]>>
            BY <2>1 DEF PermissionRow
        <3>3. QED
            BY <2>1, <3>1, <3>2
    <2>4. QED
        BY <2>2, <2>3
<1>2. WholeIn(f, A \cap B, role)
    BY DEF WholeIn
<1>3. QED
    BY <1>1, <1>2

LEMMA RoleRequestTyped ==
    ASSUME RoleTyped, NEW q \in RoleRequests
    PROVE  /\ roleRequest[q] \in RoleRequest /\ roleRequest[q].role \in Roles
           /\ roleRequest[q].asked \in KeyLists /\ roleRequest[q].seen \subseteq PermissionRow
           /\ roleRequest[q].pc \in RolePcs /\ roleRequest[q].op \in RoleOps
           /\ RoleRowOf(q) \in [state : {"unused", "kept", "deleted"}, rows : SUBSET PermissionRow]
           /\ RoleRowOf(q).rows \subseteq PermissionRow
<1>1. roleRequest[q] \in RoleRequest
    BY DEF RoleTyped
<1>2. roleRequest[q].role \in Roles
    BY <1>1 DEF RoleRequest
<1>3. RoleRowOf(q) \in [state : {"unused", "kept", "deleted"}, rows : SUBSET PermissionRow]
    BY <1>2 DEF RoleTyped, RoleRowOf
<1>4. QED
    BY <1>1, <1>2, <1>3 DEF RoleRequest

\* One request goes on; the roles it may have changed are looked at elsewhere.
RoleMoves(q, pc, seen) ==
    /\ roleRequest' \in [RoleRequests -> RoleRequest]
    /\ roleRequest'[q].pc = pc /\ roleRequest'[q].seen = seen
    /\ roleRequest'[q].op = roleRequest[q].op /\ roleRequest'[q].role = roleRequest[q].role
    /\ roleRequest'[q].asked = roleRequest[q].asked
    /\ \A p \in RoleRequests : p # q => roleRequest'[p] = roleRequest[p]

LEMMA MovedByRole ==
    ASSUME RoleTyped, NEW q \in RoleRequests, NEW pc \in RolePcs, NEW seen, seen \subseteq PermissionRow,
           roleRequest' = [roleRequest EXCEPT ![q].pc = pc, ![q].seen = seen]
    PROVE  RoleMoves(q, pc, seen)
<1>1. roleRequest \in [RoleRequests -> RoleRequest] /\ roleRequest[q] \in RoleRequest
    BY DEF RoleTyped
<1>2. [roleRequest[q] EXCEPT !.pc = pc, !.seen = seen] \in RoleRequest
    BY <1>1 DEF RoleRequest
<1>3. QED
    BY <1>1, <1>2 DEF RoleMoves, RoleRequest

LEMMA GoesMoves ==
    ASSUME RoleTyped, NEW q \in RoleRequests, NEW pc \in RolePcs, RoleGoes(q, pc)
    PROVE  RoleMoves(q, pc, roleRequest[q].seen)
<1>1. roleRequest \in [RoleRequests -> RoleRequest] /\ roleRequest[q] \in RoleRequest
    BY DEF RoleTyped
<1>2. [roleRequest[q] EXCEPT !.pc = pc] \in RoleRequest
    BY <1>1 DEF RoleRequest
<1>3. roleRequest' = [roleRequest EXCEPT ![q].pc = pc]
    BY DEF RoleGoes
<1>4. QED
    BY <1>1, <1>2, <1>3 DEF RoleMoves, RoleRequest

LEMMA SameByMoving ==
    ASSUME NEW q \in RoleRequests, NEW pc, NEW seen, RoleMoves(q, pc, seen),
           roleRequest[q].pc \in {"audit", "done"} => pc \in {"audit", "done"}
    PROVE  SameRequests(roleRequest, roleRequest')
BY DEF SameRequests, RoleMoves

\* What is done is audited, or its record is on the account of a fault.
LEMMA UnauditedStays ==
    ASSUME RoleInv, NEW q \in RoleRequests, NEW pc, NEW seen, RoleMoves(q, pc, seen),
           roleAudited \subseteq roleAudited', roleFaults' \in 0..MaxRoleFaults,
           \/ roleFaults' = roleFaults /\ (pc = "done" => q \in roleAudited')
           \/ roleFaults' = roleFaults + 1
    PROVE  Cardinality(DoneUnaudited') <= roleFaults'
<1>1. IsFiniteSet(DoneUnaudited)
    BY RolesAssumption, FS_Subset DEF DoneUnaudited
<1>2. roleFaults \in Nat /\ Cardinality(DoneUnaudited) <= roleFaults
    BY RolesAssumption DEF RoleInv, RoleTyped
<1>3. DoneUnaudited' \subseteq DoneUnaudited \cup {q}
    BY DEF DoneUnaudited, RoleAt, RoleMoves
<1>4. CASE roleFaults' = roleFaults /\ (pc = "done" => q \in roleAudited')
    <2>1. q \notin DoneUnaudited'
        BY <1>4 DEF DoneUnaudited, RoleAt, RoleMoves
    <2>2. DoneUnaudited' \subseteq DoneUnaudited
        BY <1>3, <2>1
    <2>3. Cardinality(DoneUnaudited') \in Nat /\ Cardinality(DoneUnaudited) \in Nat
          /\ Cardinality(DoneUnaudited') <= Cardinality(DoneUnaudited)
        BY <1>1, <2>2, PartCounted
    <2>4. QED
        BY <1>2, <1>4, <2>3
<1>5. CASE roleFaults' = roleFaults + 1
    <2>1. Cardinality(DoneUnaudited') \in Nat /\ Cardinality(DoneUnaudited) \in Nat
          /\ Cardinality(DoneUnaudited') <= Cardinality(DoneUnaudited) + 1
        BY <1>1, <1>3, OneMoreCounted
    <2>2. QED
        BY <1>2, <1>5, <2>1
<1>6. QED
    BY <1>4, <1>5

\* The request that moves stands well, and the others find their roles as they were.
LEMMA RoleFrame ==
    ASSUME RoleInv, NEW q \in RoleRequests, NEW pc, NEW seen, RoleMoves(q, pc, seen),
           roleRequest[q].pc \in {"audit", "done"} => pc \in {"audit", "done"},
           UNCHANGED roleRow, roleOverlaps \subseteq roleOverlaps', roleOverlaps' \subseteq SUBSET RoleRequests,
           RequestStands(q)', \A p \in RoleRequests : TheyOverlap(q, p)',
           roleAudited \subseteq roleAudited', roleAudited' \subseteq RoleRequests,
           roleFaults' \in 0..MaxRoleFaults,
           \/ roleFaults' = roleFaults /\ (pc = "done" => q \in roleAudited')
           \/ roleFaults' = roleFaults + 1
    PROVE  RoleInv'
<1>1. RoleTyped /\ SameRequests(roleRequest, roleRequest')
    BY SameByMoving DEF RoleInv
<1>2. RoleTyped'
    BY <1>1 DEF RoleTyped, RoleMoves
<1>3. ASSUME NEW p \in RoleRequests PROVE RequestStands(p)'
    <2>1. CASE p = q
        BY <2>1
    <2>2. CASE p # q
        <3>1. roleRequest'[p] = roleRequest[p] /\ RequestStands(p) /\ RoleRowOf(p)' = RoleRowOf(p)
            BY <2>2 DEF RoleMoves, RoleInv, RoleRowOf
        <3>2. roleRequest[p].seen \subseteq PermissionRow
            BY <1>1, RoleRequestTyped
        <3>3. WholeLists(roleRequest[p].seen, roleRequest[p].role) =>
                  WholeIn(roleRequest', roleRequest[p].seen, roleRequest[p].role)
            BY <1>1, <3>2, WholeStays DEF WholeLists
        <3>4. SeenOrOverlapped(p) => SeenOrOverlapped(p)'
            BY <3>1 DEF SeenOrOverlapped
        <3>5. QED
            BY <3>1, <3>3, <3>4 DEF RequestStands, IsReplacing, WholeLists, RoleAt
    <2>3. QED
        BY <2>1, <2>2
<1>4. ASSUME NEW p \in RoleRequests, NEW r \in RoleRequests PROVE TheyOverlap(p, r)'
    <2>1. CASE p = q
        BY <2>1
    <2>2. CASE r = q
        <3>1. TheyOverlap(r, p)' /\ {p, r} = {r, p}
            BY <2>2
        <3>2. QED
            BY <3>1 DEF TheyOverlap
    <2>3. CASE p # q /\ r # q
        <3>1. roleRequest'[p] = roleRequest[p] /\ roleRequest'[r] = roleRequest[r] /\ TheyOverlap(p, r)
            BY <2>3 DEF RoleMoves, RoleInv
        <3>2. QED
            BY <3>1 DEF TheyOverlap, IsReplacing, RoleAt
    <2>4. QED
        BY <2>1, <2>2, <2>3
<1>5. ASSUME NEW role \in Roles
      PROVE  WholeLists(roleRow[role].rows, role)' /\ WritersOverlapped(role)'
    <2>1. roleRow[role].rows \subseteq PermissionRow
        BY <1>1 DEF RoleTyped
    <2>2. WholeIn(roleRequest, roleRow[role].rows, role) /\ WritersOverlapped(role)
        BY DEF RoleInv, WholeLists
    <2>3. WholeIn(roleRequest', roleRow[role].rows, role)
        BY <1>1, <2>1, <2>2, WholeStays
    <2>4. QED
        BY <2>2, <2>3 DEF WholeLists, WritersOverlapped
<1>6. Cardinality(DoneUnaudited') <= roleFaults'
    BY UnauditedStays
<1>7. QED
    BY <1>2, <1>3, <1>4, <1>5, <1>6 DEF RoleInv

\* A request that does not replace has nothing in common with those that do.
LEMMA NotReplacing ==
    ASSUME NEW q \in RoleRequests, ~ IsReplacing(q)'
    PROVE  \A p \in RoleRequests : TheyOverlap(q, p)'
BY DEF TheyOverlap

LEMMA FindRoleKeeps ==
    ASSUME RoleInv, NEW q \in RoleRequests, FindRole(q)
    PROVE  RoleInv'
<1> DEFINE pc == IF RoleRowOf(q).state # "kept" THEN "refused"
                 ELSE IF roleRequest[q].op = "assign" THEN "keys" ELSE "write"
<1>1. RoleTyped /\ roleRequest[q].pc = "new" /\ RoleGoes(q, pc) /\ pc \in RolePcs
    BY DEF RoleInv, FindRole, RoleAt, RolePcs
<1>2. UNCHANGED <<roleRow, roleOverlaps, roleAudited, roleFaults>>
    BY DEF FindRole
<1>3. pc \in {"refused", "keys", "write"} /\ (pc = "keys" => roleRequest[q].op = "assign")
      /\ (pc = "write" => roleRequest[q].op # "assign")
      /\ (pc # "refused" => RoleRowOf(q).state = "kept")
    OBVIOUS
<1> HIDE DEF pc
<1>4. RoleMoves(q, pc, roleRequest[q].seen)
    BY <1>1, GoesMoves
<1>5. roleRequest'[q].pc = pc /\ RoleRowOf(q)' = RoleRowOf(q) /\ roleRequest'[q].op = roleRequest[q].op
    BY <1>2, <1>4 DEF RoleMoves, RoleRowOf
<1>6. RequestStands(q)' /\ ~ IsReplacing(q)'
    BY <1>3, <1>5 DEF RequestStands, IsReplacing, RoleAt
<1>7. QED
    BY <1>1, <1>2, <1>3, <1>4, <1>6, NotReplacing, RoleFrame DEF RoleInv, RoleTyped

LEMMA ListWithoutRepeats ==
    ASSUME NEW list \in KeyLists, Cardinality(Catalog \cap Range(list)) = Len(list)
    PROVE  Range(list) \subseteq Catalog
<1>1. list \in Seq(Range(list))
    BY RolesAssumption
<1>2. PICK n \in Nat : list \in [1..n -> Range(list)] /\ n = Len(list)
    BY <1>1
<1>3. list \in Surjection(1..n, Range(list))
    BY <1>2 DEF Surjection, Range
<1>4. IsFiniteSet(1..n) /\ Cardinality(1..n) = n
    <2>1. IsFiniteSet(1..n) /\ Cardinality(1..n) = IF 1 > n THEN 0 ELSE n - 1 + 1
        BY FS_Interval
    <2>2. QED
        BY <2>1
<1>5. IsFiniteSet(Range(list)) /\ Cardinality(Range(list)) <= n
    BY <1>3, <1>4, FS_Surjection
<1>6. /\ Catalog \cap Range(list) \in SUBSET Range(list)
      /\ Cardinality(Catalog \cap Range(list)) <= Cardinality(Range(list))
      /\ Cardinality(Catalog \cap Range(list)) = Cardinality(Range(list)) =>
             Catalog \cap Range(list) = Range(list)
    BY <1>5, FS_Subset
<1>7. Cardinality(Range(list)) \in Nat
    BY <1>5, FS_CardinalityType
<1>8. Cardinality(Catalog \cap Range(list)) = Cardinality(Range(list))
    BY <1>2, <1>5, <1>6, <1>7
<1>9. QED
    BY <1>6, <1>8

LEMMA FindKeysKeeps ==
    ASSUME RoleInv, NEW q \in RoleRequests, FindKeys(q)
    PROVE  RoleInv'
<1> DEFINE found == Cardinality(Catalog \cap Range(roleRequest[q].asked)) = Len(roleRequest[q].asked)
           pc == IF found THEN "replace" ELSE "refused"
<1>1. RoleTyped /\ roleRequest[q].pc = "keys" /\ RoleGoes(q, pc) /\ pc \in RolePcs /\ RequestStands(q)
    BY DEF RoleInv, FindKeys, RoleAt, RolePcs
<1>2. UNCHANGED <<roleRow, roleOverlaps, roleAudited, roleFaults>>
    BY DEF FindKeys
<1>3. roleRequest[q].asked \in KeyLists
    BY <1>1, RoleRequestTyped
<1>4. pc \in {"refused", "replace"} /\ (pc = "replace" => Range(roleRequest[q].asked) \subseteq Catalog)
    BY <1>3, ListWithoutRepeats
<1> HIDE DEF pc
<1>5. RoleMoves(q, pc, roleRequest[q].seen)
    BY <1>1, GoesMoves
<1>6. /\ roleRequest'[q].pc = pc /\ RoleRowOf(q)' = RoleRowOf(q) /\ roleRequest'[q].op = roleRequest[q].op
      /\ roleRequest'[q].asked = roleRequest[q].asked
    BY <1>2, <1>5 DEF RoleMoves, RoleRowOf
<1>7. RequestStands(q)' /\ ~ IsReplacing(q)'
    BY <1>1, <1>4, <1>6 DEF RequestStands, IsReplacing, RoleAt
<1>8. QED
    BY <1>1, <1>2, <1>4, <1>5, <1>7, NotReplacing, RoleFrame DEF RoleInv, RoleTyped

LEMMA BeginReplaceKeeps ==
    ASSUME RoleInv, NEW q \in RoleRequests, BeginReplace(q)
    PROVE  RoleInv'
<1> DEFINE rows == RoleRowOf(q).rows
           role == roleRequest[q].role
<1>1. RoleTyped /\ roleRequest[q].pc = "replace" /\ RequestStands(q)
    BY DEF RoleInv, BeginReplace, RoleAt
<1>2. /\ roleRequest' = [roleRequest EXCEPT ![q].pc = "deleting", ![q].seen = rows]
      /\ roleOverlaps' = roleOverlaps \cup {{p, q} : p \in Replacing(role)}
      /\ UNCHANGED <<roleRow, roleAudited, roleFaults>>
    BY DEF BeginReplace
<1>3. rows \subseteq PermissionRow /\ role \in Roles /\ rows = roleRow[role].rows
    BY <1>1, RoleRequestTyped DEF RoleRowOf
<1>4. RoleMoves(q, "deleting", rows)
    <2>1. "deleting" \in RolePcs
        BY DEF RolePcs
    <2> HIDE DEF rows
    <2>2. QED
        BY <1>1, <1>2, <1>3, <2>1, MovedByRole
<1>5. /\ roleRequest'[q].pc = "deleting" /\ RoleRowOf(q)' = RoleRowOf(q)
      /\ roleRequest'[q].op = roleRequest[q].op /\ roleRequest'[q].role = role
      /\ roleRequest'[q].asked = roleRequest[q].asked /\ roleRequest'[q].seen = rows
    BY <1>2, <1>4 DEF RoleMoves, RoleRowOf
<1>6. WholeLists(roleRequest[q].seen, roleRequest[q].role)'
    <2>1. WholeIn(roleRequest, rows, role)
        BY <1>3 DEF RoleInv, WholeLists
    <2>2. SameRequests(roleRequest, roleRequest')
        BY <1>1, <1>4, SameByMoving
    <2>3. WholeIn(roleRequest', rows, role)
        BY <1>3, <2>1, <2>2, WholeStays
    <2>4. QED
        BY <1>5, <2>3 DEF WholeLists
<1>7. RequestStands(q)'
    <2>1. SeenOrOverlapped(q)'
        BY <1>5 DEF SeenOrOverlapped
    <2>2. QED
        BY <1>1, <1>5, <1>6, <2>1 DEF RequestStands, IsReplacing, RoleAt
<1>8. ASSUME NEW p \in RoleRequests PROVE TheyOverlap(q, p)'
    <2>1. SUFFICES ASSUME p # q, roleRequest'[p].role = role, roleRequest'[p].pc \in {"deleting", "insert"}
                   PROVE  {q, p} \in roleOverlaps'
        BY <1>5 DEF TheyOverlap, IsReplacing, RoleAt
    <2>2. roleRequest'[p] = roleRequest[p]
        BY <1>4, <2>1 DEF RoleMoves
    <2>3. p \in Replacing(role)
        BY <2>1, <2>2 DEF Replacing
    <2>4. {p, q} = {q, p}
        OBVIOUS
    <2>5. QED
        BY <1>2, <2>3, <2>4
<1>9. roleOverlaps' \subseteq SUBSET RoleRequests
    BY <1>1, <1>2 DEF RoleTyped, Replacing
<1>10. roleOverlaps \subseteq roleOverlaps'
    BY <1>2
<1> HIDE DEF rows
<1>11. QED
    BY <1>1, <1>2, <1>4, <1>7, <1>8, <1>9, <1>10, RoleFrame DEF RoleInv, RoleTyped

LEMMA DeletePermissionsKeeps ==
    ASSUME RoleInv, NEW q \in RoleRequests, DeletePermissions(q)
    PROVE  RoleInv'
<1> DEFINE role == roleRequest[q].role
           seen == roleRequest[q].seen \cap RoleRowOf(q).rows
<1>1. RoleTyped /\ roleRequest[q].pc = "deleting" /\ RequestStands(q)
    BY DEF RoleInv, DeletePermissions, RoleAt
<1>2. /\ \A p \in Replacing(role) : RoleAt(p, "insert") => roleRequest[p].seen \cap roleRequest[q].seen = {}
      /\ roleRequest' = [roleRequest EXCEPT ![q].pc = "insert", ![q].seen = seen]
      /\ UNCHANGED <<roleRow, roleOverlaps, roleAudited, roleFaults>>
    <2>1. roleRequest' = [roleRequest EXCEPT ![q].pc = "insert", ![q].seen = @ \cap RoleRowOf(q).rows]
        BY DEF DeletePermissions
    <2>2. roleRequest \in [RoleRequests -> RoleRequest] /\ roleRequest[q] \in RoleRequest
        BY <1>1 DEF RoleTyped
    <2>3. roleRequest' = [roleRequest EXCEPT ![q].pc = "insert", ![q].seen = seen]
        BY <2>1, <2>2 DEF RoleRequest
    <2>4. QED
        BY <2>3 DEF DeletePermissions
<1>3. /\ RoleRowOf(q).rows \subseteq PermissionRow /\ role \in Roles /\ RoleRowOf(q).rows = roleRow[role].rows
      /\ roleRequest[q].seen \subseteq PermissionRow /\ seen \subseteq PermissionRow
    BY <1>1, RoleRequestTyped DEF RoleRowOf
<1>4. RoleMoves(q, "insert", seen)
    <2>1. "insert" \in RolePcs
        BY DEF RolePcs
    <2> HIDE DEF seen
    <2>2. QED
        BY <1>1, <1>2, <1>3, <2>1, MovedByRole
<1>5. /\ roleRequest'[q].pc = "insert" /\ RoleRowOf(q)' = RoleRowOf(q)
      /\ roleRequest'[q].op = roleRequest[q].op /\ roleRequest'[q].role = role
      /\ roleRequest'[q].asked = roleRequest[q].asked /\ roleRequest'[q].seen = seen
    BY <1>2, <1>4 DEF RoleMoves, RoleRowOf
<1>6. WholeLists(roleRequest[q].seen, roleRequest[q].role)'
    <2>1. WholeIn(roleRequest, RoleRowOf(q).rows, role)
        BY <1>3 DEF RoleInv, WholeLists
    <2>2. WholeIn(roleRequest, roleRequest[q].seen, role)
        BY <1>1 DEF RequestStands, IsReplacing, WholeLists
    <2>3. WholeIn(roleRequest, seen, role)
        BY <1>3, <2>1, <2>2, WholeLess
    <2>4. SameRequests(roleRequest, roleRequest')
        BY <1>1, <1>4, SameByMoving
    <2>5. WholeIn(roleRequest', seen, role)
        <3> HIDE DEF seen
        <3>1. QED
            BY <1>3, <2>3, <2>4, WholeStays
    <2>6. QED
        BY <1>5, <2>5 DEF WholeLists
<1>7. RequestStands(q)'
    <2>1. SeenOrOverlapped(q)
        BY <1>1 DEF RequestStands, IsReplacing
    <2>2. SeenOrOverlapped(q)'
        BY <1>2, <1>5, <2>1 DEF SeenOrOverlapped
    <2>3. roleRequest'[q].seen \subseteq RoleRowOf(q).rows
        BY <1>5
    <2>4. QED
        BY <1>1, <1>5, <1>6, <2>2, <2>3 DEF RequestStands, IsReplacing, RoleAt
<1>8. ASSUME NEW p \in RoleRequests PROVE TheyOverlap(q, p)'
    <2>1. SUFFICES ASSUME p # q, roleRequest'[p].role = role, roleRequest'[p].pc \in {"deleting", "insert"}
                   PROVE  /\ {q, p} \in roleOverlaps
                          /\ roleRequest'[p].pc = "insert" => seen \cap roleRequest'[p].seen = {}
        BY <1>2, <1>5 DEF TheyOverlap, IsReplacing, RoleAt
    <2>2. roleRequest'[p] = roleRequest[p] /\ TheyOverlap(q, p)
        BY <1>4, <2>1 DEF RoleMoves, RoleInv
    <2>3. {q, p} \in roleOverlaps
        BY <1>1, <2>1, <2>2 DEF TheyOverlap, IsReplacing
    <2>4. p \in Replacing(role)
        BY <2>1, <2>2 DEF Replacing
    <2>5. QED
        BY <1>2, <2>2, <2>3, <2>4 DEF RoleAt
<1> HIDE DEF seen
<1>9. QED
    BY <1>1, <1>2, <1>4, <1>7, <1>8, RoleFrame DEF RoleInv, RoleTyped

LEMMA AuditRoleKeeps ==
    ASSUME RoleInv, NEW q \in RoleRequests, AuditRole(q)
    PROVE  RoleInv'
<1>1. RoleTyped /\ roleRequest[q].pc = "audit" /\ RequestStands(q) /\ RoleGoes(q, "done") /\ "done" \in RolePcs
    BY DEF RoleInv, AuditRole, RoleAt, RolePcs
<1>2. roleAudited' = roleAudited \cup {q} /\ UNCHANGED <<roleRow, roleOverlaps, roleFaults>>
    BY DEF AuditRole
<1>3. RoleMoves(q, "done", roleRequest[q].seen)
    BY <1>1, GoesMoves
<1>4. /\ roleRequest'[q].pc = "done" /\ RoleRowOf(q)' = RoleRowOf(q) /\ roleRequest'[q].op = roleRequest[q].op
    BY <1>2, <1>3 DEF RoleMoves, RoleRowOf
<1>5. RequestStands(q)' /\ ~ IsReplacing(q)'
    BY <1>1, <1>4 DEF RequestStands, IsReplacing, RoleAt
<1>6. roleAudited' \subseteq RoleRequests /\ roleAudited \subseteq roleAudited'
    BY <1>1, <1>2 DEF RoleTyped
<1>7. QED
    BY <1>1, <1>2, <1>3, <1>5, <1>6, NotReplacing, RoleFrame DEF RoleInv, RoleTyped

LEMMA RoleFaultKeeps ==
    ASSUME RoleInv, NEW q \in RoleRequests, RoleStatementFails(q)
    PROVE  RoleInv'
<1> DEFINE pc == IF roleRequest[q].pc = "audit" THEN "done" ELSE "failed"
<1>1. /\ RoleTyped /\ roleRequest[q].pc \notin {"done", "refused", "failed"} /\ RequestStands(q)
      /\ RoleGoes(q, pc) /\ pc \in RolePcs
    BY DEF RoleInv, RoleStatementFails, RoleAt, RolePcs
<1>2. roleFaults < MaxRoleFaults /\ roleFaults' = roleFaults + 1 /\ UNCHANGED <<roleRow, roleOverlaps, roleAudited>>
    BY DEF RoleStatementFails
<1>3. pc \in {"done", "failed"} /\ (roleRequest[q].pc \in {"audit", "done"} <=> pc = "done")
    BY <1>1
<1> HIDE DEF pc
<1>4. RoleMoves(q, pc, roleRequest[q].seen)
    BY <1>1, GoesMoves
<1>5. /\ roleRequest'[q].pc = pc /\ RoleRowOf(q)' = RoleRowOf(q) /\ roleRequest'[q].op = roleRequest[q].op
    BY <1>2, <1>4 DEF RoleMoves, RoleRowOf
<1>6. RequestStands(q)' /\ ~ IsReplacing(q)'
    BY <1>1, <1>3, <1>5 DEF RequestStands, IsReplacing, RoleAt
<1>7. roleFaults' \in 0..MaxRoleFaults
    BY <1>1, <1>2, RolesAssumption DEF RoleTyped
<1>8. roleAudited' \subseteq RoleRequests /\ roleOverlaps' \subseteq SUBSET RoleRequests
      /\ roleAudited \subseteq roleAudited' /\ roleOverlaps \subseteq roleOverlaps'
    BY <1>1, <1>2 DEF RoleTyped
<1>9. QED
    BY <1>1, <1>2, <1>3, <1>4, <1>6, <1>7, <1>8, NotReplacing, RoleFrame

RoleRecord == [state : {"unused", "kept", "deleted"}, rows : SUBSET PermissionRow]

\* What the row that q writes must leave of what the other requests have found.
OthersFind(q, role, new) ==
    \A p \in RoleRequests : p # q /\ roleRequest[p].role = role =>
        /\ IsReplacing(p) => \A row \in new.rows : row \in roleRequest[p].seen \/ {row[2], p} \in roleOverlaps
        /\ RoleAt(p, "insert") => roleRequest[p].seen \subseteq new.rows
        /\ roleRequest[p].op = "assign" /\ roleRequest[p].pc \in {"audit", "done"} /\ new.state = "kept"
               => new.rows # {}

RowsOverlapped(rows) ==
    \A row, other \in rows : row[2] # other[2] => {row[2], other[2]} \in roleOverlaps

LEMMA RoleWritten ==
    ASSUME RoleInv, NEW q \in RoleRequests, RoleMoves(q, "audit", roleRequest[q].seen),
           NEW new \in RoleRecord, roleRow' = [roleRow EXCEPT ![roleRequest[q].role] = new],
           UNCHANGED <<roleOverlaps, roleAudited, roleFaults>>,
           new.state # "unused", WholeIn(roleRequest', new.rows, roleRequest[q].role),
           RowsOverlapped(new.rows), OthersFind(q, roleRequest[q].role, new),
           roleRequest[q].op = "assign" /\ new.state = "kept" => new.rows # {}
    PROVE  RoleInv'
<1> DEFINE role == roleRequest[q].role
<1>1. RoleTyped /\ role \in Roles /\ roleRow \in [Roles -> RoleRecord]
    BY RoleRequestTyped DEF RoleInv, RoleTyped, RoleRecord
<1>2. SameRequests(roleRequest, roleRequest')
    BY SameByMoving
<1>3. RoleTyped'
    <2>1. roleRow' \in [Roles -> RoleRecord]
        BY <1>1
    <2>2. QED
        BY <1>1, <2>1 DEF RoleTyped, RoleMoves, RoleRecord
<1>4. roleRow'[role] = new /\ \A r \in Roles : r # role => roleRow'[r] = roleRow[r]
    BY <1>1
<1>5. /\ roleRequest'[q].pc = "audit" /\ roleRequest'[q].op = roleRequest[q].op /\ roleRequest'[q].role = role
      /\ \A p \in RoleRequests : p # q => roleRequest'[p] = roleRequest[p]
    BY DEF RoleMoves
<1>6. RequestStands(q)'
    <2>1. RoleRowOf(q)' = new
        BY <1>4, <1>5 DEF RoleRowOf
    <2>2. QED
        BY <1>5, <2>1 DEF RequestStands, IsReplacing, RoleAt
<1>7. ASSUME NEW p \in RoleRequests, p # q PROVE RequestStands(p)'
    <2>1. roleRequest'[p] = roleRequest[p] /\ RequestStands(p) /\ roleRequest[p].role \in Roles
        BY <1>1, <1>5, <1>7, RoleRequestTyped DEF RoleInv
    <2>2. roleRequest[p].seen \subseteq PermissionRow
        BY <1>1, RoleRequestTyped
    <2>3. IsReplacing(p) => WholeIn(roleRequest', roleRequest[p].seen, roleRequest[p].role)
        BY <1>2, <2>1, <2>2, WholeStays DEF WholeLists, RequestStands
    <2>4. CASE roleRequest[p].role # role
        <3>1. RoleRowOf(p)' = RoleRowOf(p)
            BY <1>4, <2>1, <2>4 DEF RoleRowOf
        <3>2. SeenOrOverlapped(p) => SeenOrOverlapped(p)'
            BY <2>1, <3>1 DEF SeenOrOverlapped
        <3>3. QED
            BY <2>1, <2>3, <3>1, <3>2 DEF RequestStands, IsReplacing, WholeLists, RoleAt
    <2>5. CASE roleRequest[p].role = role
        <3>1. RoleRowOf(p)' = new
            BY <1>4, <2>1, <2>5 DEF RoleRowOf
        <3>2. /\ IsReplacing(p) => \A row \in new.rows : row \in roleRequest[p].seen \/ {row[2], p} \in roleOverlaps
              /\ RoleAt(p, "insert") => roleRequest[p].seen \subseteq new.rows
              /\ roleRequest[p].op = "assign" /\ roleRequest[p].pc \in {"audit", "done"} /\ new.state = "kept"
                     => new.rows # {}
            BY <1>7, <2>5 DEF OthersFind
        <3>3. IsReplacing(p) => SeenOrOverlapped(p)'
            BY <2>1, <3>1, <3>2 DEF SeenOrOverlapped
        <3>4. QED
            BY <2>1, <2>3, <3>1, <3>2, <3>3 DEF RequestStands, IsReplacing, WholeLists, RoleAt
    <2>6. QED
        BY <2>4, <2>5
<1>8. ASSUME NEW p \in RoleRequests, NEW r \in RoleRequests PROVE TheyOverlap(p, r)'
    <2>1. CASE p = q \/ r = q
        BY <1>5, <2>1 DEF TheyOverlap, IsReplacing
    <2>2. CASE p # q /\ r # q
        <3>1. roleRequest'[p] = roleRequest[p] /\ roleRequest'[r] = roleRequest[r] /\ TheyOverlap(p, r)
            BY <1>5, <2>2 DEF RoleInv
        <3>2. QED
            BY <3>1 DEF TheyOverlap, IsReplacing, RoleAt
    <2>3. QED
        BY <2>1, <2>2
<1>9. ASSUME NEW r \in Roles PROVE WholeLists(roleRow[r].rows, r)' /\ WritersOverlapped(r)'
    <2>1. CASE r = role
        <3>1. roleRow'[r] = new /\ WholeIn(roleRequest', new.rows, r)
            BY <1>4, <2>1
        <3>2. QED
            BY <3>1 DEF WholeLists, WritersOverlapped, RowsOverlapped
    <2>2. CASE r # role
        <3>1. roleRow'[r] = roleRow[r] /\ roleRow[r].rows \subseteq PermissionRow
            BY <1>1, <1>4, <2>2 DEF RoleTyped
        <3>2. WholeIn(roleRequest, roleRow[r].rows, r) /\ WritersOverlapped(r)
            BY DEF RoleInv, WholeLists
        <3>3. WholeIn(roleRequest', roleRow[r].rows, r)
            BY <1>2, <3>1, <3>2, WholeStays
        <3>4. QED
            BY <3>1, <3>2, <3>3 DEF WholeLists, WritersOverlapped
    <2>3. QED
        BY <2>1, <2>2
<1>10. Cardinality(DoneUnaudited') <= roleFaults'
    BY <1>1, UnauditedStays DEF RoleTyped
<1>11. QED
    BY <1>3, <1>6, <1>7, <1>8, <1>9, <1>10 DEF RoleInv

\* A request that is refused or has failed has nothing to tell.
LEMMA EndKeeps ==
    ASSUME RoleInv, NEW q \in RoleRequests, NEW pc \in {"refused", "failed"}, RoleGoes(q, pc),
           roleRequest[q].pc \notin {"audit", "done"},
           UNCHANGED <<roleRow, roleOverlaps, roleAudited, roleFaults>>
    PROVE  RoleInv'
<1>1. RoleTyped /\ pc \in RolePcs /\ pc \notin {"audit", "done", "write", "keys", "replace", "deleting", "insert"}
    BY DEF RoleInv, RolePcs
<1>2. RoleMoves(q, pc, roleRequest[q].seen)
    BY <1>1, GoesMoves
<1>3. RequestStands(q)' /\ ~ IsReplacing(q)'
    BY <1>1, <1>2 DEF RoleMoves, RequestStands, IsReplacing, RoleAt
<1>4. QED
    BY <1>1, <1>2, <1>3, NotReplacing, RoleFrame DEF RoleInv, RoleTyped

LEMMA RoleRowFound ==
    ASSUME RoleInv, NEW q \in RoleRequests
    PROVE  /\ roleRow \in [Roles -> RoleRecord] /\ roleRequest[q].role \in Roles
           /\ RoleRowOf(q) = roleRow[roleRequest[q].role] /\ RoleRowOf(q) \in RoleRecord
           /\ WholeIn(roleRequest, RoleRowOf(q).rows, roleRequest[q].role)
           /\ RowsOverlapped(RoleRowOf(q).rows)
           /\ \A p \in RoleRequests : roleRequest[p].role = roleRequest[q].role => RoleRowOf(p) = RoleRowOf(q)
<1>1. /\ roleRow \in [Roles -> RoleRecord] /\ roleRequest[q].role \in Roles
      /\ RoleRowOf(q) = roleRow[roleRequest[q].role] /\ RoleRowOf(q) \in RoleRecord
    BY RoleRequestTyped DEF RoleInv, RoleTyped, RoleRecord, RoleRowOf
<1>2. WholeIn(roleRequest, RoleRowOf(q).rows, roleRequest[q].role) /\ RowsOverlapped(RoleRowOf(q).rows)
    BY <1>1 DEF RoleInv, WholeLists, WritersOverlapped, RowsOverlapped
<1>3. QED
    BY <1>1, <1>2 DEF RoleRowOf

LEMMA CreateRoleKeeps ==
    ASSUME RoleInv, NEW q \in RoleRequests, CreateRole(q)
    PROVE  RoleInv'
<1>1. /\ RoleTyped /\ roleRequest[q].pc = "new" /\ roleRequest[q].op = "create" /\ RoleRowOf(q).state = "unused"
      /\ UNCHANGED <<roleOverlaps, roleAudited, roleFaults>>
    BY DEF RoleInv, CreateRole, RoleAt
<1>2. CASE RoleGoes(q, "refused") /\ UNCHANGED roleRow
    BY <1>1, <1>2, EndKeeps
<1>3. CASE roleRow' = [roleRow EXCEPT ![roleRequest[q].role].state = "kept"] /\ RoleGoes(q, "audit")
    <2> DEFINE role == roleRequest[q].role
               new == [RoleRowOf(q) EXCEPT !.state = "kept"]
    <2>1. /\ roleRow \in [Roles -> RoleRecord] /\ role \in Roles /\ RoleRowOf(q) = roleRow[role]
          /\ RoleRowOf(q) \in RoleRecord /\ WholeIn(roleRequest, RoleRowOf(q).rows, role)
          /\ RowsOverlapped(RoleRowOf(q).rows)
          /\ \A p \in RoleRequests : roleRequest[p].role = role => RoleRowOf(p) = RoleRowOf(q)
        BY RoleRowFound
    <2>2. new \in RoleRecord /\ new.state = "kept" /\ new.rows = RoleRowOf(q).rows
        BY <2>1 DEF RoleRecord
    <2>3. roleRow' = [roleRow EXCEPT ![role] = new]
        BY <1>3, <2>1
    <2>4. RoleMoves(q, "audit", roleRequest[q].seen)
        BY <1>1, <1>3, GoesMoves DEF RolePcs
    <2>5. WholeIn(roleRequest', new.rows, role)
        <3>1. SameRequests(roleRequest, roleRequest')
            BY <1>1, <2>4, SameByMoving
        <3>2. RoleRowOf(q).rows \subseteq PermissionRow
            BY <2>1 DEF RoleRecord
        <3>3. WholeIn(roleRequest', RoleRowOf(q).rows, role)
            BY <2>1, <3>1, <3>2, WholeStays
        <3>4. QED
            BY <2>2, <3>3
    <2>6. OthersFind(q, role, new)
        <3>1. SUFFICES ASSUME NEW p \in RoleRequests, p # q, roleRequest[p].role = role
                       PROVE  /\ IsReplacing(p) => \A row \in new.rows :
                                     row \in roleRequest[p].seen \/ {row[2], p} \in roleOverlaps
                              /\ RoleAt(p, "insert") => roleRequest[p].seen \subseteq new.rows
                              /\ ~ (roleRequest[p].op = "assign" /\ roleRequest[p].pc \in {"audit", "done"})
            BY DEF OthersFind
        <3>2. RequestStands(p) /\ RoleRowOf(p) = RoleRowOf(q)
            BY <2>1, <3>1 DEF RoleInv
        <3>3. QED
            BY <1>1, <2>2, <3>2 DEF RequestStands, SeenOrOverlapped
    <2>7. RowsOverlapped(new.rows)
        BY <2>1, <2>2
    <2> HIDE DEF new
    <2>8. QED
        BY <1>1, <2>2, <2>3, <2>4, <2>5, <2>6, <2>7, RoleWritten
<1>4. QED
    BY <1>2, <1>3 DEF CreateRole

LEMMA WriteRoleKeeps ==
    ASSUME RoleInv, NEW q \in RoleRequests, WriteRole(q)
    PROVE  RoleInv'
<1> DEFINE role == roleRequest[q].role
           deleted == [state |-> "deleted", rows |-> {}]
<1>1. /\ RoleTyped /\ roleRequest[q].pc = "write" /\ roleRequest[q].op # "assign"
      /\ UNCHANGED <<roleOverlaps, roleAudited, roleFaults>>
    BY DEF RoleInv, WriteRole, RoleAt, RequestStands
<1>2. CASE RoleRowOf(q).state # "kept"
    <2>1. RoleGoes(q, "failed") /\ UNCHANGED roleRow
        BY <1>2 DEF WriteRole
    <2>2. QED
        BY <1>1, <2>1, EndKeeps
<1>3. CASE RoleRowOf(q).state = "kept" /\ roleRequest[q].op # "delete"
    <2>1. RoleGoes(q, "audit") /\ UNCHANGED roleRow
        BY <1>3 DEF WriteRole
    <2>2. RoleMoves(q, "audit", roleRequest[q].seen)
        BY <1>1, <2>1, GoesMoves DEF RolePcs
    <2>3. RequestStands(q)' /\ ~ IsReplacing(q)'
        BY <1>1, <2>2 DEF RoleMoves, RequestStands, IsReplacing, RoleAt
    <2>4. QED
        BY <1>1, <2>1, <2>2, <2>3, NotReplacing, RoleFrame DEF RoleInv, RoleTyped
<1>4. CASE RoleRowOf(q).state = "kept" /\ roleRequest[q].op = "delete"
    <2>1. /\ RoleGoes(q, "audit") /\ roleRow' = [roleRow EXCEPT ![role] = deleted]
          /\ \A p \in RoleRequests : ~(RoleAt(p, "insert") /\ roleRequest[p].role = role
                                       /\ roleRequest[p].seen # {})
        BY <1>4 DEF WriteRole
    <2>2. RoleMoves(q, "audit", roleRequest[q].seen)
        BY <1>1, <2>1, GoesMoves DEF RolePcs
    <2>3. deleted \in RoleRecord /\ deleted.state = "deleted" /\ deleted.rows = {}
        BY DEF RoleRecord
    <2> HIDE DEF deleted
    <2>4. WholeIn(roleRequest', deleted.rows, role) /\ RowsOverlapped(deleted.rows)
        BY <2>3 DEF WholeIn, RowsOverlapped
    <2>5. OthersFind(q, role, deleted)
        BY <2>1, <2>3 DEF OthersFind
    <2>6. QED
        BY <1>1, <2>1, <2>2, <2>3, <2>4, <2>5, RoleWritten
<1>5. QED
    BY <1>2, <1>3, <1>4

LEMMA InsertPermissionsKeeps ==
    ASSUME RoleInv, NEW q \in RoleRequests, InsertPermissions(q)
    PROVE  RoleInv'
<1> DEFINE role == roleRequest[q].role
           asked == Range(roleRequest[q].asked)
           left == RoleRowOf(q).rows \ roleRequest[q].seen
           refused == RoleRowOf(q).state # "kept" \/ \E row \in left : row[1] \in asked
           rows == left \cup (asked \X {q})
           new == [RoleRowOf(q) EXCEPT !.rows = rows]
<1>1. /\ RoleTyped /\ roleRequest[q].pc = "insert" /\ RequestStands(q)
      /\ UNCHANGED <<roleOverlaps, roleAudited, roleFaults>>
    BY DEF RoleInv, InsertPermissions, RoleAt
<1>2. CASE refused
    <2>1. RoleGoes(q, "failed") /\ UNCHANGED roleRow
        BY <1>2 DEF InsertPermissions
    <2>2. QED
        BY <1>1, <2>1, EndKeeps
<1>3. CASE ~ refused
    <2>1. /\ RoleGoes(q, "audit") /\ roleRow' = [roleRow EXCEPT ![role].rows = rows]
        BY <1>3 DEF InsertPermissions
    <2>2. /\ roleRow \in [Roles -> RoleRecord] /\ role \in Roles /\ RoleRowOf(q) = roleRow[role]
          /\ RoleRowOf(q) \in RoleRecord /\ WholeIn(roleRequest, RoleRowOf(q).rows, role)
          /\ RowsOverlapped(RoleRowOf(q).rows)
          /\ \A p \in RoleRequests : roleRequest[p].role = role => RoleRowOf(p) = RoleRowOf(q)
        BY RoleRowFound
    <2>3. RoleRowOf(q).rows \subseteq PermissionRow /\ left \subseteq PermissionRow
        BY <2>2 DEF RoleRecord
    <2>4. rows \subseteq PermissionRow /\ asked \subseteq Catalog
        <3>1. asked \subseteq Catalog
            BY <1>1 DEF RequestStands
        <3>2. QED
            BY <2>3, <3>1 DEF PermissionRow
    <2>5. new \in RoleRecord /\ new.state = "kept" /\ new.rows = rows
        <3> HIDE DEF rows
        <3>1. QED
            BY <1>3, <2>2, <2>4 DEF RoleRecord
    <2>6. roleRow' = [roleRow EXCEPT ![role] = new]
        <3> HIDE DEF rows
        <3>1. QED
            BY <2>1, <2>2
    <2>7. RoleMoves(q, "audit", roleRequest[q].seen)
        BY <1>1, <2>1, GoesMoves DEF RolePcs
    <2>8. WholeIn(roleRequest', rows, role)
        <3>1. WholeIn(roleRequest, roleRequest[q].seen, role)
            BY <1>1 DEF RequestStands, IsReplacing, WholeLists
        <3>2. WholeIn(roleRequest, left, role)
            BY <2>2, <2>3, <3>1, WholeLess
        <3>3. SameRequests(roleRequest, roleRequest')
            BY <1>1, <2>7, SameByMoving
        <3>4. WholeIn(roleRequest', left, role)
            <4> HIDE DEF left
            <4>1. QED
                BY <2>3, <3>2, <3>3, WholeStays
        <3>5. roleRequest'[q].role = role /\ roleRequest'[q].pc = "audit"
              /\ Range(roleRequest'[q].asked) = asked
            BY <2>7 DEF RoleMoves
        <3>6. ASSUME NEW row \in rows
              PROVE  /\ roleRequest'[row[2]].role = role /\ roleRequest'[row[2]].pc \in {"audit", "done"}
                     /\ row[1] \in Range(roleRequest'[row[2]].asked)
                     /\ \A key \in Range(roleRequest'[row[2]].asked) : <<key, row[2]>> \in rows
            <4> HIDE DEF left, asked
            <4>1. CASE row \in left
                BY <3>4, <4>1 DEF WholeIn
            <4>2. CASE row \in asked \X {q}
                <5>1. row[2] = q /\ row[1] \in asked /\ \A key \in asked : <<key, q>> \in asked \X {q}
                    BY <4>2
                <5>2. QED
                    BY <3>5, <5>1
            <4>3. QED
                BY <4>1, <4>2
        <3>7. QED
            BY <3>6 DEF WholeIn
    <2>9. RowsOverlapped(rows)
        <3>1. SUFFICES ASSUME NEW row \in rows, NEW other \in rows, row[2] # other[2]
                       PROVE  {row[2], other[2]} \in roleOverlaps
            BY DEF RowsOverlapped
        <3>2. SeenOrOverlapped(q)
            BY <1>1 DEF RequestStands, IsReplacing
        <3>3. \A r \in left : {r[2], q} \in roleOverlaps
            BY <3>2 DEF SeenOrOverlapped
        <3>4. \A r \in rows : r \in left \/ r[2] = q
            OBVIOUS
        <3>5. \A r \in left : r \in RoleRowOf(q).rows
            OBVIOUS
        <3> HIDE DEF left, rows
        <3>6. CASE row[2] = q
            <4>1. {other[2], q} \in roleOverlaps /\ {row[2], other[2]} = {other[2], q}
                BY <3>1, <3>3, <3>4, <3>6
            <4>2. QED
                BY <4>1
        <3>7. CASE other[2] = q
            BY <3>1, <3>3, <3>4, <3>7
        <3>8. CASE row[2] # q /\ other[2] # q
            BY <2>2, <3>1, <3>4, <3>5, <3>8 DEF RowsOverlapped
        <3>9. QED
            BY <3>6, <3>7, <3>8
    <2>10. asked # {} /\ rows # {}
        <3>1. roleRequest[q].asked \in KeyLists
            BY <1>1, RoleRequestTyped
        <3>2. roleRequest[q].asked \in Seq(asked) /\ roleRequest[q].asked # <<>>
            BY <3>1, RolesAssumption
        <3>3. roleRequest[q].asked[1] \in asked
            BY <3>2
        <3> HIDE DEF asked, left
        <3>4. <<roleRequest[q].asked[1], q>> \in rows
            BY <3>3
        <3>5. QED
            BY <3>3, <3>4
    <2>11. OthersFind(q, role, new)
        <3>1. SUFFICES ASSUME NEW p \in RoleRequests, p # q, roleRequest[p].role = role
                       PROVE  /\ IsReplacing(p) => \A row \in rows :
                                     row \in roleRequest[p].seen \/ {row[2], p} \in roleOverlaps
                              /\ RoleAt(p, "insert") => roleRequest[p].seen \subseteq rows
            BY <2>5, <2>10 DEF OthersFind
        <3>2. RequestStands(p) /\ RoleRowOf(p) = RoleRowOf(q) /\ TheyOverlap(q, p)
            BY <2>2, <3>1 DEF RoleInv
        <3>3. ASSUME IsReplacing(p), NEW row \in rows
              PROVE  row \in roleRequest[p].seen \/ {row[2], p} \in roleOverlaps
            <4>1. CASE row \in left
                BY <3>2, <3>3, <4>1 DEF RequestStands, SeenOrOverlapped
            <4>2. CASE row[2] = q
                BY <1>1, <3>1, <3>2, <3>3, <4>2 DEF TheyOverlap, IsReplacing
            <4>3. QED
                BY <4>1, <4>2
        <3>4. ASSUME RoleAt(p, "insert") PROVE roleRequest[p].seen \subseteq rows
            <4>1. roleRequest[p].seen \subseteq RoleRowOf(q).rows
                BY <3>2, <3>4 DEF RequestStands
            <4>2. roleRequest[q].seen \cap roleRequest[p].seen = {}
                BY <1>1, <3>1, <3>2, <3>4 DEF TheyOverlap, IsReplacing, RoleAt
            <4>3. QED
                BY <4>1, <4>2
        <3>5. QED
            BY <3>3, <3>4
    <2> HIDE DEF new, rows
    <2>12. QED
        BY <1>1, <2>5, <2>6, <2>7, <2>8, <2>9, <2>10, <2>11, RoleWritten
<1>4. QED
    BY <1>2, <1>3

LEMMA RolesInitially == RoleInit => RoleInv
<1>1. SUFFICES ASSUME RoleInit PROVE RoleInv
    OBVIOUS
<1>2. /\ roleRow \in [Roles -> [state : {"unused", "kept"}, rows : {{}}]]
      /\ roleRequest \in [RoleRequests ->
             [op : {"create", "rename", "delete", "assign"}, pc : {"new"},
              role : Roles, asked : KeyLists, seen : {{}}]]
      /\ roleOverlaps = {} /\ roleAudited = {} /\ roleFaults = 0
    BY <1>1 DEF RoleInit
<1>3. RoleTyped
    <2>1. ASSUME NEW q \in RoleRequests PROVE roleRequest[q] \in RoleRequest
        BY <1>2 DEF RoleRequest, RolePcs, RoleOps
    <2>2. ASSUME NEW role \in Roles
          PROVE  roleRow[role] \in [state : {"unused", "kept", "deleted"}, rows : SUBSET PermissionRow]
        BY <1>2
    <2>3. QED
        BY <1>2, <2>1, <2>2, RolesAssumption DEF RoleTyped
<1>4. \A q \in RoleRequests : roleRequest[q].pc = "new"
    BY <1>2
<1>5. \A q \in RoleRequests : RequestStands(q)
    BY <1>4 DEF RequestStands, IsReplacing, RoleAt
<1>6. \A p, q \in RoleRequests : TheyOverlap(p, q)
    BY <1>4 DEF TheyOverlap, IsReplacing
<1>7. \A role \in Roles : WholeLists(roleRow[role].rows, role) /\ WritersOverlapped(role)
    <2>1. \A role \in Roles : roleRow[role].rows = {}
        BY <1>2
    <2>2. QED
        BY <2>1 DEF WholeLists, WholeIn, WritersOverlapped
<1>8. DoneUnaudited = {}
    BY <1>4 DEF DoneUnaudited, RoleAt
<1>9. QED
    BY <1>2, <1>3, <1>5, <1>6, <1>7, <1>8, FS_EmptySet DEF RoleInv

LEMMA RolesStep == RoleInv /\ [RoleNext]_roleVars => RoleInv'
<1>1. SUFFICES ASSUME RoleInv, [RoleNext]_roleVars PROVE RoleInv'
    OBVIOUS
<1>2. CASE UNCHANGED roleVars
    BY <1>1, <1>2 DEF roleVars, RoleInv, RoleTyped, RequestStands, TheyOverlap, WholeLists, WritersOverlapped,
                      DoneUnaudited, IsReplacing, SeenOrOverlapped, RoleAt, RoleRowOf
<1>3. ASSUME NEW q \in RoleRequests,
             \/ CreateRole(q) \/ FindRole(q) \/ WriteRole(q) \/ FindKeys(q)
             \/ BeginReplace(q) \/ DeletePermissions(q) \/ InsertPermissions(q)
             \/ AuditRole(q) \/ RoleStatementFails(q)
      PROVE  RoleInv'
    BY <1>1, <1>3, CreateRoleKeeps, FindRoleKeeps, WriteRoleKeeps, FindKeysKeeps, BeginReplaceKeeps,
       DeletePermissionsKeeps, InsertPermissionsKeeps, AuditRoleKeeps, RoleFaultKeeps
<1>4. QED
    BY <1>1, <1>2, <1>3 DEF RoleNext

LEMMA RolesTell == RoleInv => RolesKept
<1>1. SUFFICES ASSUME RoleInv PROVE RolesKept
    OBVIOUS
<1>2. RoleTyped
    BY <1>1 DEF RoleInv
<1>3. ASSUME NEW role \in Roles, NEW q \in WritersOf(role)
      PROVE  {row[1] : row \in {r \in roleRow[role].rows : r[2] = q}} = Range(roleRequest[q].asked)
    <2>1. WholeIn(roleRequest, roleRow[role].rows, role)
        BY <1>1 DEF RoleInv, WholeLists
    <2>2. PICK own \in roleRow[role].rows : own[2] = q
        BY <1>3 DEF WritersOf
    <2>3. \A row \in roleRow[role].rows : row[2] = q => row[1] \in Range(roleRequest[q].asked)
        BY <2>1 DEF WholeIn
    <2>4. ASSUME NEW key \in Range(roleRequest[q].asked)
          PROVE  \E row \in roleRow[role].rows : row[2] = q /\ row[1] = key
        <3>1. <<key, q>> \in roleRow[role].rows
            BY <2>1, <2>2 DEF WholeIn
        <3>2. <<key, q>>[2] = q /\ <<key, q>>[1] = key
            OBVIOUS
        <3>3. QED
            BY <3>1, <3>2
    <2>5. QED
        BY <2>3, <2>4
<1>4. ASSUME NEW role \in Roles, NEW p \in WritersOf(role), NEW q \in WritersOf(role), p # q
      PROVE  \E S \in roleOverlaps : q \in S /\ S # {q} /\ \E other \in WritersOf(role) : other \in S \ {q}
    <2>1. {p, q} \in roleOverlaps
        BY <1>1, <1>4 DEF RoleInv, WritersOverlapped, WritersOf
    <2>2. p \in {p, q} \ {q} /\ q \in {p, q} /\ {p, q} # {q}
        BY <1>4
    <2>3. QED
        BY <1>4, <2>1, <2>2
<1>5. ASSUME NEW q \in RoleRequests, roleRequest[q].op = "assign", RoleAt(q, "done"), RoleRowOf(q).state = "kept"
      PROVE  KeysOf(roleRequest[q].role) # {}
    <2>1. RoleRowOf(q).rows # {}
        BY <1>1, <1>5 DEF RoleInv, RequestStands, RoleAt
    <2>2. PICK row \in roleRow[roleRequest[q].role].rows : TRUE
        BY <2>1 DEF RoleRowOf
    <2>3. row[1] \in KeysOf(roleRequest[q].role)
        BY <2>2 DEF KeysOf
    <2>4. QED
        BY <2>3
<1>6. Cardinality({q \in RoleRequests : RoleAt(q, "done")} \ roleAudited) <= roleFaults
    BY <1>1 DEF RoleInv, DoneUnaudited
<1>7. QED
    BY <1>3, <1>4, <1>5, <1>6 DEF RolesKept

\* For any roles, keys and requests: a role holds whole lists of permissions, of two
\* requests only if the transactions of assignPermissions overlapped (at READ COMMITTED
\* deleteMany does not see what is inserted after its snapshot); a kept role that was
\* given permissions has some; and what was done is audited, but for the faults.
THEOREM RolesAreKept == RoleSpec => []RolesKept
<1>1. RoleInv /\ [RoleNext]_roleVars => RoleInv'
    BY RolesStep
<1>2. RoleSpec => []RoleInv
    BY RolesInitially, <1>1, PTL DEF RoleSpec
<1>3. QED
    BY <1>2, RolesTell, PTL

-----------------------------------------------------------------------------
(* API keys *)

\* A use is let in at a time at which the key had not expired.
UsesInTime ==
    \A q \in KeyRequests :
        /\ keyRequest[q].at <= keyNow
        /\ keyRow.expires # 0 => keyRequest[q].at < keyRow.expires
        /\ KeyAt(q, "new") \/ keyRow.state = "absent" => keyRequest[q].at = 0

\* Whoever came while a last use was still to be written has been paired with it.
LaterUsesPaired ==
    \A q \in keyTouch, r \in KeyRequests :
        keyRequest[q].at < keyRequest[r].at => {q, r} \in keyTogether

PairsUsed ==
    /\ \A q \in keyTouch : keyRequest[q].at > 0
    /\ \A S \in keyTogether : \A q \in S : keyRequest[q].at > 0

UsedTold ==
    \A q \in KeyRequests \ (keyTouch \cup keyUntold) :
        \/ keyRow.used >= keyRequest[q].at
        \/ \E p \in KeyRequests : {p, q} \in keyTogether /\ keyRequest[p].at = keyRow.used

\* Who is about to write has found the key.
KeyFound ==
    \A q \in KeyRequests :
        /\ keyRequest[q].pc \in {"again", "write"} => keyRow.state # "absent"
        /\ keyRequest[q].pc = "again" => keyRequest[q].kind = "delete"
        /\ keyRequest[q].pc = "write" => keyRequest[q].kind \in {"revoke", "delete"}

KeyFailures == {q \in KeyRequests : KeyAt(q, "failed")}

KeyChangesDone == {q \in KeyRequests : KeyAt(q, "done") /\ keyRequest[q].kind \in {"create", "revoke"}}

KeyUntoldChanges == KeyChangesDone \ (keyOwed \cup keyTold)

UsePart ==
    /\ UsesInTime /\ LaterUsesPaired /\ PairsUsed
    /\ keyRow.state = "absent" => keyRow.used = 0 /\ keyRow.expires = 0
    /\ keyRow.expires # 0 => keyRow.used < keyRow.expires
    /\ KeyStored => UsedTold

CountPart ==
    /\ keyRow.state # "deleted" => Cardinality(KeyFailures) <= keyFaults
    /\ Cardinality(KeyUntoldChanges) <= keyFaults

KeyInv == KeysTypeOK /\ UsePart /\ KeyFound /\ CountPart

LEMMA KeyRequestTyped ==
    ASSUME KeysTypeOK, NEW q \in KeyRequests
    PROVE  /\ keyRequest \in [KeyRequests -> KeyRequest] /\ keyRequest[q] \in KeyRequest
           /\ keyRequest[q].at \in 0..MaxKeyTime /\ keyRequest[q].at \in Nat
           /\ keyRequest[q].kind \in {"create", "use", "revoke", "delete"}
           /\ keyRequest[q].pc \in {"new", "write", "again", "done", "refused", "failed"}
           /\ keyNow \in Nat /\ keyRow \in KeyRow /\ keyRow.used \in Nat /\ keyRow.expires \in Nat
<1>1. keyRequest[q] \in KeyRequest /\ keyRow \in KeyRow
    BY DEF KeysTypeOK
<1>2. keyRequest[q].at \in 0..MaxKeyTime /\ keyRow.used \in 0..MaxKeyTime /\ keyRow.expires \in 0..MaxKeyTime
    BY <1>1 DEF KeyRequest, KeyRow
<1>3. QED
    BY <1>1, <1>2, KeyAssumption DEF KeysTypeOK, KeyRequest

\* One request goes on.
KeyMoves(q, pc, at) ==
    /\ keyRequest' \in [KeyRequests -> KeyRequest]
    /\ keyRequest'[q].pc = pc /\ keyRequest'[q].at = at /\ keyRequest'[q].kind = keyRequest[q].kind
    /\ \A p \in KeyRequests : p # q => keyRequest'[p] = keyRequest[p]

LEMMA KeyGoesMoves ==
    ASSUME KeysTypeOK, NEW q \in KeyRequests, KeyGoes(q, "done") \/ KeyGoes(q, "refused") \/ KeyGoes(q, "failed")
                                              \/ KeyGoes(q, "write") \/ KeyGoes(q, "again")
    PROVE  \E pc \in {"done", "refused", "failed", "write", "again"} :
               KeyGoes(q, pc) /\ KeyMoves(q, pc, keyRequest[q].at)
<1>1. PICK pc \in {"done", "refused", "failed", "write", "again"} : KeyGoes(q, pc)
    OBVIOUS
<1>2. keyRequest' = [keyRequest EXCEPT ![q].pc = pc]
    BY <1>1 DEF KeyGoes
<1>3. keyRequest \in [KeyRequests -> KeyRequest] /\ keyRequest[q] \in KeyRequest
    BY KeyRequestTyped
<1>4. [keyRequest[q] EXCEPT !.pc = pc] \in KeyRequest
    BY <1>3 DEF KeyRequest
<1>5. KeyMoves(q, pc, keyRequest[q].at)
    BY <1>2, <1>3, <1>4 DEF KeyMoves, KeyRequest
<1>6. QED
    BY <1>1, <1>5

\* A step that lets nobody in and writes no last use.
NoUse ==
    /\ \A q \in KeyRequests : /\ keyRequest'[q].at = keyRequest[q].at
                              /\ keyRequest'[q].pc = "new" => keyRequest[q].pc = "new"
    /\ keyRow'.used = keyRow.used /\ keyRow'.expires = keyRow.expires
    /\ keyRow'.state = "absent" <=> keyRow.state = "absent"
    /\ KeyStored' => KeyStored
    /\ keyTouch' \subseteq keyTouch /\ keyTouch \cup keyUntold \subseteq keyTouch' \cup keyUntold'
    /\ UNCHANGED keyTogether /\ keyNow' \in Nat /\ keyNow <= keyNow'

LEMMA UseStays ==
    ASSUME KeyInv, NoUse
    PROVE  UsePart'
<1>1. KeysTypeOK /\ UsePart
    BY DEF KeyInv
<1>2. keyTouch \subseteq KeyRequests
    BY <1>1 DEF KeysTypeOK
<1>3. UsesInTime'
    <2>1. SUFFICES ASSUME NEW q \in KeyRequests
                   PROVE  /\ keyRequest'[q].at <= keyNow'
                          /\ keyRow'.expires # 0 => keyRequest'[q].at < keyRow'.expires
                          /\ KeyAt(q, "new")' \/ keyRow'.state = "absent" => keyRequest'[q].at = 0
        BY DEF UsesInTime
    <2>2. keyRequest[q].at \in Nat /\ keyNow \in Nat
        BY <1>1, KeyRequestTyped
    <2>3. QED
        BY <1>1, <2>2 DEF NoUse, UsePart, UsesInTime, KeyAt
<1>4. LaterUsesPaired'
    BY <1>1, <1>2 DEF NoUse, UsePart, LaterUsesPaired
<1>5. PairsUsed'
    <2>1. /\ \A S \in keyTogether : \A q \in S : q \in KeyRequests
          /\ \A q \in keyTouch : q \in KeyRequests
        BY <1>1 DEF KeysTypeOK
    <2>2. QED
        BY <1>1, <2>1 DEF NoUse, UsePart, PairsUsed
<1>6. KeyStored' => UsedTold'
    <2>1. SUFFICES ASSUME KeyStored', NEW q \in KeyRequests \ (keyTouch' \cup keyUntold')
                   PROVE  \/ keyRow'.used >= keyRequest'[q].at
                          \/ \E p \in KeyRequests : {p, q} \in keyTogether' /\ keyRequest'[p].at = keyRow'.used
        BY DEF UsedTold
    <2>2. KeyStored /\ q \in KeyRequests \ (keyTouch \cup keyUntold)
        BY <2>1 DEF NoUse
    <2>3. \/ keyRow.used >= keyRequest[q].at
          \/ \E p \in KeyRequests : {p, q} \in keyTogether /\ keyRequest[p].at = keyRow.used
        BY <1>1, <2>2 DEF UsePart, UsedTold
    <2>4. QED
        BY <2>3 DEF NoUse
<1>7. QED
    BY <1>1, <1>3, <1>4, <1>5, <1>6 DEF UsePart, NoUse

\* A fault accounts for one failure and for one record that is missing.
LEMMA CountsStay ==
    ASSUME KeyInv, NEW q \in KeyRequests, keyFaults' \in 0..MaxKeyFaults,
           keyRow'.state # "deleted" => keyRow.state # "deleted",
           \/ /\ keyFaults' = keyFaults /\ KeyUntoldChanges' \subseteq KeyUntoldChanges
              /\ KeyFailures' \subseteq KeyFailures \/ keyRow'.state = "deleted"
           \/ /\ keyFaults' = keyFaults + 1 /\ KeyUntoldChanges' \subseteq KeyUntoldChanges \cup {q}
              /\ KeyFailures' \subseteq KeyFailures \cup {q}
    PROVE  CountPart'
<1>1. IsFiniteSet(KeyUntoldChanges) /\ IsFiniteSet(KeyFailures)
    <2>1. KeyUntoldChanges \subseteq KeyRequests /\ KeyFailures \subseteq KeyRequests
        BY DEF KeyUntoldChanges, KeyChangesDone, KeyFailures
    <2>2. QED
        BY <2>1, KeyAssumption, FS_Subset
<1>2. keyFaults \in Nat /\ CountPart
    BY KeyAssumption DEF KeyInv, KeysTypeOK
<1>3. CASE /\ keyFaults' = keyFaults /\ KeyUntoldChanges' \subseteq KeyUntoldChanges
           /\ KeyFailures' \subseteq KeyFailures \/ keyRow'.state = "deleted"
    <2>1. Cardinality(KeyUntoldChanges') \in Nat /\ Cardinality(KeyUntoldChanges) \in Nat
          /\ Cardinality(KeyUntoldChanges') <= Cardinality(KeyUntoldChanges)
        BY <1>1, <1>3, PartCounted
    <2>2. KeyFailures' \subseteq KeyFailures =>
              /\ Cardinality(KeyFailures') \in Nat /\ Cardinality(KeyFailures) \in Nat
              /\ Cardinality(KeyFailures') <= Cardinality(KeyFailures)
        BY <1>1, PartCounted
    <2>3. QED
        BY <1>2, <1>3, <2>1, <2>2 DEF CountPart
<1>4. CASE /\ keyFaults' = keyFaults + 1 /\ KeyUntoldChanges' \subseteq KeyUntoldChanges \cup {q}
           /\ KeyFailures' \subseteq KeyFailures \cup {q}
    <2>1. Cardinality(KeyUntoldChanges') \in Nat /\ Cardinality(KeyUntoldChanges) \in Nat
          /\ Cardinality(KeyUntoldChanges') <= Cardinality(KeyUntoldChanges) + 1
        BY <1>1, <1>4, OneMoreCounted
    <2>2. Cardinality(KeyFailures') \in Nat /\ Cardinality(KeyFailures) \in Nat
          /\ Cardinality(KeyFailures') <= Cardinality(KeyFailures) + 1
        BY <1>1, <1>4, OneMoreCounted
    <2>3. QED
        BY <1>2, <1>4, <2>1, <2>2 DEF CountPart
<1>5. QED
    BY <1>3, <1>4

LEMMA CreateKeyKeeps ==
    ASSUME KeyInv, NEW q \in KeyRequests, CreateKey(q)
    PROVE  KeyInv'
<1>1. /\ KeysTypeOK /\ UsePart /\ KeyFound /\ CountPart
      /\ keyRequest[q].pc = "new" /\ keyRow.state = "absent" /\ keyOwed' = keyOwed \cup {q}
      /\ UNCHANGED <<keyTouch, keyTold, keyNow, keyFaults, keyUntold, keyTogether>>
    BY DEF KeyInv, CreateKey, KeyAt
<1>2. PICK expires \in 0..MaxKeyTime : keyRow' = [NoKey EXCEPT !.state = "active", !.expires = expires]
    BY DEF CreateKey
<1>3. keyRow' \in KeyRow /\ keyRow'.state = "active" /\ keyRow'.used = 0 /\ keyRow'.expires = expires
    <2>1. keyRow' = [state |-> "active", used |-> 0, expires |-> expires]
        BY <1>2 DEF NoKey
    <2>2. 0 \in 0..MaxKeyTime
        BY KeyAssumption
    <2>3. QED
        BY <2>1, <2>2 DEF KeyRow
<1>4. KeyMoves(q, "done", keyRequest[q].at)
    <2>1. KeyGoes(q, "done")
        BY DEF CreateKey
    <2>2. PICK pc \in {"done", "refused", "failed", "write", "again"} :
              KeyGoes(q, pc) /\ KeyMoves(q, pc, keyRequest[q].at)
        BY <1>1, <2>1, KeyGoesMoves
    <2>3. pc = "done"
        BY <1>1, <2>1, <2>2, KeyRequestTyped DEF KeyGoes, KeyMoves, KeyRequest
    <2>4. QED
        BY <2>2, <2>3
<1>5. KeysTypeOK'
    BY <1>1, <1>3, <1>4 DEF KeysTypeOK, KeyMoves
<1>6. \A p \in KeyRequests : keyRequest[p].at = 0 /\ keyRequest'[p].at = 0
    BY <1>1, <1>4 DEF UsePart, UsesInTime, KeyMoves
<1>7. UsePart'
    <2>1. keyNow' \in Nat /\ expires \in Nat
        BY <1>1, KeyRequestTyped, KeyAssumption
    <2>2. UsesInTime'
        BY <1>3, <1>6, <2>1 DEF UsesInTime
    <2>3. LaterUsesPaired'
        BY <1>1, <1>6 DEF LaterUsesPaired, KeysTypeOK
    <2>4. PairsUsed'
        <3>1. \A S \in keyTogether \cup {keyTouch} : \A p \in S : p \in KeyRequests
            BY <1>1 DEF KeysTypeOK
        <3>2. QED
            BY <1>1, <1>6, <3>1 DEF PairsUsed, UsePart
    <2>5. UsedTold'
        BY <1>3, <1>6 DEF UsedTold
    <2>6. QED
        BY <1>3, <2>1, <2>2, <2>3, <2>4, <2>5 DEF UsePart
<1>8. KeyFound'
    BY <1>1, <1>3, <1>4 DEF KeyFound, KeyMoves
<1>9. CountPart'
    <2>1. KeyUntoldChanges' \subseteq KeyUntoldChanges
        BY <1>1, <1>4 DEF KeyUntoldChanges, KeyChangesDone, KeyAt, KeyMoves
    <2>2. KeyFailures' \subseteq KeyFailures
        BY <1>4 DEF KeyFailures, KeyAt, KeyMoves
    <2>3. QED
        BY <1>1, <2>1, <2>2, CountsStay DEF KeysTypeOK
<1>10. QED
    BY <1>5, <1>7, <1>8, <1>9 DEF KeyInv

LEMMA TouchKeeps ==
    ASSUME KeyInv, NEW q \in KeyRequests, TouchLastUsedAt(q)
    PROVE  KeyInv'
<1>1. /\ KeysTypeOK /\ UsePart /\ KeyFound /\ CountPart
      /\ q \in keyTouch /\ keyTouch' = keyTouch \ {q}
      /\ keyRow' = IF KeyStored THEN [keyRow EXCEPT !.used = keyRequest[q].at] ELSE keyRow
      /\ UNCHANGED <<keyRequest, keyOwed, keyTold, keyNow, keyFaults, keyUntold, keyTogether>>
    BY DEF KeyInv, TouchLastUsedAt
<1>2. keyRow \in KeyRow /\ keyRequest[q].at \in 0..MaxKeyTime
    BY <1>1, KeyRequestTyped
<1>3. /\ keyRow' \in KeyRow /\ keyRow'.state = keyRow.state /\ keyRow'.expires = keyRow.expires
      /\ keyRow'.used = IF KeyStored THEN keyRequest[q].at ELSE keyRow.used
    BY <1>1, <1>2 DEF KeyRow
<1>4. KeysTypeOK'
    BY <1>1, <1>3 DEF KeysTypeOK
<1>5. UsePart'
    <2>1. UsesInTime'
        BY <1>1, <1>3 DEF UsePart, UsesInTime, KeyAt
    <2>2. LaterUsesPaired' /\ PairsUsed'
        BY <1>1 DEF UsePart, LaterUsesPaired, PairsUsed
    <2>3. ASSUME KeyStored, NEW r \in KeyRequests \ (keyTouch' \cup keyUntold')
          PROVE  \/ keyRow'.used >= keyRequest[r].at
                 \/ \E p \in KeyRequests : {p, r} \in keyTogether /\ keyRequest[p].at = keyRow'.used
        <3>1. keyRow'.used = keyRequest[q].at
            BY <1>3, <2>3
        <3>2. CASE keyRequest[q].at < keyRequest[r].at
            BY <1>1, <3>1, <3>2 DEF UsePart, LaterUsesPaired
        <3>3. CASE ~ (keyRequest[q].at < keyRequest[r].at)
            <4>1. keyRequest[q].at \in Nat /\ keyRequest[r].at \in Nat
                BY <1>1, KeyRequestTyped
            <4>2. QED
                BY <3>1, <3>3, <4>1
        <3>4. QED
            BY <3>2, <3>3
    <2>4. KeyStored' => UsedTold'
        BY <1>1, <1>3, <2>3 DEF UsedTold, KeyStored
    <2>5. keyRow'.state = "absent" => keyRow'.used = 0 /\ keyRow'.expires = 0
        BY <1>1, <1>3 DEF UsePart, KeyStored
    <2>6. keyRow'.expires # 0 => keyRow'.used < keyRow'.expires
        BY <1>1, <1>3 DEF UsePart, UsesInTime
    <2>7. QED
        BY <2>1, <2>2, <2>4, <2>5, <2>6 DEF UsePart
<1>6. KeyFound'
    BY <1>1, <1>3 DEF KeyFound
<1>7. CountPart'
    BY <1>1, <1>3 DEF CountPart, KeyFailures, KeyUntoldChanges, KeyChangesDone, KeyAt
<1>8. QED
    BY <1>4, <1>5, <1>6, <1>7 DEF KeyInv

LEMMA AuthenticateKeeps ==
    ASSUME KeyInv, NEW q \in KeyRequests, AuthenticateApiKey(q), KeyUsable
    PROVE  KeyInv'
<1>1. /\ KeysTypeOK /\ UsePart /\ KeyFound /\ CountPart
      /\ keyRequest[q].pc = "new" /\ keyRequest[q].kind = "use"
      /\ keyRequest' = [keyRequest EXCEPT ![q].pc = "done", ![q].at = keyNow]
      /\ keyTouch' = keyTouch \cup {q}
      /\ keyTogether' = keyTogether \cup {{p, q} : p \in keyTouch}
      /\ UNCHANGED <<keyRow, keyOwed, keyTold, keyNow, keyFaults, keyUntold>>
    BY DEF KeyInv, AuthenticateApiKey, KeyAt
<1>2. keyRequest \in [KeyRequests -> KeyRequest] /\ keyRequest[q] \in KeyRequest /\ keyNow \in 0..MaxKeyTime
      /\ keyNow \in Nat /\ keyNow > 0 /\ keyRow.expires \in Nat
    BY <1>1, KeyRequestTyped, KeyAssumption DEF KeysTypeOK
<1>3. [keyRequest[q] EXCEPT !.pc = "done", !.at = keyNow] \in KeyRequest
    BY <1>2, KeyAssumption DEF KeyRequest
<1>4. KeyMoves(q, "done", keyNow)
    BY <1>1, <1>2, <1>3 DEF KeyMoves, KeyRequest
<1>5. KeysTypeOK'
    BY <1>1, <1>4 DEF KeysTypeOK, KeyMoves
<1>6. /\ keyRequest'[q].at = keyNow /\ \A p \in KeyRequests : p # q => keyRequest'[p] = keyRequest[p]
      /\ keyRequest[q].at = 0 /\ keyRequest'[q].pc = "done"
      /\ \A p \in KeyRequests : keyRequest[p].at \in Nat
    BY <1>1, <1>4, KeyRequestTyped DEF KeyMoves, UsePart, UsesInTime, KeyAt
<1>7. keyRow.state = "active" /\ (keyRow.expires = 0 \/ keyRow.expires > keyNow)
    BY DEF KeyUsable
<1>8. UsesInTime'
    BY <1>1, <1>2, <1>6, <1>7 DEF UsesInTime, UsePart, KeyAt
<1>9. LaterUsesPaired'
    <2>1. SUFFICES ASSUME NEW p \in keyTouch \cup {q}, NEW r \in KeyRequests,
                          keyRequest'[p].at < keyRequest'[r].at
                   PROVE  {p, r} \in keyTogether'
        BY <1>1 DEF LaterUsesPaired
    <2>2. p \in KeyRequests
        BY <1>1, <2>1 DEF KeysTypeOK
    <2>3. keyRequest'[r].at <= keyNow
        BY <1>1, <1>2, <1>6 DEF UsePart, UsesInTime
    <2>4. p # q
        <3>1. SUFFICES ASSUME p = q PROVE FALSE
            OBVIOUS
        <3>2. keyRequest'[r].at \in Nat
            BY <1>2, <1>6
        <3>3. QED
            BY <1>2, <1>6, <2>1, <2>3, <3>1, <3>2
    <2>5. CASE r = q
        BY <1>1, <2>1, <2>4, <2>5
    <2>6. CASE r # q
        BY <1>1, <1>6, <2>1, <2>2, <2>4, <2>6 DEF UsePart, LaterUsesPaired
    <2>7. QED
        BY <2>5, <2>6
<1>10. PairsUsed'
    <2>1. \A S \in keyTogether : \A p \in S : p \in KeyRequests /\ keyRequest[p].at > 0
        BY <1>1 DEF KeysTypeOK, UsePart, PairsUsed
    <2>2. \A p \in keyTouch : p \in KeyRequests /\ keyRequest[p].at > 0
        BY <1>1 DEF KeysTypeOK, UsePart, PairsUsed
    <2>3. \A p \in KeyRequests : keyRequest[p].at > 0 => keyRequest'[p].at > 0
        BY <1>2, <1>6
    <2>4. \A S \in keyTogether' : S \in keyTogether \/ \E p \in keyTouch : S = {p, q}
        BY <1>1
    <2>5. QED
        BY <1>1, <1>2, <1>6, <2>1, <2>2, <2>3, <2>4 DEF PairsUsed
<1>11. KeyStored' => UsedTold'
    <2>1. SUFFICES ASSUME NEW r \in KeyRequests \ (keyTouch' \cup keyUntold')
                   PROVE  \/ keyRow'.used >= keyRequest'[r].at
                          \/ \E p \in KeyRequests : {p, r} \in keyTogether' /\ keyRequest'[p].at = keyRow'.used
        BY DEF UsedTold
    <2>2. r # q /\ r \in KeyRequests \ (keyTouch \cup keyUntold) /\ KeyStored
        BY <1>1, <1>7, <2>1 DEF KeyStored
    <2>3. CASE keyRow.used >= keyRequest[r].at
        BY <1>1, <1>6, <2>2, <2>3
    <2>4. ASSUME NEW p \in KeyRequests, {p, r} \in keyTogether, keyRequest[p].at = keyRow.used
          PROVE  {p, r} \in keyTogether' /\ keyRequest'[p].at = keyRow'.used
        <3>1. keyRequest[p].at > 0
            BY <1>1, <2>4 DEF UsePart, PairsUsed
        <3>2. p # q
            BY <1>6, <3>1
        <3>3. QED
            BY <1>1, <1>6, <2>4, <3>2
    <2>5. QED
        BY <1>1, <2>2, <2>3, <2>4 DEF UsePart, UsedTold
<1>12. UsePart'
    BY <1>1, <1>7, <1>8, <1>9, <1>10, <1>11 DEF UsePart
<1>13. KeyFound'
    BY <1>1, <1>4 DEF KeyFound, KeyMoves
<1>14. CountPart'
    <2>1. KeyUntoldChanges' \subseteq KeyUntoldChanges
        BY <1>1, <1>4 DEF KeyUntoldChanges, KeyChangesDone, KeyAt, KeyMoves
    <2>2. KeyFailures' \subseteq KeyFailures
        BY <1>4 DEF KeyFailures, KeyAt, KeyMoves
    <2>3. QED
        BY <1>1, <2>1, <2>2, CountsStay DEF KeysTypeOK
<1>15. QED
    BY <1>5, <1>12, <1>13, <1>14 DEF KeyInv

\* A request goes on that neither lets itself in nor leaves a record.
LEMMA KeyGoesKeeps ==
    ASSUME KeyInv, NEW q \in KeyRequests, NEW pc \in {"done", "refused", "failed", "write", "again"},
           KeyGoes(q, pc), keyRequest[q].pc \in {"new", "again", "write"},
           pc = "done" => keyRequest[q].kind \in {"use", "delete"},
           pc = "again" => keyRequest[q].kind = "delete" /\ keyRow.state # "absent",
           pc = "write" => keyRequest[q].kind \in {"revoke", "delete"} /\ keyRow.state # "absent",
           pc = "failed" => keyFaults' = keyFaults + 1 \/ keyRow.state = "deleted",
           keyFaults' \in {keyFaults, keyFaults + 1}, keyFaults' <= MaxKeyFaults,
           UNCHANGED <<keyRow, keyTouch, keyOwed, keyTold, keyNow, keyUntold, keyTogether>>
    PROVE  KeyInv'
<1>1. KeysTypeOK /\ UsePart /\ KeyFound /\ CountPart
    BY DEF KeyInv
<1>2. KeyMoves(q, pc, keyRequest[q].at)
    <2>1. keyRequest \in [KeyRequests -> KeyRequest] /\ keyRequest[q] \in KeyRequest
        BY <1>1, KeyRequestTyped
    <2>2. [keyRequest[q] EXCEPT !.pc = pc] \in KeyRequest
        BY <2>1 DEF KeyRequest
    <2>3. keyRequest' = [keyRequest EXCEPT ![q].pc = pc]
        BY DEF KeyGoes
    <2>4. QED
        BY <2>1, <2>2, <2>3 DEF KeyMoves, KeyRequest
<1>3. keyFaults \in Nat /\ keyFaults' \in 0..MaxKeyFaults
    BY <1>1, KeyAssumption DEF KeysTypeOK
<1>4. KeysTypeOK'
    BY <1>1, <1>2, <1>3 DEF KeysTypeOK, KeyMoves
<1>5. UsePart'
    <2>1. keyNow \in Nat
        BY <1>1, KeyRequestTyped
    <2>2. NoUse
        BY <1>2, <2>1 DEF NoUse, KeyMoves, KeyStored
    <2>3. QED
        BY <2>2, UseStays
<1>6. KeyFound'
    BY <1>1, <1>2 DEF KeyFound, KeyMoves
<1>7. CountPart'
    <2>1. KeyUntoldChanges' \subseteq KeyUntoldChanges
        BY <1>2 DEF KeyUntoldChanges, KeyChangesDone, KeyAt, KeyMoves
    <2>2. KeyFailures' \subseteq KeyFailures \cup {q}
        BY <1>2 DEF KeyFailures, KeyAt, KeyMoves
    <2>3. pc # "failed" => KeyFailures' \subseteq KeyFailures
        BY <1>2 DEF KeyFailures, KeyAt, KeyMoves
    <2>4. QED
        BY <1>3, <2>1, <2>2, <2>3, CountsStay
<1>8. QED
    BY <1>4, <1>5, <1>6, <1>7 DEF KeyInv

LEMMA KeyLooksKeep ==
    ASSUME KeyInv, NEW q \in KeyRequests,
           FindKey(q) \/ FindKeyAgain(q) \/ (AuthenticateApiKey(q) /\ ~ KeyUsable)
    PROVE  KeyInv'
<1>1. keyFaults <= MaxKeyFaults /\ keyFaults \in Nat
    BY KeyAssumption DEF KeyInv, KeysTypeOK
<1>2. CASE FindKey(q)
    <2> DEFINE pc == IF ~KeyStored THEN "refused" ELSE IF keyRequest[q].kind = "revoke" THEN "write" ELSE "again"
    <2>1. /\ keyRequest[q].pc = "new" /\ keyRequest[q].kind \in {"revoke", "delete"} /\ KeyGoes(q, pc)
          /\ UNCHANGED <<keyRow, keyTouch, keyOwed, keyTold, keyNow, keyFaults, keyUntold, keyTogether>>
        BY <1>2 DEF FindKey, KeyAt
    <2>2. /\ pc \in {"refused", "write", "again"} /\ (pc # "refused" => keyRow.state # "absent")
          /\ (pc = "again" => keyRequest[q].kind = "delete")
        BY <2>1 DEF KeyStored
    <2> HIDE DEF pc
    <2>3. QED
        BY <1>1, <2>1, <2>2, KeyGoesKeeps
<1>3. CASE FindKeyAgain(q)
    <2> DEFINE pc == IF KeyStored THEN "write" ELSE "done"
    <2>1. /\ keyRequest[q].pc = "again" /\ KeyGoes(q, pc)
          /\ UNCHANGED <<keyRow, keyTouch, keyOwed, keyTold, keyNow, keyFaults, keyUntold, keyTogether>>
        BY <1>3 DEF FindKeyAgain, KeyAt
    <2>2. keyRequest[q].kind = "delete" /\ keyRow.state # "absent"
        BY <2>1 DEF KeyInv, KeyFound
    <2>3. pc \in {"write", "done"}
        OBVIOUS
    <2> HIDE DEF pc
    <2>4. QED
        BY <1>1, <2>1, <2>2, <2>3, KeyGoesKeeps
<1>4. CASE AuthenticateApiKey(q) /\ ~ KeyUsable
    <2>1. /\ keyRequest[q].pc = "new" /\ KeyGoes(q, "refused")
          /\ UNCHANGED <<keyRow, keyTouch, keyOwed, keyTold, keyNow, keyFaults, keyUntold, keyTogether>>
        BY <1>4 DEF AuthenticateApiKey, KeyAt
    <2>2. QED
        BY <1>1, <2>1, KeyGoesKeeps
<1>5. QED
    BY <1>2, <1>3, <1>4

LEMMA WriteKeyKeeps ==
    ASSUME KeyInv, NEW q \in KeyRequests, WriteKey(q)
    PROVE  KeyInv'
<1>1. /\ KeysTypeOK /\ UsePart /\ KeyFound /\ CountPart /\ keyRequest[q].pc = "write"
      /\ keyRow.state # "absent" /\ keyRequest[q].kind \in {"revoke", "delete"}
      /\ UNCHANGED <<keyTouch, keyTold, keyNow, keyFaults, keyUntold, keyTogether>>
    BY DEF WriteKey, KeyAt, KeyInv, KeyFound
<1>2. CASE ~ KeyStored
    <2>1. keyRow.state = "deleted"
        BY <1>1, <1>2, KeyRequestTyped DEF KeyStored, KeyRow
    <2>2. KeyGoes(q, "failed") /\ UNCHANGED <<keyRow, keyOwed>>
        BY <1>2 DEF WriteKey
    <2>3. keyFaults <= MaxKeyFaults /\ keyFaults \in Nat
        BY <1>1, KeyAssumption DEF KeysTypeOK
    <2>4. QED
        BY <1>1, <2>1, <2>2, <2>3, KeyGoesKeeps
<1>3. CASE KeyStored
    <2> DEFINE state == IF keyRequest[q].kind = "revoke" THEN "revoked" ELSE "deleted"
    <2>1. /\ keyRow' = [keyRow EXCEPT !.state = state] /\ KeyGoes(q, "done")
          /\ keyOwed' = IF keyRequest[q].kind = "revoke" THEN keyOwed \cup {q} ELSE keyOwed
        BY <1>3 DEF WriteKey
    <2>2. state \in {"revoked", "deleted"}
        OBVIOUS
    <2>3. /\ keyRow' \in KeyRow /\ keyRow'.state = state /\ keyRow'.used = keyRow.used
          /\ keyRow'.expires = keyRow.expires /\ keyRow.state \in {"active", "revoked"}
        BY <1>1, <1>3, <2>1, <2>2, KeyRequestTyped DEF KeyRow, KeyStored
    <2>4. KeyMoves(q, "done", keyRequest[q].at)
        <3>1. keyRequest \in [KeyRequests -> KeyRequest] /\ keyRequest[q] \in KeyRequest
            BY <1>1, KeyRequestTyped
        <3>2. [keyRequest[q] EXCEPT !.pc = "done"] \in KeyRequest
            BY <3>1 DEF KeyRequest
        <3>3. keyRequest' = [keyRequest EXCEPT ![q].pc = "done"]
            BY <2>1 DEF KeyGoes
        <3>4. QED
            BY <3>1, <3>2, <3>3 DEF KeyMoves, KeyRequest
    <2>5. KeysTypeOK'
        BY <1>1, <2>1, <2>3, <2>4 DEF KeysTypeOK, KeyMoves
    <2>6. UsePart'
        <3>1. keyNow \in Nat
            BY <1>1, KeyRequestTyped
        <3>2. NoUse
            BY <1>1, <1>3, <2>2, <2>3, <2>4, <3>1 DEF NoUse, KeyMoves
        <3>3. QED
            BY <3>2, UseStays
    <2>7. KeyFound'
        BY <1>1, <2>2, <2>3, <2>4 DEF KeyFound, KeyMoves
    <2>8. CountPart'
        <3>1. KeyUntoldChanges' \subseteq KeyUntoldChanges
            <4>1. keyRequest[q].kind = "revoke" => q \in keyOwed'
                BY <2>1
            <4>2. keyOwed \subseteq keyOwed' /\ keyTold' = keyTold
                BY <1>1, <2>1
            <4>3. keyRequest'[q].kind = keyRequest[q].kind /\ keyRequest[q].kind # "create"
                BY <1>1, <2>4 DEF KeyMoves
            <4>4. q \notin KeyUntoldChanges'
                BY <4>1, <4>3 DEF KeyUntoldChanges, KeyChangesDone
            <4>5. QED
                BY <2>4, <4>2, <4>4 DEF KeyUntoldChanges, KeyChangesDone, KeyAt, KeyMoves
        <3>2. KeyFailures' \subseteq KeyFailures
            BY <2>4 DEF KeyFailures, KeyAt, KeyMoves
        <3>3. QED
            BY <1>1, <2>3, <3>1, <3>2, CountsStay DEF KeysTypeOK
    <2>9. QED
        BY <2>5, <2>6, <2>7, <2>8 DEF KeyInv
<1>4. QED
    BY <1>2, <1>3

\* Steps that leave the requests and the row.
LEMMA BesideRequests ==
    ASSUME KeyInv, NEW q \in KeyRequests, UNCHANGED <<keyRow, keyRequest, keyTogether>>,
           keyTouch' \subseteq keyTouch, keyUntold' \subseteq KeyRequests,
           keyTouch \cup keyUntold \subseteq keyTouch' \cup keyUntold',
           keyOwed' \subseteq KeyRequests, keyTold' \subseteq KeyRequests,
           keyNow' \in 1..MaxKeyTime, keyNow <= keyNow', keyFaults' \in 0..MaxKeyFaults,
           \/ keyFaults' = keyFaults /\ keyOwed \cup keyTold \subseteq keyOwed' \cup keyTold'
           \/ keyFaults' = keyFaults + 1 /\ (keyOwed \cup keyTold) \ {q} \subseteq keyOwed' \cup keyTold'
    PROVE  KeyInv'
<1>1. KeysTypeOK /\ KeyFound
    BY DEF KeyInv
<1>2. KeysTypeOK'
    BY <1>1 DEF KeysTypeOK
<1>3. UsePart'
    <2>1. keyNow' \in Nat
        OBVIOUS
    <2>2. NoUse
        BY <2>1 DEF NoUse, KeyStored
    <2>3. QED
        BY <2>2, UseStays
<1>4. KeyFound'
    BY <1>1 DEF KeyFound
<1>5. CountPart'
    <2>1. KeyFailures' = KeyFailures /\ KeyChangesDone' = KeyChangesDone
        BY DEF KeyFailures, KeyChangesDone, KeyAt
    <2>2. keyFaults' = keyFaults /\ keyOwed \cup keyTold \subseteq keyOwed' \cup keyTold'
              => KeyUntoldChanges' \subseteq KeyUntoldChanges
        BY <2>1 DEF KeyUntoldChanges
    <2>3. (keyOwed \cup keyTold) \ {q} \subseteq keyOwed' \cup keyTold'
              => KeyUntoldChanges' \subseteq KeyUntoldChanges \cup {q}
        BY <2>1 DEF KeyUntoldChanges
    <2>4. QED
        BY <2>1, <2>2, <2>3, CountsStay
<1>6. QED
    BY <1>2, <1>3, <1>4, <1>5 DEF KeyInv

LEMMA KeyBesideKeeps ==
    ASSUME KeyInv, NEW q \in KeyRequests, RecordKeyAudit(q) \/ KeyTick
    PROVE  KeyInv'
<1>1. /\ keyTouch \subseteq KeyRequests /\ keyUntold \subseteq KeyRequests
      /\ keyOwed \subseteq KeyRequests /\ keyTold \subseteq KeyRequests
      /\ keyNow \in 1..MaxKeyTime /\ keyFaults \in 0..MaxKeyFaults /\ MaxKeyTime \in Nat
    BY KeyAssumption DEF KeyInv, KeysTypeOK
<1>2. CASE RecordKeyAudit(q)
    <2>1. /\ keyOwed' = keyOwed \ {q} /\ keyTold' = keyTold \cup {q}
          /\ UNCHANGED <<keyRow, keyRequest, keyTogether>>
          /\ UNCHANGED <<keyTouch, keyNow, keyFaults, keyUntold>>
        BY <1>2 DEF RecordKeyAudit
    <2>2. keyOwed \cup keyTold \subseteq keyOwed' \cup keyTold'
        BY <2>1
    <2>3. keyNow <= keyNow
        BY <1>1
    <2>4. QED
        BY <1>1, <2>1, <2>2, <2>3, BesideRequests
<1>3. CASE KeyTick
    <2>1. /\ keyNow < MaxKeyTime /\ keyNow' = keyNow + 1
          /\ UNCHANGED <<keyRow, keyRequest, keyTogether>>
          /\ UNCHANGED <<keyTouch, keyOwed, keyTold, keyFaults, keyUntold>>
        BY <1>3 DEF KeyTick
    <2>2. keyNow' \in 1..MaxKeyTime /\ keyNow <= keyNow'
        BY <1>1, <2>1
    <2>3. QED
        BY <1>1, <2>1, <2>2, BesideRequests
<1>4. QED
    BY <1>2, <1>3

LEMMA KeyFaultKeeps ==
    ASSUME KeyInv, NEW q \in KeyRequests, KeyStatementFails(q)
    PROVE  KeyInv'
<1>1. /\ keyTouch \subseteq KeyRequests /\ keyUntold \subseteq KeyRequests
      /\ keyOwed \subseteq KeyRequests /\ keyTold \subseteq KeyRequests
      /\ keyNow \in 1..MaxKeyTime /\ keyFaults \in 0..MaxKeyFaults /\ keyNow <= keyNow
    BY KeyAssumption DEF KeyInv, KeysTypeOK
<1>2. /\ keyFaults < MaxKeyFaults /\ keyFaults' = keyFaults + 1
      /\ UNCHANGED <<keyRow, keyTold, keyNow, keyTogether>>
    BY DEF KeyStatementFails
<1>3. keyFaults' \in 0..MaxKeyFaults /\ keyFaults' <= MaxKeyFaults
    BY <1>1, <1>2, KeyAssumption
<1>4. CASE /\ q \in keyTouch
           /\ keyTouch' = keyTouch \ {q} /\ keyUntold' = keyUntold \cup {q}
           /\ UNCHANGED <<keyRequest, keyOwed>>
    <2>1. keyUntold' \subseteq KeyRequests /\ keyTouch \cup keyUntold \subseteq keyTouch' \cup keyUntold'
          /\ keyTouch' \subseteq keyTouch /\ (keyOwed \cup keyTold) \ {q} \subseteq keyOwed' \cup keyTold'
        BY <1>1, <1>2, <1>4
    <2>2. QED
        BY <1>1, <1>2, <1>3, <1>4, <2>1, BesideRequests
<1>5. CASE q \in keyOwed /\ keyOwed' = keyOwed \ {q} /\ UNCHANGED <<keyRequest, keyTouch, keyUntold>>
    <2>1. (keyOwed \cup keyTold) \ {q} \subseteq keyOwed' \cup keyTold' /\ keyOwed' \subseteq KeyRequests
        BY <1>1, <1>2, <1>5
    <2>2. QED
        BY <1>1, <1>2, <1>3, <1>5, <2>1, BesideRequests
<1>6. CASE keyRequest[q].pc \in {"new", "again", "write"} /\ KeyGoes(q, "failed")
           /\ UNCHANGED <<keyTouch, keyOwed, keyUntold>>
    BY <1>2, <1>3, <1>6, KeyGoesKeeps
<1>7. QED
    BY <1>4, <1>5, <1>6 DEF KeyStatementFails

LEMMA KeysInitially == KeysInit => KeyInv
<1>1. SUFFICES ASSUME KeysInit PROVE KeyInv
    OBVIOUS
<1>2. /\ keyRow \in {NoKey} \cup {row \in KeyRow : row.state = "active" /\ row.used = 0}
      /\ keyRequest \in [KeyRequests -> {r \in KeyRequest : r.pc = "new" /\ r.at = 0}]
      /\ keyTouch = {} /\ keyOwed = {} /\ keyTold = {} /\ keyNow = 1 /\ keyFaults = 0
      /\ keyUntold = {} /\ keyTogether = {}
    BY <1>1 DEF KeysInit
<1>3. 0 \in 0..MaxKeyTime /\ 1 \in 1..MaxKeyTime /\ 0 \in 0..MaxKeyFaults
    BY KeyAssumption
<1>4. NoKey \in KeyRow /\ NoKey.state = "absent" /\ NoKey.used = 0 /\ NoKey.expires = 0
    BY <1>3 DEF NoKey, KeyRow
<1>5. keyRow \in KeyRow /\ keyRow.used = 0 /\ (keyRow.state = "absent" => keyRow.expires = 0)
      /\ keyRow.expires \in 0..MaxKeyTime
    BY <1>2, <1>4 DEF KeyRow
<1>6. \A q \in KeyRequests : keyRequest[q].pc = "new" /\ keyRequest[q].at = 0 /\ keyRequest[q] \in KeyRequest
    BY <1>2
<1>7. KeysTypeOK
    BY <1>2, <1>3, <1>5, <1>6 DEF KeysTypeOK
<1>8. UsePart
    BY <1>2, <1>5, <1>6 DEF UsePart, UsesInTime, LaterUsesPaired, PairsUsed, UsedTold
<1>9. KeyFound
    BY <1>6 DEF KeyFound
<1>10. KeyFailures = {} /\ KeyUntoldChanges = {}
    BY <1>6 DEF KeyFailures, KeyUntoldChanges, KeyChangesDone, KeyAt
<1>11. QED
    BY <1>2, <1>7, <1>8, <1>9, <1>10, FS_EmptySet DEF KeyInv, CountPart

LEMMA KeysStep == KeyInv /\ [KeysNext]_keyVars => KeyInv'
<1>1. SUFFICES ASSUME KeyInv, [KeysNext]_keyVars PROVE KeyInv'
    OBVIOUS
<1>2. CASE UNCHANGED keyVars
    BY <1>1, <1>2 DEF keyVars, KeyInv, KeysTypeOK, UsePart, UsesInTime, LaterUsesPaired, PairsUsed, UsedTold,
                      KeyFound, CountPart, KeyFailures, KeyUntoldChanges, KeyChangesDone, KeyStored, KeyAt
<1>3. CASE KeyTick
    <2>1. CASE KeyRequests # {}
        <3>1. PICK q \in KeyRequests : TRUE
            BY <2>1
        <3>2. QED
            BY <1>1, <1>3, KeyBesideKeeps
    <2>2. CASE KeyRequests = {}
        <3>1. /\ keyNow' \in 1..MaxKeyTime /\ keyFaults' = keyFaults
              /\ UNCHANGED <<keyRow, keyRequest, keyTouch, keyOwed, keyTold, keyUntold, keyTogether>>
            BY <1>1, <1>3, KeyAssumption DEF KeyTick, KeyInv, KeysTypeOK
        <3>2. KeysTypeOK'
            BY <1>1, <3>1 DEF KeyInv, KeysTypeOK
        <3>3. keyTouch = {}
            BY <1>1, <2>2 DEF KeyInv, KeysTypeOK
        <3>4. UsePart'
            BY <1>1, <2>2, <3>1, <3>3 DEF KeyInv, UsePart, UsesInTime, LaterUsesPaired, PairsUsed, UsedTold
        <3>5. KeyFound' /\ CountPart'
            BY <1>1, <3>1 DEF KeyInv, KeyFound, CountPart, KeyFailures, KeyUntoldChanges, KeyChangesDone, KeyAt
        <3>6. QED
            BY <3>2, <3>4, <3>5 DEF KeyInv
    <2>3. QED
        BY <2>1, <2>2
<1>4. ASSUME NEW q \in KeyRequests,
             \/ CreateKey(q) \/ AuthenticateApiKey(q) \/ TouchLastUsedAt(q) \/ FindKey(q)
             \/ FindKeyAgain(q) \/ WriteKey(q) \/ RecordKeyAudit(q) \/ KeyStatementFails(q)
      PROVE  KeyInv'
    BY <1>1, <1>4, CreateKeyKeeps, AuthenticateKeeps, TouchKeeps, KeyLooksKeep, WriteKeyKeeps, KeyBesideKeeps,
       KeyFaultKeeps
<1>5. QED
    BY <1>1, <1>2, <1>3, <1>4 DEF KeysNext

\* For any number of requests, times and faults: lastUsedAt stays before expiresAt, and
\* no earlier than any use that has been written, but for two whose touchLastUsedAt, that
\* nobody awaits, were under way together.
THEOREM LastUseIsTold == KeysSpec => []LastUseTold
<1>1. KeyInv /\ [KeysNext]_keyVars => KeyInv'
    BY KeysStep
<1>2. KeysSpec => []KeyInv
    BY KeysInitially, <1>1, PTL DEF KeysSpec
<1>3. KeyInv => LastUseTold
    BY DEF KeyInv, UsePart, UsedTold, LastUseTold
<1>4. QED
    BY <1>2, <1>3, PTL

\* For any number of requests and faults: a request fails by a fault or because another
\* has deleted the key under it; and creations and revocations are audited, but for the
\* faults.
THEOREM KeyChangesAreTold == KeysSpec => []KeyChangesTold
<1>1. KeyInv /\ [KeysNext]_keyVars => KeyInv'
    BY KeysStep
<1>2. KeysSpec => []KeyInv
    BY KeysInitially, <1>1, PTL DEF KeysSpec
<1>3. KeyInv => KeyChangesTold
    BY DEF KeyInv, CountPart, KeyFailures, KeyUntoldChanges, KeyChangesDone, KeyChangesTold
<1>4. QED
    BY <1>2, <1>3, PTL

-----------------------------------------------------------------------------
(* Sessions *)

\* A row that is locked has no attempts counted.
LockedFromZero(row) == row.lock # 0 => row.attempts = 0

Holding(q) == accRequest[q].pc \in {"clear", "locked", "verify", "record", "reset"}

\* What a login has read is the row, as long as no other has written it since.
HoldsRow(q) ==
    Holding(q) =>
        /\ accRequest[q].kind = "login" /\ accRow # NoAccount
        /\ accRequest[q].seen \in Account /\ LockedFromZero(accRequest[q].seen)
        /\ ~ accRequest[q].stale =>
              /\ accRequest[q].seen.attempts = accRow.attempts
              /\ accRequest[q].pc \in {"clear", "locked"} => accRequest[q].seen = accRow
              /\ accRequest[q].pc \notin {"clear", "locked"} => accRow.lock = 0

KindStands(q) ==
    /\ accRequest[q].pc = "insert" => accRequest[q].kind = "register"
    /\ accRequest[q].pc = "revoke" => accRequest[q].kind \in {"refresh", "logout"}
    /\ accRequest[q].pc = "user" => accRequest[q].kind = "refresh"
    /\ accRequest[q].pc = "issue" => accRequest[q].kind \in {"login", "refresh"}

\* Who found the token usable, and still goes on.
FoundUsable(q, t) ==
    /\ accRequest[q].kind \in {"refresh", "logout"} /\ accRequest[q].token = t
    /\ accRequest[q].pc \in {"revoke", "user", "issue", "done"}

TokenStands(q) ==
    /\ accRequest[q].pc # "done" => accToken[q].state = "unused"
    /\ FoundUsable(q, accRequest[q].token) =>
          /\ accToken[accRequest[q].token].state # "unused"
          /\ accRequest[q].pc # "revoke" => accToken[accRequest[q].token].state = "revoked"

FindersOverlap ==
    \A p, q \in SessionRequests :
        p # q /\ FoundUsable(p, accRequest[q].token) /\ FoundUsable(q, accRequest[q].token)
            => {p, q} \in accOverlaps

UntoldRefusals ==
    {q \in SessionRequests : accRequest[q].kind = "login" /\ SessionAt(q, "refused")} \ (accOwed \cup accTold)

LostTokens == {t \in Tokens : accToken[t].state = "revoked" /\ Exchanges(t) = {} /\ ~LoggedOut(t)}

AccountPart ==
    /\ LockedFromZero(accRow) /\ LockedFromZero(accIdeal)
    /\ \A q \in SessionRequests : HoldsRow(q)
    /\ accBlind = {} => accRow = accIdeal
    /\ accLifted \subseteq accBlind

TokenPart ==
    /\ \A q \in SessionRequests : TokenStands(q)
    /\ FindersOverlap

LossPart == Cardinality(UntoldRefusals) <= accFaults /\ Cardinality(LostTokens) <= accFaults

SessionInv ==
    /\ SessionTypeOK
    /\ \A q \in SessionRequests : KindStands(q)
    /\ AccountPart /\ TokenPart /\ LossPart

SessionPcs == {"new", "clear", "locked", "verify", "record", "tell", "reset", "revoke", "user",
               "insert", "issue", "done", "refused", "failed"}

LEMMA SessionRequestTyped ==
    ASSUME SessionTypeOK, NEW q \in SessionRequests
    PROVE  /\ accRequest \in [SessionRequests -> SessionRequest] /\ accRequest[q] \in SessionRequest
           /\ accRequest[q].pc \in SessionPcs /\ accRequest[q].token \in Tokens
           /\ accRequest[q].seen \in Account \cup {NoAccount} /\ accRequest[q].stale \in BOOLEAN
           /\ accRequest[q].kind \in {"login", "refresh", "logout", "register"} /\ q \in Tokens
BY DEF SessionTypeOK, SessionRequest, SessionPcs, Tokens

LEMMA AccountTyped ==
    /\ NoAccount \notin Account /\ NoAccount.lock = 0 /\ NoAccount.attempts = 0 - 1
    /\ Clear \in Account /\ Clear.lock = 0 /\ Clear.attempts = 0
    /\ \A row \in Account : row.attempts \in Nat /\ row.lock \in Nat
<1>1. \A row \in Account : row.attempts \in 0..MaxFailedLogins - 1 /\ row.lock \in 0..MaxSessionTime + LockTicks
    BY DEF Account
<1>2. 0 \in 0..MaxFailedLogins - 1 /\ 0 \in 0..MaxSessionTime + LockTicks
    BY SessionAssumption
<1>3. Clear \in Account /\ Clear.lock = 0 /\ Clear.attempts = 0
    BY <1>2 DEF Clear, Account
<1>4. NoAccount.lock = 0 /\ NoAccount.attempts = 0 - 1
    BY DEF NoAccount
<1>5. NoAccount \notin Account
    <2>1. 0 - 1 \notin 0..MaxFailedLogins - 1
        BY SessionAssumption
    <2>2. QED
        BY <1>1, <1>4, <2>1
<1>6. \A row \in Account : row.attempts \in Nat /\ row.lock \in Nat
    BY <1>1, SessionAssumption
<1>7. QED
    BY <1>3, <1>4, <1>5, <1>6

LEMMA FailedTyped ==
    ASSUME SessionTypeOK, NEW row \in Account \cup {NoAccount}
    PROVE  Failed(row) \in Account /\ LockedFromZero(Failed(row))
<1>1. row.attempts \in Int /\ row.attempts >= 0 - 1 /\ row.attempts < MaxFailedLogins
    <2>1. CASE row \in Account
        <3>1. row.attempts \in 0..MaxFailedLogins - 1
            BY <2>1 DEF Account
        <3>2. QED
            BY <3>1, SessionAssumption
    <2>2. CASE row = NoAccount
        BY <2>2, SessionAssumption DEF NoAccount
    <2>3. QED
        BY <2>1, <2>2
<1>2. accNow \in 1..MaxSessionTime
    BY DEF SessionTypeOK
<1>3. CASE row.attempts + 1 >= MaxFailedLogins
    <2>1. Failed(row) = [attempts |-> 0, lock |-> accNow + LockTicks]
        BY <1>3 DEF Failed
    <2>2. 0 \in 0..MaxFailedLogins - 1 /\ accNow + LockTicks \in 0..MaxSessionTime + LockTicks
        BY <1>2, SessionAssumption
    <2>3. QED
        BY <2>1, <2>2 DEF Account, LockedFromZero
<1>4. CASE ~ (row.attempts + 1 >= MaxFailedLogins)
    <2>1. Failed(row) = [attempts |-> row.attempts + 1, lock |-> 0]
        BY <1>4 DEF Failed
    <2>2. row.attempts + 1 \in 0..MaxFailedLogins - 1 /\ 0 \in 0..MaxSessionTime + LockTicks
        BY <1>1, <1>4, SessionAssumption
    <2>3. QED
        BY <2>1, <2>2 DEF Account, LockedFromZero
<1>5. QED
    BY <1>3, <1>4

\* One request goes on; of the others only what they have read may have become stale.
RequestsGo(q) ==
    /\ accRequest' \in [SessionRequests -> SessionRequest]
    /\ \A p \in SessionRequests : accRequest'[p].kind = accRequest[p].kind
    /\ \A p \in SessionRequests : p # q =>
          /\ accRequest'[p].pc = accRequest[p].pc /\ accRequest'[p].token = accRequest[p].token
          /\ accRequest'[p].seen = accRequest[p].seen

\* Only one request moves.
GoesAlone(q, pc) ==
    /\ RequestsGo(q) /\ accRequest'[q].pc = pc
    /\ \A p \in SessionRequests : p # q => accRequest'[p] = accRequest[p]

LEMMA SessionGoesAlone ==
    ASSUME SessionTypeOK, NEW q \in SessionRequests, NEW pc \in SessionPcs, SessionGoes(q, pc)
    PROVE  /\ GoesAlone(q, pc) /\ accRequest'[q].token = accRequest[q].token
           /\ accRequest'[q].seen = accRequest[q].seen /\ accRequest'[q].stale = accRequest[q].stale
<1>1. accRequest' = [accRequest EXCEPT ![q].pc = pc]
    BY DEF SessionGoes
<1>2. accRequest \in [SessionRequests -> SessionRequest] /\ accRequest[q] \in SessionRequest
    BY SessionRequestTyped
<1>3. [accRequest[q] EXCEPT !.pc = pc] \in SessionRequest
    BY <1>2 DEF SessionRequest, SessionPcs
<1>4. QED
    BY <1>1, <1>2, <1>3 DEF GoesAlone, RequestsGo, SessionRequest

LEMMA RowsStay ==
    ASSUME SessionInv, NEW q \in SessionRequests, NEW pc, GoesAlone(q, pc),
           UNCHANGED <<accRow, accGhosts>>, HoldsRow(q)'
    PROVE  AccountPart'
<1>1. ASSUME NEW p \in SessionRequests PROVE HoldsRow(p)'
    <2>1. CASE p = q
        BY <2>1
    <2>2. CASE p # q
        <3>1. accRequest'[p] = accRequest[p] /\ HoldsRow(p)
            BY <2>2 DEF GoesAlone, SessionInv, AccountPart
        <3>2. QED
            BY <3>1 DEF HoldsRow, Holding
    <2>3. QED
        BY <2>1, <2>2
<1>2. QED
    BY <1>1 DEF SessionInv, AccountPart, LockedFromZero, accGhosts

\* A step that neither finds nor changes a token.
TokensLeft(q) ==
    /\ UNCHANGED accToken
    /\ accRequest[q].pc # "done" \/ accRequest'[q].pc = "done"
    /\ FoundUsable(q, accRequest[q].token)' =>
          /\ accRequest'[q].token = accRequest[q].token
          /\ accRequest[q].pc \in {"user", "issue", "done"} \/ accRequest'[q].pc = accRequest[q].pc

LEMMA TokensStay ==
    ASSUME SessionInv, NEW q \in SessionRequests, RequestsGo(q), TokensLeft(q),
           accOverlaps \subseteq accOverlaps'
    PROVE  TokenPart'
<1>1. \A p \in SessionRequests : TokenStands(p)
    BY DEF SessionInv, TokenPart
<1>2. FoundUsable(q, accRequest[q].token)' => FoundUsable(q, accRequest[q].token)
    BY DEF TokensLeft, FoundUsable, RequestsGo
<1>3. ASSUME NEW p \in SessionRequests PROVE TokenStands(p)'
    <2>1. CASE p = q
        <3>1. accRequest'[q].pc # "done" => accToken'[q].state = "unused"
            BY <1>1 DEF TokensLeft, TokenStands
        <3>2. FoundUsable(q, accRequest[q].token)' =>
                  /\ accToken'[accRequest'[q].token].state # "unused"
                  /\ accRequest'[q].pc # "revoke" => accToken'[accRequest'[q].token].state = "revoked"
            BY <1>1, <1>2 DEF TokensLeft, TokenStands
        <3>3. QED
            BY <2>1, <3>1, <3>2 DEF TokenStands
    <2>2. CASE p # q
        BY <1>1, <2>2 DEF TokenStands, FoundUsable, RequestsGo, TokensLeft
    <2>3. QED
        BY <2>1, <2>2
<1>4. ASSUME NEW p \in SessionRequests, NEW r \in SessionRequests, p # r,
             FoundUsable(p, accRequest[r].token)', FoundUsable(r, accRequest[r].token)'
      PROVE  {p, r} \in accOverlaps'
    <2>1. ASSUME NEW s \in {p, r} PROVE FoundUsable(s, accRequest[s].token) /\ accRequest'[s].token = accRequest[s].token
        <3>1. FoundUsable(s, accRequest[s].token)'
            BY <1>4 DEF FoundUsable
        <3>2. CASE s = q
            BY <1>2, <3>1, <3>2 DEF TokensLeft
        <3>3. CASE s # q
            BY <3>1, <3>3 DEF FoundUsable, RequestsGo
        <3>4. QED
            BY <3>2, <3>3
    <2>2. accRequest[p].token = accRequest[r].token
        BY <1>4, <2>1 DEF FoundUsable
    <2>3. FoundUsable(p, accRequest[r].token) /\ FoundUsable(r, accRequest[r].token)
        BY <2>1, <2>2
    <2>4. QED
        BY <1>4, <2>3 DEF SessionInv, TokenPart, FindersOverlap
<1>5. QED
    BY <1>3, <1>4 DEF TokenPart, FindersOverlap

\* A fault accounts for one refusal that is not recorded and for one token that is lost.
LEMMA LossesStay ==
    ASSUME SessionInv, NEW q \in SessionRequests, NEW t, accFaults' \in 0..MaxSessionFaults,
           \/ /\ accFaults' = accFaults /\ UntoldRefusals' \subseteq UntoldRefusals
              /\ LostTokens' \subseteq LostTokens
           \/ /\ accFaults' = accFaults + 1 /\ UntoldRefusals' \subseteq UntoldRefusals \cup {q}
              /\ LostTokens' \subseteq LostTokens \cup {t}
    PROVE  LossPart'
<1>1. IsFiniteSet(UntoldRefusals) /\ IsFiniteSet(LostTokens)
    <2>1. IsFiniteSet(Tokens)
        BY SessionAssumption, FS_AddElement DEF Tokens
    <2>2. UntoldRefusals \subseteq SessionRequests /\ LostTokens \subseteq Tokens
        BY DEF UntoldRefusals, LostTokens
    <2>3. QED
        BY <2>1, <2>2, SessionAssumption, FS_Subset
<1>2. accFaults \in Nat /\ LossPart
    BY SessionAssumption DEF SessionInv, SessionTypeOK
<1>3. CASE /\ accFaults' = accFaults /\ UntoldRefusals' \subseteq UntoldRefusals
           /\ LostTokens' \subseteq LostTokens
    <2>1. Cardinality(UntoldRefusals') \in Nat /\ Cardinality(UntoldRefusals) \in Nat
          /\ Cardinality(UntoldRefusals') <= Cardinality(UntoldRefusals)
        BY <1>1, <1>3, PartCounted
    <2>2. Cardinality(LostTokens') \in Nat /\ Cardinality(LostTokens) \in Nat
          /\ Cardinality(LostTokens') <= Cardinality(LostTokens)
        BY <1>1, <1>3, PartCounted
    <2>3. QED
        BY <1>2, <1>3, <2>1, <2>2 DEF LossPart
<1>4. CASE /\ accFaults' = accFaults + 1 /\ UntoldRefusals' \subseteq UntoldRefusals \cup {q}
           /\ LostTokens' \subseteq LostTokens \cup {t}
    <2>1. Cardinality(UntoldRefusals') \in Nat /\ Cardinality(UntoldRefusals) \in Nat
          /\ Cardinality(UntoldRefusals') <= Cardinality(UntoldRefusals) + 1
        BY <1>1, <1>4, OneMoreCounted
    <2>2. Cardinality(LostTokens') \in Nat /\ Cardinality(LostTokens) \in Nat
          /\ Cardinality(LostTokens') <= Cardinality(LostTokens) + 1
        BY <1>1, <1>4, OneMoreCounted
    <2>3. QED
        BY <1>2, <1>4, <2>1, <2>2 DEF LossPart
<1>5. QED
    BY <1>3, <1>4

\* What a step tells of the request that goes on, or what a fault keeps from it.
ToldOrFault(q) ==
    \/ /\ accFaults' = accFaults /\ accOwed \cup accTold \subseteq accOwed' \cup accTold'
       /\ accRequest[q].kind = "login" /\ accRequest'[q].pc = "refused" =>
             accRequest[q].pc = "refused" \/ q \in accOwed' \cup accTold'
       /\ accRequest[q].pc \in {"user", "issue", "done"} => accRequest'[q].pc \in {"user", "issue", "done"}
    \/ /\ accFaults' = accFaults + 1 /\ (accOwed \cup accTold) \ {q} \subseteq accOwed' \cup accTold'

LEMMA RefusalsTold ==
    ASSUME SessionInv, NEW q \in SessionRequests, RequestsGo(q), ToldOrFault(q)
    PROVE  /\ accFaults' = accFaults \/ accFaults' = accFaults + 1
           /\ UntoldRefusals' \subseteq UntoldRefusals \cup {q}
           /\ accFaults' = accFaults => UntoldRefusals' \subseteq UntoldRefusals
<1>1. accFaults \in Nat
    BY SessionAssumption DEF SessionInv, SessionTypeOK
<1>2. CASE /\ accFaults' = accFaults /\ accOwed \cup accTold \subseteq accOwed' \cup accTold'
           /\ accRequest[q].kind = "login" /\ accRequest'[q].pc = "refused" =>
                 accRequest[q].pc = "refused" \/ q \in accOwed' \cup accTold'
    BY <1>2 DEF UntoldRefusals, SessionAt, RequestsGo
<1>3. CASE accFaults' = accFaults + 1 /\ (accOwed \cup accTold) \ {q} \subseteq accOwed' \cup accTold'
    BY <1>1, <1>3 DEF UntoldRefusals, SessionAt, RequestsGo
<1>4. QED
    BY <1>2, <1>3 DEF ToldOrFault

LEMMA TokensTold ==
    ASSUME SessionInv, NEW q \in SessionRequests, RequestsGo(q), ToldOrFault(q), TokensLeft(q),
           accRequest'[q].token = accRequest[q].token \/ accRequest[q].pc = "new"
    PROVE  /\ LostTokens' \subseteq LostTokens \cup {accRequest[q].token}
           /\ accFaults' = accFaults => LostTokens' \subseteq LostTokens
<1>1. accFaults \in Nat
    BY SessionAssumption DEF SessionInv, SessionTypeOK
<1>2. \A t \in Tokens : accRequest[q].token # t \/ accFaults' = accFaults => Exchanges(t) \subseteq Exchanges(t)'
    BY <1>1 DEF Exchanges, RequestsGo, ToldOrFault
<1>3. \A t \in Tokens : LoggedOut(t) => LoggedOut(t)'
    BY DEF LoggedOut, SessionAt, RequestsGo, TokensLeft
<1>4. UNCHANGED accToken
    BY DEF TokensLeft
<1>5. QED
    BY <1>2, <1>3, <1>4 DEF LostTokens

\* A step of one request that leaves the tokens.
LEMMA SessionFrame ==
    ASSUME SessionInv, NEW q \in SessionRequests, RequestsGo(q), TokensLeft(q), ToldOrFault(q),
           accRequest'[q].token = accRequest[q].token \/ accRequest[q].pc = "new",
           KindStands(q)', AccountPart',
           accRow' \in Account \cup {NoAccount}, accIdeal' \in Account \cup {NoAccount},
           accOwed' \subseteq SessionRequests, accTold' \subseteq SessionRequests,
           accBlind' \subseteq SessionRequests, accLifted' \subseteq SessionRequests,
           accOverlaps \subseteq accOverlaps', accOverlaps' \subseteq SUBSET SessionRequests,
           accNow' = accNow, accFaults' <= MaxSessionFaults
    PROVE  SessionInv'
<1>1. SessionTypeOK /\ accFaults \in Nat
    BY SessionAssumption DEF SessionInv, SessionTypeOK
<1>2. accFaults' = accFaults \/ accFaults' = accFaults + 1
    BY DEF ToldOrFault
<1>3. accFaults' \in 0..MaxSessionFaults
    BY <1>1, <1>2, SessionAssumption
<1>4. SessionTypeOK'
    BY <1>1, <1>3 DEF SessionTypeOK, RequestsGo, TokensLeft
<1>5. ASSUME NEW p \in SessionRequests PROVE KindStands(p)'
    <2>1. CASE p = q
        BY <2>1
    <2>2. CASE p # q
        BY <2>2 DEF KindStands, RequestsGo, SessionInv
    <2>3. QED
        BY <2>1, <2>2
<1>6. LossPart'
    <2>1. accFaults # accFaults + 1
        BY <1>1
    <2>2. QED
        BY <1>2, <1>3, <2>1, RefusalsTold, TokensTold, LossesStay
<1>7. QED
    BY <1>4, <1>5, <1>6, TokensStay DEF SessionInv

\* What a login that writes the account makes of the others and of itself.
LEMMA WriteKeeps ==
    ASSUME SessionInv, NEW q \in SessionRequests, Holding(q), NEW row \in Account,
           NEW ideal \in Account \cup {NoAccount}, NEW pc \in SessionPcs, NEW seen \in Account,
           Writes(q, row, ideal, pc, seen),
           LockedFromZero(row), LockedFromZero(ideal), LockedFromZero(seen),
           ~ accRequest[q].stale => (accRow = accIdeal => row = ideal) /\ ~ (IsLocked(accRow) /\ row.lock < accRow.lock),
           pc \in {"clear", "locked"} => seen = row,
           pc \in {"verify", "record", "reset"} => seen.attempts = row.attempts /\ row.lock = 0
    PROVE  /\ RequestsGo(q) /\ accRequest'[q].pc = pc /\ accRequest'[q].token = accRequest[q].token
           /\ AccountPart' /\ accRow' \in Account /\ accIdeal' \in Account \cup {NoAccount}
           /\ accBlind' \subseteq SessionRequests /\ accLifted' \subseteq SessionRequests
<1>1. SessionTypeOK /\ accRequest \in [SessionRequests -> SessionRequest] /\ HoldsRow(q)
    BY DEF SessionInv, SessionTypeOK, AccountPart
<1>2. /\ accRow' = row /\ accIdeal' = ideal
      /\ accBlind' = IF accRequest[q].stale THEN accBlind \cup {q} ELSE accBlind
      /\ accLifted' = IF IsLocked(accRow) /\ row.lock < accRow.lock THEN accLifted \cup {q} ELSE accLifted
    BY DEF Writes
<1>3. ASSUME NEW p \in SessionRequests
      PROVE  /\ accRequest'[p] \in SessionRequest /\ accRequest'[p].kind = accRequest[p].kind
             /\ accRequest'[p].token = accRequest[p].token
             /\ p # q => /\ accRequest'[p].pc = accRequest[p].pc /\ accRequest'[p].seen = accRequest[p].seen
                         /\ Holding(p) => accRequest'[p].stale
             /\ p = q => accRequest'[p].pc = pc /\ accRequest'[p].seen = seen
    <2>1. accRequest[p] \in SessionRequest
        BY <1>1
    <2>2. CASE p = q
        <3>1. accRequest'[p] = [accRequest[p] EXCEPT !.pc = pc, !.seen = seen, !.stale = FALSE]
            BY <2>2 DEF Writes
        <3>2. QED
            BY <2>1, <2>2, <3>1 DEF SessionRequest, SessionPcs
    <2>3. CASE p # q /\ Holding(p)
        <3>1. accRequest'[p] = [accRequest[p] EXCEPT !.stale = TRUE]
            BY <2>3 DEF Writes, Holding
        <3>2. QED
            BY <2>1, <2>3, <3>1 DEF SessionRequest
    <2>4. CASE p # q /\ ~ Holding(p)
        <3>1. accRequest'[p] = accRequest[p]
            BY <2>4 DEF Writes, Holding
        <3>2. QED
            BY <2>1, <2>4, <3>1
    <2>5. QED
        BY <2>2, <2>3, <2>4
<1>4. accRequest' \in [SessionRequests -> SessionRequest]
    <2>1. \A p \in SessionRequests : accRequest'[p] \in SessionRequest
        BY <1>3
    <2>2. QED
        BY <2>1 DEF Writes
<1>5. RequestsGo(q) /\ accRequest'[q].pc = pc /\ accRequest'[q].token = accRequest[q].token
    BY <1>3, <1>4 DEF RequestsGo
<1>6. row # NoAccount
    BY AccountTyped
<1>7. ASSUME NEW p \in SessionRequests PROVE HoldsRow(p)'
    <2>1. CASE p = q
        <3>1. accRequest'[p].pc = pc /\ accRequest'[p].seen = seen /\ accRequest'[p].kind = "login"
            BY <1>1, <1>3, <2>1 DEF HoldsRow
        <3>2. pc \in {"clear", "locked", "verify", "record", "reset"} => seen.attempts = row.attempts
            OBVIOUS
        <3>3. QED
            BY <1>2, <1>6, <3>1, <3>2 DEF HoldsRow, Holding
    <2>2. CASE p # q
        <3>1. HoldsRow(p)
            BY DEF SessionInv, AccountPart
        <3>2. QED
            BY <1>2, <1>3, <1>6, <2>2, <3>1 DEF HoldsRow, Holding
    <2>3. QED
        BY <2>1, <2>2
<1>8. accBlind' = {} => accRow' = accIdeal'
    <2>1. SUFFICES ASSUME accBlind' = {} PROVE row = ideal
        BY <1>2
    <2>2. ~ accRequest[q].stale /\ accBlind = {}
        BY <1>2, <2>1
    <2>3. QED
        BY <2>2 DEF SessionInv, AccountPart
<1>9. accLifted' \subseteq accBlind'
    <2>1. accLifted \subseteq accBlind
        BY DEF SessionInv, AccountPart
    <2>2. QED
        BY <1>2, <2>1
<1>10. AccountPart'
    BY <1>2, <1>7, <1>8, <1>9 DEF AccountPart, LockedFromZero
<1>11. accBlind' \subseteq SessionRequests /\ accLifted' \subseteq SessionRequests
    BY <1>1, <1>2 DEF SessionTypeOK
<1>12. QED
    BY <1>2, <1>5, <1>10, <1>11

\* A login that has written the account, or that only goes on, leaves the tokens.
LEMMA LoginGoesOn ==
    ASSUME SessionInv, NEW q \in SessionRequests, Holding(q), RequestsGo(q), AccountPart',
           NEW pc \in {"locked", "verify", "record", "reset", "tell", "issue"}, accRequest'[q].pc = pc,
           accRequest'[q].token = accRequest[q].token,
           accRow' \in Account \cup {NoAccount}, accIdeal' \in Account \cup {NoAccount},
           accBlind' \subseteq SessionRequests, accLifted' \subseteq SessionRequests,
           UNCHANGED <<accToken, accTold, accNow, accFaults, accOverlaps>>,
           accOwed \subseteq accOwed', accOwed' \subseteq SessionRequests
    PROVE  SessionInv'
<1>1. SessionTypeOK /\ accRequest[q].kind = "login" /\ accRequest'[q].kind = "login" /\ accRequest[q].pc # "done"
    BY DEF SessionInv, AccountPart, HoldsRow, Holding, RequestsGo
<1>2. TokensLeft(q)
    BY <1>1 DEF TokensLeft, FoundUsable
<1>3. ToldOrFault(q) /\ accFaults' <= MaxSessionFaults
    BY <1>1, SessionAssumption DEF ToldOrFault, Holding, SessionTypeOK
<1>4. KindStands(q)'
    BY <1>1 DEF KindStands
<1>5. accOverlaps' \subseteq SUBSET SessionRequests /\ accTold' \subseteq SessionRequests
    BY <1>1 DEF SessionTypeOK
<1>6. QED
    BY <1>2, <1>3, <1>4, <1>5, SessionFrame

LEMMA ExpiredLocks ==
    ASSUME SessionTypeOK, NEW row \in Account \cup {NoAccount}
    PROVE  /\ Expired(row) => row \in Account /\ ~ IsLocked(row) /\ row.lock # 0
           /\ ~ Expired(row) /\ ~ IsLocked(row) => row.lock = 0
<1>1. accNow \in Nat /\ row.lock \in Nat
    BY AccountTyped, SessionAssumption DEF SessionTypeOK
<1>2. row = NoAccount => row.lock = 0
    BY AccountTyped
<1>3. QED
    BY <1>1, <1>2 DEF Expired, IsLocked

\* An expired lock is taken from the row, as logins one after the other would take it.
LEMMA ExpiredCleared ==
    ASSUME SessionInv, NEW q \in SessionRequests, accRequest[q].pc \in {"clear", "locked"},
           Expired(accRequest[q].seen), NEW pc \in {"locked", "verify"}, NEW seen \in {Clear, accRequest[q].seen},
           pc = "locked" => seen = Clear,
           Writes(q, Clear, IF Expired(accIdeal) THEN Clear ELSE accIdeal, pc, seen),
           UNCHANGED <<accToken, accOwed, accTold, accNow, accFaults, accOverlaps>>
    PROVE  SessionInv'
<1> DEFINE ideal == IF Expired(accIdeal) THEN Clear ELSE accIdeal
<1>1. /\ SessionTypeOK /\ AccountPart /\ HoldsRow(q) /\ Holding(q)
    BY DEF SessionInv, AccountPart, Holding
<1>2. accRow \in Account \cup {NoAccount} /\ accIdeal \in Account \cup {NoAccount}
    BY <1>1 DEF SessionTypeOK
<1>3. /\ accRequest[q].seen \in Account /\ LockedFromZero(accRequest[q].seen)
      /\ ~ accRequest[q].stale => accRequest[q].seen = accRow
    BY <1>1 DEF HoldsRow
<1>4. accRequest[q].seen.attempts = 0
    BY <1>1, <1>3, ExpiredLocks DEF LockedFromZero
<1>5. ideal \in Account \cup {NoAccount} /\ LockedFromZero(ideal) /\ LockedFromZero(Clear) /\ Clear \in Account
    BY <1>1, <1>2, AccountTyped DEF AccountPart, LockedFromZero
<1>6. seen \in Account /\ LockedFromZero(seen) /\ seen.attempts = Clear.attempts /\ Clear.lock = 0
    BY <1>3, <1>4, <1>5, AccountTyped
<1>7. ~ accRequest[q].stale =>
          (accRow = accIdeal => Clear = ideal) /\ ~ (IsLocked(accRow) /\ Clear.lock < accRow.lock)
    BY <1>1, <1>2, <1>3, ExpiredLocks
<1>8. pc \in SessionPcs
    BY DEF SessionPcs
<1>9. Writes(q, Clear, ideal, pc, seen)
    OBVIOUS
<1> HIDE DEF ideal
<1>10. /\ RequestsGo(q) /\ accRequest'[q].pc = pc /\ accRequest'[q].token = accRequest[q].token
       /\ AccountPart' /\ accRow' \in Account /\ accIdeal' \in Account \cup {NoAccount}
       /\ accBlind' \subseteq SessionRequests /\ accLifted' \subseteq SessionRequests
    BY <1>1, <1>5, <1>6, <1>7, <1>8, <1>9, WriteKeeps
<1>11. accOwed' \subseteq SessionRequests
    BY <1>1 DEF SessionTypeOK
<1>12. QED
    BY <1>1, <1>10, <1>11, LoginGoesOn

\* A login that only goes on.
LEMMA LoginMoves ==
    ASSUME SessionInv, NEW q \in SessionRequests, Holding(q),
           NEW pc \in {"locked", "verify", "record", "reset", "tell"}, SessionGoes(q, pc), HoldsRow(q)',
           UNCHANGED <<accRow, accGhosts, accToken, accOwed, accTold, accNow, accFaults, accOverlaps>>
    PROVE  SessionInv'
<1>1. SessionTypeOK /\ pc \in SessionPcs
    BY DEF SessionInv, SessionPcs
<1>2. GoesAlone(q, pc) /\ accRequest'[q].token = accRequest[q].token
    BY <1>1, SessionGoesAlone
<1>3. AccountPart'
    BY <1>2, RowsStay
<1>4. /\ RequestsGo(q) /\ accRequest'[q].pc = pc
      /\ accRow' \in Account \cup {NoAccount} /\ accIdeal' \in Account \cup {NoAccount}
      /\ accBlind' \subseteq SessionRequests /\ accLifted' \subseteq SessionRequests
      /\ accOwed \subseteq accOwed' /\ accOwed' \subseteq SessionRequests
    BY <1>1, <1>2 DEF GoesAlone, SessionTypeOK, accGhosts
<1>5. QED
    BY <1>2, <1>3, <1>4, LoginGoesOn

-----------------------------------------------------------------------------
(* Each step keeps the invariant *)

\* A request that goes on without the account's row in its hand.
LEMMA SessionMoves ==
    ASSUME SessionInv, NEW q \in SessionRequests,
           NEW pc \in {"refused", "failed", "done", "issue", "insert", "user"}, SessionGoes(q, pc),
           KindStands(q)', TokensLeft(q), ToldOrFault(q),
           UNCHANGED <<accRow, accGhosts, accNow, accOverlaps>>,
           accOwed' \subseteq SessionRequests, accTold' \subseteq SessionRequests,
           accFaults' <= MaxSessionFaults
    PROVE  SessionInv'
<1>1. SessionTypeOK /\ pc \in SessionPcs
    BY DEF SessionInv, SessionPcs
<1>2. GoesAlone(q, pc) /\ accRequest'[q].token = accRequest[q].token
    BY <1>1, SessionGoesAlone
<1>3. RequestsGo(q) /\ HoldsRow(q)'
    BY <1>2 DEF GoesAlone, HoldsRow, Holding
<1>4. AccountPart'
    BY <1>2, <1>3, RowsStay
<1>5. /\ accRow' \in Account \cup {NoAccount} /\ accIdeal' \in Account \cup {NoAccount}
      /\ accBlind' \subseteq SessionRequests /\ accLifted' \subseteq SessionRequests
      /\ accOverlaps \subseteq accOverlaps' /\ accOverlaps' \subseteq SUBSET SessionRequests
    BY <1>1 DEF SessionTypeOK, accGhosts
<1>6. QED
    BY <1>2, <1>3, <1>4, <1>5, SessionFrame

\* Only the audit's records move.
LEMMA RecordsMove ==
    ASSUME SessionInv, NEW q \in SessionRequests, UNCHANGED accRequest, ToldOrFault(q),
           UNCHANGED <<accRow, accToken, accGhosts, accNow, accOverlaps>>,
           accOwed' \subseteq SessionRequests, accTold' \subseteq SessionRequests,
           accFaults' <= MaxSessionFaults
    PROVE  SessionInv'
<1>1. SessionTypeOK /\ AccountPart /\ KindStands(q)
    BY DEF SessionInv
<1>2. RequestsGo(q)
    BY <1>1 DEF RequestsGo, SessionTypeOK
<1>3. AccountPart'
    BY <1>1 DEF AccountPart, HoldsRow, Holding, LockedFromZero, accGhosts
<1>4. TokensLeft(q) /\ KindStands(q)'
    BY <1>1 DEF TokensLeft, FoundUsable, KindStands
<1>5. \/ accRequest[q].pc \notin {"user", "issue", "done"}
      \/ accRequest'[q].pc \in {"user", "issue", "done"}
    OBVIOUS
<1>6. /\ accRow' \in Account \cup {NoAccount} /\ accIdeal' \in Account \cup {NoAccount}
      /\ accBlind' \subseteq SessionRequests /\ accLifted' \subseteq SessionRequests
      /\ accOverlaps \subseteq accOverlaps' /\ accOverlaps' \subseteq SUBSET SessionRequests
      /\ accRequest'[q].token = accRequest[q].token
    BY <1>1 DEF SessionTypeOK, accGhosts
<1>7. QED
    BY <1>2, <1>3, <1>4, <1>6, SessionFrame

LEMMA FindUserKeeps ==
    ASSUME SessionInv, NEW q \in SessionRequests, FindUser(q)
    PROVE  SessionInv'
<1> DEFINE pc == IF accRow = NoAccount THEN "refused" ELSE "clear"
<1>1. SessionTypeOK /\ AccountPart
    BY DEF SessionInv
<1>2. accRequest[q] \in SessionRequest /\ accRequest \in [SessionRequests -> SessionRequest]
      /\ accRow \in Account \cup {NoAccount}
    BY <1>1 DEF SessionTypeOK
<1>3. pc \in SessionPcs
    BY DEF SessionPcs
<1>4. accRequest' = [accRequest EXCEPT ![q] = [accRequest[q] EXCEPT !.seen = accRow, !.pc = pc]]
    BY <1>2 DEF FindUser
<1>5. [accRequest[q] EXCEPT !.seen = accRow, !.pc = pc] \in SessionRequest
    BY <1>2, <1>3 DEF SessionRequest, SessionPcs
<1>6. /\ GoesAlone(q, pc) /\ accRequest'[q].token = accRequest[q].token /\ accRequest'[q].seen = accRow
      /\ accRequest'[q].kind = "login" /\ RequestsGo(q)
    BY <1>2, <1>4, <1>5 DEF GoesAlone, RequestsGo, SessionRequest, FindUser
<1>7. HoldsRow(q)'
    BY <1>1, <1>2, <1>6 DEF HoldsRow, Holding, FindUser, AccountPart
<1>8. AccountPart'
    <2>1. UNCHANGED <<accRow, accGhosts>>
        BY DEF FindUser
    <2>2. QED
        BY <1>6, <1>7, <2>1, RowsStay
<1>9. /\ accOwed \subseteq accOwed' /\ accOwed' \subseteq SessionRequests
      /\ accRow = NoAccount => q \in accOwed'
    BY <1>1 DEF FindUser, SessionTypeOK
<1>10. TokensLeft(q) /\ KindStands(q)'
    BY <1>6 DEF TokensLeft, FoundUsable, FindUser, KindStands, SessionAt, GoesAlone
<1>11. ToldOrFault(q)
    BY <1>6, <1>9 DEF ToldOrFault, FindUser, SessionAt, GoesAlone
<1>12. /\ accRow' \in Account \cup {NoAccount} /\ accIdeal' \in Account \cup {NoAccount}
       /\ accBlind' \subseteq SessionRequests /\ accLifted' \subseteq SessionRequests
       /\ accOverlaps \subseteq accOverlaps' /\ accOverlaps' \subseteq SUBSET SessionRequests
       /\ accTold' \subseteq SessionRequests /\ accNow' = accNow /\ accFaults' <= MaxSessionFaults
    BY <1>1, SessionAssumption DEF SessionTypeOK, accGhosts, FindUser
<1>13. QED
    BY <1>6, <1>8, <1>9, <1>10, <1>11, <1>12, SessionFrame

LEMMA ClearExpiredLockKeeps ==
    ASSUME SessionInv, NEW q \in SessionRequests, ClearExpiredLock(q)
    PROVE  SessionInv'
<1>1. SessionTypeOK /\ HoldsRow(q) /\ Holding(q) /\ accRequest[q].pc = "clear"
    BY DEF SessionInv, AccountPart, ClearExpiredLock, SessionAt, Holding
<1>2. CASE Expired(accRequest[q].seen)
    <2>1. Writes(q, Clear, IF Expired(accIdeal) THEN Clear ELSE accIdeal, "locked", Clear)
        BY <1>2 DEF ClearExpiredLock
    <2>2. UNCHANGED <<accToken, accOwed, accTold, accNow, accFaults, accOverlaps>>
        BY DEF ClearExpiredLock
    <2>3. QED
        BY <1>1, <1>2, <2>1, <2>2, ExpiredCleared
<1>3. CASE ~ Expired(accRequest[q].seen)
    <2>1. SessionGoes(q, "locked")
          /\ UNCHANGED <<accRow, accGhosts, accToken, accOwed, accTold, accNow, accFaults, accOverlaps>>
        BY <1>3 DEF ClearExpiredLock
    <2>2. "locked" \in SessionPcs
        BY DEF SessionPcs
    <2>3. HoldsRow(q)'
        <3>1. GoesAlone(q, "locked") /\ accRequest'[q].seen = accRequest[q].seen
              /\ accRequest'[q].stale = accRequest[q].stale
            BY <1>1, <2>1, <2>2, SessionGoesAlone
        <3>2. QED
            BY <1>1, <2>1, <3>1 DEF HoldsRow, Holding, GoesAlone, RequestsGo
    <2>4. QED
        BY <1>1, <2>1, <2>3, LoginMoves
<1>4. QED
    BY <1>2, <1>3

LEMMA IsAccountLockedKeeps ==
    ASSUME SessionInv, NEW q \in SessionRequests, IsAccountLocked(q)
    PROVE  SessionInv'
<1>1. SessionTypeOK /\ HoldsRow(q) /\ Holding(q) /\ accRequest[q].pc = "locked"
    BY DEF SessionInv, AccountPart, IsAccountLocked, SessionAt, Holding
<1>2. CASE Expired(accRequest[q].seen)
    <2>1. Writes(q, Clear, IF Expired(accIdeal) THEN Clear ELSE accIdeal, "verify", accRequest[q].seen)
        BY <1>2 DEF IsAccountLocked
    <2>2. UNCHANGED <<accToken, accOwed, accTold, accNow, accFaults, accOverlaps>>
        BY DEF IsAccountLocked
    <2>3. QED
        BY <1>1, <1>2, <2>1, <2>2, ExpiredCleared
<1>3. CASE ~ Expired(accRequest[q].seen)
    <2> DEFINE pc == IF IsLocked(accRequest[q].seen) THEN "tell" ELSE "verify"
    <2>1. SessionGoes(q, pc)
          /\ UNCHANGED <<accRow, accGhosts, accToken, accOwed, accTold, accNow, accFaults, accOverlaps>>
        BY <1>3 DEF IsAccountLocked
    <2>2. pc \in SessionPcs /\ pc \in {"tell", "verify"}
        BY DEF SessionPcs
    <2>3. HoldsRow(q)'
        <3>1. GoesAlone(q, pc) /\ accRequest'[q].seen = accRequest[q].seen
              /\ accRequest'[q].stale = accRequest[q].stale
            BY <1>1, <2>1, <2>2, SessionGoesAlone
        <3>2. accRequest[q].seen \in Account /\ (~ accRequest[q].stale => accRequest[q].seen = accRow)
            BY <1>1 DEF HoldsRow
        <3>3. pc = "verify" => accRequest[q].seen.lock = 0
            BY <1>1, <1>3, <3>2, ExpiredLocks
        <3>4. QED
            BY <1>1, <2>1, <2>2, <3>1, <3>2, <3>3 DEF HoldsRow, Holding, GoesAlone, RequestsGo
    <2>4. QED
        BY <1>1, <2>1, <2>2, <2>3, LoginMoves
<1>4. QED
    BY <1>2, <1>3

LEMMA VerifyPasswordKeeps ==
    ASSUME SessionInv, NEW q \in SessionRequests, VerifyPassword(q)
    PROVE  SessionInv'
<1>1. SessionTypeOK /\ HoldsRow(q) /\ Holding(q) /\ accRequest[q].pc = "verify"
    BY DEF SessionInv, AccountPart, VerifyPassword, SessionAt, Holding
<1>2. PICK pc \in {"record", "reset"} : SessionGoes(q, pc)
    BY DEF VerifyPassword
<1>3. UNCHANGED <<accRow, accGhosts, accToken, accOwed, accTold, accNow, accFaults, accOverlaps>>
    BY DEF VerifyPassword
<1>4. HoldsRow(q)'
    <2>1. pc \in SessionPcs
        BY DEF SessionPcs
    <2>2. GoesAlone(q, pc) /\ accRequest'[q].seen = accRequest[q].seen
          /\ accRequest'[q].stale = accRequest[q].stale
        BY <1>1, <1>2, <2>1, SessionGoesAlone
    <2>3. QED
        BY <1>1, <1>3, <2>2 DEF HoldsRow, Holding, GoesAlone, RequestsGo
<1>5. QED
    BY <1>1, <1>2, <1>3, <1>4, LoginMoves

LEMMA RecordFailedLoginKeeps ==
    ASSUME SessionInv, NEW q \in SessionRequests, RecordFailedLogin(q)
    PROVE  SessionInv'
<1> DEFINE row == Failed(accRequest[q].seen)
           pc == IF row.lock # 0 THEN "tell" ELSE "refused"
<1>1. SessionTypeOK /\ AccountPart /\ HoldsRow(q) /\ Holding(q) /\ accRequest[q].pc = "record"
    BY DEF SessionInv, AccountPart, RecordFailedLogin, SessionAt, Holding
<1>2. /\ accRequest[q].seen \in Account /\ LockedFromZero(accRequest[q].seen)
      /\ ~ accRequest[q].stale => accRequest[q].seen.attempts = accRow.attempts /\ accRow.lock = 0
      /\ accRequest[q].kind = "login" /\ accIdeal \in Account \cup {NoAccount}
    BY <1>1 DEF HoldsRow, SessionTypeOK
<1>3. Writes(q, row, Failed(accIdeal), pc, accRequest[q].seen)
    BY DEF RecordFailedLogin
<1>4. /\ row \in Account /\ LockedFromZero(row)
      /\ Failed(accIdeal) \in Account /\ LockedFromZero(Failed(accIdeal))
    BY <1>1, <1>2, FailedTyped
<1>5. ~ accRequest[q].stale =>
          (accRow = accIdeal => row = Failed(accIdeal)) /\ ~ (IsLocked(accRow) /\ row.lock < accRow.lock)
    <2>1. accRow.lock = 0 => ~ IsLocked(accRow)
        BY <1>1, SessionAssumption DEF IsLocked, SessionTypeOK
    <2>2. accRequest[q].seen.attempts = accIdeal.attempts => row = Failed(accIdeal)
        BY DEF Failed
    <2>3. QED
        BY <1>2, <2>1, <2>2
<1>6. pc \in SessionPcs /\ pc \in {"tell", "refused"}
    BY DEF SessionPcs
<1> HIDE DEF row, pc
<1>7. /\ RequestsGo(q) /\ accRequest'[q].pc = pc /\ accRequest'[q].token = accRequest[q].token
      /\ AccountPart' /\ accRow' \in Account /\ accIdeal' \in Account \cup {NoAccount}
      /\ accBlind' \subseteq SessionRequests /\ accLifted' \subseteq SessionRequests
    BY <1>1, <1>2, <1>3, <1>4, <1>5, <1>6, WriteKeeps
<1>8. /\ accOwed' = accOwed \cup {q} /\ accOwed' \subseteq SessionRequests
      /\ accRequest'[q].kind = "login"
      /\ UNCHANGED <<accToken, accTold, accNow, accFaults, accOverlaps>>
    BY <1>1, <1>2, <1>7 DEF RecordFailedLogin, SessionTypeOK, RequestsGo
<1>9. TokensLeft(q) /\ KindStands(q)'
    BY <1>1, <1>2, <1>6, <1>7, <1>8 DEF TokensLeft, FoundUsable, KindStands
<1>10. ToldOrFault(q)
    BY <1>1, <1>8 DEF ToldOrFault
<1>11. accFaults' <= MaxSessionFaults /\ accTold' \subseteq SessionRequests
       /\ accOverlaps' \subseteq SUBSET SessionRequests
    BY <1>1, <1>8, SessionAssumption DEF SessionTypeOK
<1>12. QED
    BY <1>7, <1>8, <1>9, <1>10, <1>11, SessionFrame

LEMMA TellLockedKeeps ==
    ASSUME SessionInv, NEW q \in SessionRequests, TellLocked(q)
    PROVE  SessionInv'
<1>1. SessionTypeOK /\ "refused" \in SessionPcs
    BY DEF SessionInv, SessionPcs
<1>2. SessionGoes(q, "refused") /\ accTold' = accTold \cup {q} /\ accRequest[q].pc = "tell"
      /\ UNCHANGED <<accRow, accToken, accOwed, accNow, accFaults, accGhosts, accOverlaps>>
    BY DEF TellLocked, SessionAt
<1>3. accRequest'[q].pc = "refused"
    BY <1>1, <1>2, SessionGoesAlone DEF GoesAlone
<1>4. TokensLeft(q) /\ KindStands(q)' /\ ToldOrFault(q)
    BY <1>2, <1>3 DEF TokensLeft, FoundUsable, KindStands, ToldOrFault
<1>5. accOwed' \subseteq SessionRequests /\ accTold' \subseteq SessionRequests /\ accFaults' <= MaxSessionFaults
    BY <1>1, <1>2, SessionAssumption DEF SessionTypeOK
<1>6. QED
    BY <1>2, <1>4, <1>5, SessionMoves

LEMMA RecordAuditKeeps ==
    ASSUME SessionInv, NEW q \in SessionRequests, RecordAudit(q)
    PROVE  SessionInv'
<1>1. SessionTypeOK
    BY DEF SessionInv
<1>2. accOwed' \subseteq SessionRequests /\ accTold' \subseteq SessionRequests /\ accFaults' <= MaxSessionFaults
    BY <1>1, SessionAssumption DEF SessionTypeOK, RecordAudit
<1>3. ToldOrFault(q)
    BY DEF ToldOrFault, RecordAudit
<1>4. UNCHANGED <<accRow, accToken, accRequest, accGhosts, accNow, accOverlaps>>
    BY DEF RecordAudit
<1>5. QED
    BY <1>2, <1>3, <1>4, RecordsMove

LEMMA ResetKeeps ==
    ASSUME SessionInv, NEW q \in SessionRequests, ResetAfterSuccessfulLogin(q)
    PROVE  SessionInv'
<1>1. SessionTypeOK /\ AccountPart /\ HoldsRow(q) /\ Holding(q) /\ accRequest[q].pc = "reset"
    BY DEF SessionInv, AccountPart, ResetAfterSuccessfulLogin, SessionAt, Holding
<1>2. /\ accRequest[q].seen \in Account /\ LockedFromZero(accRequest[q].seen)
      /\ ~ accRequest[q].stale => accRow.lock = 0
    BY <1>1 DEF HoldsRow
<1>3. Clear \in Account /\ LockedFromZero(Clear)
    BY AccountTyped DEF LockedFromZero
<1>4. Writes(q, Clear, Clear, "issue", accRequest[q].seen)
      /\ UNCHANGED <<accToken, accOwed, accTold, accNow, accFaults, accOverlaps>>
    BY DEF ResetAfterSuccessfulLogin
<1>5. accRow.lock = 0 => ~ IsLocked(accRow)
    BY <1>1, SessionAssumption DEF IsLocked, SessionTypeOK
<1>6. "issue" \in SessionPcs
    BY DEF SessionPcs
<1>7. /\ RequestsGo(q) /\ accRequest'[q].pc = "issue" /\ accRequest'[q].token = accRequest[q].token
      /\ AccountPart' /\ accRow' \in Account /\ accIdeal' \in Account \cup {NoAccount}
      /\ accBlind' \subseteq SessionRequests /\ accLifted' \subseteq SessionRequests
    BY <1>1, <1>2, <1>3, <1>4, <1>5, <1>6, WriteKeeps
<1>8. accOwed \subseteq accOwed' /\ accOwed' \subseteq SessionRequests
    BY <1>1, <1>4 DEF SessionTypeOK
<1>9. QED
    BY <1>1, <1>4, <1>7, <1>8, LoginGoesOn

LEMMA FindTokenKeeps ==
    ASSUME SessionInv, NEW q \in SessionRequests, FindToken(q)
    PROVE  SessionInv'
<1>1. SessionTypeOK /\ AccountPart /\ TokenPart /\ LossPart
    BY DEF SessionInv
<1>2. PICK t \in Tokens \ {q} :
          /\ accToken[t].state # "unused"
          /\ accRequest' = [accRequest EXCEPT ![q].token = t,
                               ![q].pc = IF Usable(t) THEN "revoke" ELSE "refused"]
          /\ accOverlaps' = accOverlaps \cup
                 {{p, q} : p \in {r \in SessionRequests : SessionAt(r, "revoke") /\ accRequest[r].token = t}}
    BY DEF FindToken
<1> DEFINE pc == IF Usable(t) THEN "revoke" ELSE "refused"
<1>3. accRequest[q] \in SessionRequest /\ accRequest \in [SessionRequests -> SessionRequest]
      /\ accRequest[q].pc = "new" /\ accRequest[q].kind \in {"refresh", "logout"}
      /\ UNCHANGED <<accRow, accToken, accOwed, accTold, accNow, accFaults, accGhosts>>
    BY <1>1 DEF SessionTypeOK, FindToken, SessionAt
<1>4. pc \in SessionPcs
    BY DEF SessionPcs
<1>5. accRequest' = [accRequest EXCEPT ![q] = [accRequest[q] EXCEPT !.token = t, !.pc = pc]]
    BY <1>2, <1>3
<1>6. [accRequest[q] EXCEPT !.token = t, !.pc = pc] \in SessionRequest
    BY <1>3, <1>4 DEF SessionRequest, SessionPcs
<1>7. /\ GoesAlone(q, pc) /\ accRequest'[q].token = t /\ accRequest'[q].pc = pc
      /\ accRequest'[q].kind = accRequest[q].kind /\ RequestsGo(q)
    BY <1>3, <1>5, <1>6 DEF GoesAlone, RequestsGo, SessionRequest
<1>8. AccountPart'
    <2>1. HoldsRow(q)'
        BY <1>7 DEF HoldsRow, Holding
    <2>2. QED
        BY <1>3, <1>7, <2>1, RowsStay
<1>9. KindStands(q)'
    BY <1>3, <1>7 DEF KindStands
<1>10. ToldOrFault(q)
    BY <1>3 DEF ToldOrFault
<1>11. accOverlaps \subseteq accOverlaps' /\ accOverlaps' \subseteq SUBSET SessionRequests
    BY <1>1, <1>2 DEF SessionTypeOK
<1>12. /\ accRow' \in Account \cup {NoAccount} /\ accIdeal' \in Account \cup {NoAccount}
       /\ accBlind' \subseteq SessionRequests /\ accLifted' \subseteq SessionRequests
       /\ accOwed' \subseteq SessionRequests /\ accTold' \subseteq SessionRequests
       /\ accNow' = accNow /\ accFaults' = accFaults /\ accFaults' <= MaxSessionFaults
       /\ accFaults' \in 0..MaxSessionFaults
    BY <1>1, <1>3, SessionAssumption DEF SessionTypeOK, accGhosts
<1>13. CASE ~ Usable(t)
    <2>1. TokensLeft(q)
        BY <1>3, <1>7, <1>13 DEF TokensLeft, FoundUsable
    <2>2. QED
        BY <1>3, <1>7, <1>8, <1>9, <1>10, <1>11, <1>12, <2>1, SessionFrame
<1>14. CASE Usable(t)
    <2>1. accRequest'[q].pc = "revoke" /\ accToken[t].state = "live" /\ t # q
        BY <1>2, <1>7, <1>14 DEF Usable
    <2>2. SessionTypeOK'
        BY <1>1, <1>3, <1>7, <1>11, <1>12 DEF SessionTypeOK, RequestsGo
    <2>3. ASSUME NEW p \in SessionRequests PROVE KindStands(p)' /\ TokenStands(p)'
        <3>1. KindStands(p) /\ TokenStands(p)
            BY <1>1 DEF SessionInv, TokenPart
        <3>2. CASE p = q
            BY <1>3, <1>7, <1>9, <2>1, <3>1, <3>2 DEF TokenStands
        <3>3. CASE p # q
            BY <1>3, <1>7, <3>1, <3>3 DEF TokenStands, KindStands, FoundUsable, GoesAlone
        <3>4. QED
            BY <3>2, <3>3
    <2>4. ASSUME NEW p \in SessionRequests, p # q, FoundUsable(p, t)'
          PROVE  {p, q} \in accOverlaps'
        <3>1. FoundUsable(p, t) /\ FoundUsable(p, accRequest[p].token) /\ accRequest[p].token = t
            BY <1>7, <2>4 DEF FoundUsable, GoesAlone
        <3>2. accRequest[p].pc = "revoke"
            BY <1>1, <2>1, <3>1 DEF TokenPart, TokenStands
        <3>3. p \in {r \in SessionRequests : SessionAt(r, "revoke") /\ accRequest[r].token = t}
            BY <3>1, <3>2 DEF SessionAt
        <3>4. QED
            BY <1>2, <3>3
    <2>5. ASSUME NEW p \in SessionRequests, NEW r \in SessionRequests, p # r,
                 FoundUsable(p, accRequest[r].token)', FoundUsable(r, accRequest[r].token)'
          PROVE  {p, r} \in accOverlaps'
        <3>1. CASE r = q
            BY <1>7, <2>4, <2>5, <3>1 DEF FoundUsable
        <3>2. CASE p = q
            <4>1. FoundUsable(r, t)' /\ {r, q} = {p, r}
                BY <1>7, <2>5, <3>2 DEF FoundUsable
            <4>2. QED
                BY <2>4, <2>5, <3>2, <4>1
        <3>3. CASE p # q /\ r # q
            <4>1. FoundUsable(p, accRequest[r].token) /\ FoundUsable(r, accRequest[r].token)
                BY <1>7, <2>5, <3>3 DEF FoundUsable, GoesAlone
            <4>2. {p, r} \in accOverlaps
                BY <1>1, <2>5, <4>1 DEF TokenPart, FindersOverlap
            <4>3. QED
                BY <1>11, <4>2
        <3>4. QED
            BY <3>1, <3>2, <3>3
    <2>6. LossPart'
        <3>1. accFaults # accFaults + 1
            BY <1>12, SessionAssumption
        <3>2. UntoldRefusals' \subseteq UntoldRefusals
            BY <1>7, <1>10, <1>12, RefusalsTold
        <3>3. \A s \in Tokens : Exchanges(s) \subseteq Exchanges(s)' /\ (LoggedOut(s) => LoggedOut(s)')
            BY <1>3, <1>7 DEF Exchanges, LoggedOut, SessionAt, GoesAlone
        <3>4. LostTokens' \subseteq LostTokens
            BY <1>3, <3>3 DEF LostTokens
        <3>5. QED
            BY <1>12, <3>2, <3>4, LossesStay
    <2>7. TokenPart'
        BY <2>3, <2>5 DEF TokenPart, FindersOverlap
    <2>8. QED
        BY <1>8, <2>2, <2>3, <2>6, <2>7 DEF SessionInv
<1>15. QED
    BY <1>13, <1>14

LEMMA RevokeTokenKeeps ==
    ASSUME SessionInv, NEW q \in SessionRequests, RevokeToken(q)
    PROVE  SessionInv'
<1> DEFINE t == accRequest[q].token
           pc == IF accRequest[q].kind = "logout" THEN "done" ELSE "user"
<1>1. SessionTypeOK /\ AccountPart /\ TokenPart /\ LossPart /\ accRequest[q].pc = "revoke"
    BY DEF SessionInv, RevokeToken, SessionAt
<1>2. /\ SessionGoes(q, pc) /\ pc \in SessionPcs
      /\ UNCHANGED <<accRow, accOwed, accTold, accNow, accFaults, accGhosts, accOverlaps>>
    BY DEF RevokeToken, SessionPcs
<1>3. GoesAlone(q, pc) /\ accRequest'[q].token = t /\ accRequest'[q].pc = pc /\ RequestsGo(q)
      /\ accRequest'[q].kind = accRequest[q].kind
    <2>1. GoesAlone(q, pc) /\ accRequest'[q].token = t
        BY <1>1, <1>2, SessionGoesAlone
    <2>2. QED
        BY <2>1 DEF GoesAlone, RequestsGo
<1>4. t \in Tokens /\ accRequest[q].kind \in {"refresh", "logout"} /\ FoundUsable(q, t)
    BY <1>1, SessionRequestTyped DEF SessionInv, KindStands, FoundUsable
<1>5. accToken[t].state # "unused" /\ accToken[q].state = "unused"
    BY <1>1, <1>4 DEF TokenPart, TokenStands
<1>6. /\ accToken' \in [Tokens -> [state : {"unused", "live", "revoked"}, until : 0..MaxSessionTime + TokenTicks]]
      /\ accToken'[t].state = "revoked"
      /\ \A s \in Tokens : s # t => accToken'[s] = accToken[s]
    BY <1>1, <1>4 DEF SessionTypeOK, RevokeToken
<1>7. AccountPart'
    <2>1. HoldsRow(q)' /\ UNCHANGED <<accRow, accGhosts>>
        BY <1>2, <1>3 DEF HoldsRow, Holding
    <2>2. QED
        BY <1>3, <2>1, RowsStay
<1>8. SessionTypeOK'
    BY <1>1, <1>2, <1>3, <1>6 DEF SessionTypeOK, RequestsGo, accGhosts
<1>9. ASSUME NEW p \in SessionRequests PROVE KindStands(p)' /\ TokenStands(p)'
    <2>1. KindStands(p) /\ TokenStands(p) /\ p \in Tokens /\ accRequest[p].token \in Tokens
        BY <1>1, SessionRequestTyped DEF SessionInv, TokenPart
    <2>2. CASE p = q
        <3>1. KindStands(p)'
            BY <1>3, <1>4, <2>2 DEF KindStands
        <3>2. t # q /\ accToken'[q].state = "unused"
            BY <1>5, <1>6, <2>1, <2>2
        <3>3. QED
            BY <1>3, <1>6, <2>2, <3>1, <3>2 DEF TokenStands
    <2>3. CASE p # q
        <3>1. KindStands(p)'
            BY <1>3, <2>1, <2>3 DEF KindStands, GoesAlone
        <3>2. accRequest[p].pc # "done" => p # t /\ accToken'[p].state = "unused"
            BY <1>5, <1>6, <2>1 DEF TokenStands
        <3>3. FoundUsable(p, accRequest[p].token)' =>
                  /\ accToken'[accRequest[p].token].state # "unused"
                  /\ accRequest[p].pc # "revoke" => accToken'[accRequest[p].token].state = "revoked"
            BY <1>3, <1>6, <2>1, <2>3 DEF TokenStands, FoundUsable, GoesAlone
        <3>4. QED
            BY <1>3, <2>3, <3>1, <3>2, <3>3 DEF TokenStands, GoesAlone
    <2>4. QED
        BY <2>2, <2>3
<1>10. FindersOverlap'
    <2>1. ASSUME NEW p \in SessionRequests, NEW r \in SessionRequests, p # r,
                 FoundUsable(p, accRequest[r].token)', FoundUsable(r, accRequest[r].token)'
          PROVE  {p, r} \in accOverlaps
        <3>1. ASSUME NEW s \in {p, r}
              PROVE  FoundUsable(s, accRequest[r].token) /\ accRequest'[r].token = accRequest[r].token
            BY <1>1, <1>3, <1>4, <2>1 DEF FoundUsable, GoesAlone, RequestsGo
        <3>2. QED
            BY <1>1, <2>1, <3>1 DEF TokenPart, FindersOverlap
    <2>2. QED
        BY <1>2, <2>1 DEF FindersOverlap
<1>11. LossPart'
    <2>1. accFaults' \in 0..MaxSessionFaults /\ accFaults' = accFaults
        BY <1>1, <1>2 DEF SessionTypeOK
    <2>2. UntoldRefusals' \subseteq UntoldRefusals
        BY <1>2, <1>3, <1>4 DEF UntoldRefusals, SessionAt, GoesAlone, RequestsGo
    <2>3. \A s \in Tokens : Exchanges(s) \subseteq Exchanges(s)' /\ (LoggedOut(s) => LoggedOut(s)')
        BY <1>1, <1>3 DEF Exchanges, LoggedOut, SessionAt, GoesAlone
    <2>4. ASSUME NEW s \in Tokens, s = t PROVE Exchanges(s)' # {} \/ LoggedOut(s)'
        BY <1>3, <1>4, <2>4 DEF Exchanges, LoggedOut, SessionAt
    <2>5. ASSUME NEW s \in LostTokens' PROVE s \in LostTokens
        <3>1. s # t /\ s \in Tokens
            BY <2>4, <2>5 DEF LostTokens
        <3>2. QED
            BY <1>6, <2>3, <2>5, <3>1 DEF LostTokens
    <2>6. QED
        BY <2>1, <2>2, <2>5, LossesStay
<1>12. QED
    BY <1>7, <1>8, <1>9, <1>10, <1>11 DEF SessionInv, TokenPart

LEMMA FindTokensUserKeeps ==
    ASSUME SessionInv, NEW q \in SessionRequests, FindTokensUser(q)
    PROVE  SessionInv'
<1>1. SessionTypeOK /\ KindStands(q) /\ "issue" \in SessionPcs
    BY DEF SessionInv, SessionPcs
<1>2. SessionGoes(q, "issue") /\ accRequest[q].pc = "user" /\ accRequest[q].kind = "refresh"
      /\ UNCHANGED <<accRow, accToken, accOwed, accTold, accNow, accFaults, accGhosts, accOverlaps>>
    BY <1>1 DEF FindTokensUser, SessionAt, KindStands
<1>3. accRequest'[q].pc = "issue" /\ accRequest'[q].token = accRequest[q].token
      /\ accRequest'[q].kind = accRequest[q].kind
    BY <1>1, <1>2, SessionGoesAlone DEF GoesAlone, RequestsGo
<1>4. TokensLeft(q) /\ KindStands(q)' /\ ToldOrFault(q)
    BY <1>2, <1>3 DEF TokensLeft, FoundUsable, KindStands, ToldOrFault
<1>5. accOwed' \subseteq SessionRequests /\ accTold' \subseteq SessionRequests /\ accFaults' <= MaxSessionFaults
    BY <1>1, <1>2, SessionAssumption DEF SessionTypeOK
<1>6. QED
    BY <1>2, <1>4, <1>5, SessionMoves

LEMMA IssueTokenPairKeeps ==
    ASSUME SessionInv, NEW q \in SessionRequests, IssueTokenPair(q)
    PROVE  SessionInv'
<1>1. SessionTypeOK /\ AccountPart /\ TokenPart /\ LossPart /\ accRequest[q].pc = "issue"
    BY DEF SessionInv, IssueTokenPair, SessionAt
<1>2. /\ SessionGoes(q, "done") /\ "done" \in SessionPcs
      /\ UNCHANGED <<accRow, accOwed, accTold, accNow, accFaults, accGhosts, accOverlaps>>
    BY DEF IssueTokenPair, SessionPcs
<1>3. GoesAlone(q, "done") /\ accRequest'[q].token = accRequest[q].token /\ accRequest'[q].pc = "done"
      /\ RequestsGo(q) /\ accRequest'[q].kind = accRequest[q].kind
    <2>1. GoesAlone(q, "done") /\ accRequest'[q].token = accRequest[q].token
        BY <1>1, <1>2, SessionGoesAlone
    <2>2. QED
        BY <2>1 DEF GoesAlone, RequestsGo
<1>4. accRequest[q].kind \in {"login", "refresh"} /\ accToken[q].state = "unused" /\ q \in Tokens
    BY <1>1, SessionRequestTyped DEF SessionInv, KindStands, TokenPart, TokenStands
<1>5. [state |-> "live", until |-> accNow + TokenTicks]
          \in [state : {"unused", "live", "revoked"}, until : 0..MaxSessionTime + TokenTicks]
    BY <1>1, SessionAssumption DEF SessionTypeOK
<1>6. /\ accToken' \in [Tokens -> [state : {"unused", "live", "revoked"}, until : 0..MaxSessionTime + TokenTicks]]
      /\ accToken'[q].state = "live"
      /\ \A s \in Tokens : s # q => accToken'[s] = accToken[s]
    BY <1>1, <1>4, <1>5 DEF SessionTypeOK, IssueTokenPair
<1>7. AccountPart'
    <2>1. HoldsRow(q)' /\ UNCHANGED <<accRow, accGhosts>>
        BY <1>2, <1>3 DEF HoldsRow, Holding
    <2>2. QED
        BY <1>3, <2>1, RowsStay
<1>8. SessionTypeOK'
    BY <1>1, <1>2, <1>3, <1>6 DEF SessionTypeOK, RequestsGo, accGhosts
<1>9. ASSUME NEW p \in SessionRequests PROVE KindStands(p)' /\ TokenStands(p)'
    <2>1. KindStands(p) /\ TokenStands(p) /\ p \in Tokens /\ accRequest[p].token \in Tokens
        BY <1>1, SessionRequestTyped DEF SessionInv, TokenPart
    <2>2. FoundUsable(p, accRequest[p].token)' => FoundUsable(p, accRequest[p].token)
        BY <1>1, <1>3 DEF FoundUsable, GoesAlone
    <2>3. KindStands(p)'
        BY <1>3, <2>1 DEF KindStands, GoesAlone
    <2>4. FoundUsable(p, accRequest[p].token)' =>
              /\ accToken'[accRequest[p].token].state # "unused"
              /\ accRequest[p].pc # "revoke" => accToken'[accRequest[p].token].state = "revoked"
        BY <1>4, <1>6, <2>1, <2>2 DEF TokenStands
    <2>5. accRequest'[p].pc # "done" => accToken'[p].state = "unused"
        BY <1>3, <1>6, <2>1 DEF TokenStands, GoesAlone
    <2>6. accRequest'[p].token = accRequest[p].token /\ (accRequest'[p].pc # "revoke" => accRequest[p].pc # "revoke")
        BY <1>1, <1>3 DEF GoesAlone, RequestsGo
    <2>7. QED
        BY <2>3, <2>4, <2>5, <2>6 DEF TokenStands
<1>10. FindersOverlap'
    <2>1. ASSUME NEW p \in SessionRequests, NEW r \in SessionRequests, p # r,
                 FoundUsable(p, accRequest[r].token)', FoundUsable(r, accRequest[r].token)'
          PROVE  {p, r} \in accOverlaps
        <3>1. ASSUME NEW s \in {p, r}
              PROVE  FoundUsable(s, accRequest[r].token) /\ accRequest'[r].token = accRequest[r].token
            BY <1>1, <1>3, <1>4, <2>1 DEF FoundUsable, GoesAlone, RequestsGo
        <3>2. QED
            BY <1>1, <2>1, <3>1 DEF TokenPart, FindersOverlap
    <2>2. QED
        BY <1>2, <2>1 DEF FindersOverlap
<1>11. LossPart'
    <2>1. accFaults' \in 0..MaxSessionFaults /\ accFaults' = accFaults
        BY <1>1, <1>2 DEF SessionTypeOK
    <2>2. UntoldRefusals' \subseteq UntoldRefusals
        BY <1>2, <1>3 DEF UntoldRefusals, SessionAt, GoesAlone, RequestsGo
    <2>3. \A s \in Tokens : Exchanges(s) \subseteq Exchanges(s)' /\ (LoggedOut(s) => LoggedOut(s)')
        BY <1>1, <1>3 DEF Exchanges, LoggedOut, SessionAt, GoesAlone
    <2>4. LostTokens' \subseteq LostTokens
        BY <1>6, <2>3 DEF LostTokens
    <2>5. QED
        BY <2>1, <2>2, <2>4, LossesStay
<1>12. QED
    BY <1>7, <1>8, <1>9, <1>10, <1>11 DEF SessionInv, TokenPart

LEMMA CheckEmailKeeps ==
    ASSUME SessionInv, NEW q \in SessionRequests, CheckEmail(q)
    PROVE  SessionInv'
<1> DEFINE pc == IF accRow = NoAccount THEN "insert" ELSE "refused"
<1>1. SessionTypeOK /\ pc \in SessionPcs /\ pc \in {"insert", "refused"}
    BY DEF SessionInv, SessionPcs
<1>2. SessionGoes(q, pc) /\ accRequest[q].pc = "new" /\ accRequest[q].kind = "register"
      /\ UNCHANGED <<accRow, accToken, accOwed, accTold, accNow, accFaults, accGhosts, accOverlaps>>
    BY DEF CheckEmail, SessionAt
<1> HIDE DEF pc
<1>3. accRequest'[q].pc = pc /\ accRequest'[q].kind = accRequest[q].kind
    BY <1>1, <1>2, SessionGoesAlone DEF GoesAlone, RequestsGo
<1>4. TokensLeft(q) /\ KindStands(q)' /\ ToldOrFault(q)
    BY <1>1, <1>2, <1>3 DEF TokensLeft, FoundUsable, KindStands, ToldOrFault
<1>5. accOwed' \subseteq SessionRequests /\ accTold' \subseteq SessionRequests /\ accFaults' <= MaxSessionFaults
    BY <1>1, <1>2, SessionAssumption DEF SessionTypeOK
<1>6. QED
    BY <1>1, <1>2, <1>4, <1>5, SessionMoves

LEMMA InsertUserKeeps ==
    ASSUME SessionInv, NEW q \in SessionRequests, InsertUser(q)
    PROVE  SessionInv'
<1>1. SessionTypeOK /\ AccountPart /\ KindStands(q) /\ "done" \in SessionPcs /\ "refused" \in SessionPcs
    BY DEF SessionInv, SessionPcs
<1>2. accRequest[q].pc = "insert" /\ accRequest[q].kind = "register"
      /\ UNCHANGED <<accToken, accTold, accNow, accFaults, accBlind, accLifted, accOverlaps>>
    BY <1>1 DEF InsertUser, SessionAt, KindStands
<1>3. accTold' \subseteq SessionRequests /\ accFaults' <= MaxSessionFaults
    BY <1>1, <1>2, SessionAssumption DEF SessionTypeOK
<1>4. CASE accRow # NoAccount
    <2>1. SessionGoes(q, "refused") /\ UNCHANGED <<accRow, accIdeal, accOwed>>
        BY <1>4 DEF InsertUser
    <2>2. accRequest'[q].pc = "refused"
        BY <1>1, <2>1, SessionGoesAlone DEF GoesAlone
    <2>3. TokensLeft(q) /\ KindStands(q)' /\ ToldOrFault(q)
        BY <1>2, <2>1, <2>2 DEF TokensLeft, FoundUsable, KindStands, ToldOrFault
    <2>4. accOwed' \subseteq SessionRequests /\ UNCHANGED <<accRow, accGhosts, accNow, accOverlaps>>
        BY <1>1, <1>2, <2>1 DEF SessionTypeOK, accGhosts
    <2>5. QED
        BY <1>3, <2>1, <2>3, <2>4, SessionMoves
<1>5. CASE accRow = NoAccount
    <2>1. /\ accRow' = Clear /\ accIdeal' = Clear /\ SessionGoes(q, "done")
          /\ accOwed \subseteq accOwed' /\ accOwed' \subseteq SessionRequests
        BY <1>1, <1>5 DEF InsertUser, SessionTypeOK
    <2>2. GoesAlone(q, "done") /\ accRequest'[q].token = accRequest[q].token /\ accRequest'[q].pc = "done"
          /\ RequestsGo(q) /\ accRequest'[q].kind = accRequest[q].kind
        <3>1. GoesAlone(q, "done") /\ accRequest'[q].token = accRequest[q].token
            BY <1>1, <2>1, SessionGoesAlone
        <3>2. QED
            BY <3>1 DEF GoesAlone, RequestsGo
    <2>3. TokensLeft(q) /\ KindStands(q)' /\ ToldOrFault(q)
        BY <1>2, <2>1, <2>2 DEF TokensLeft, FoundUsable, KindStands, ToldOrFault
    <2>4. Clear \in Account /\ LockedFromZero(Clear)
        BY AccountTyped DEF LockedFromZero
    <2>5. AccountPart'
        <3>1. \A p \in SessionRequests : HoldsRow(p)'
            BY <1>1, <1>5, <2>2 DEF AccountPart, HoldsRow, Holding, GoesAlone
        <3>2. QED
            BY <1>1, <1>2, <2>1, <2>4, <3>1 DEF AccountPart, LockedFromZero
    <2>6. /\ accRow' \in Account \cup {NoAccount} /\ accIdeal' \in Account \cup {NoAccount}
          /\ accBlind' \subseteq SessionRequests /\ accLifted' \subseteq SessionRequests
          /\ accOverlaps \subseteq accOverlaps' /\ accOverlaps' \subseteq SUBSET SessionRequests
        BY <1>1, <1>2, <2>1, <2>4 DEF SessionTypeOK
    <2>7. QED
        BY <1>2, <1>3, <2>1, <2>2, <2>3, <2>5, <2>6, SessionFrame
<1>6. QED
    BY <1>4, <1>5

LEMMA SessionTickKeeps ==
    ASSUME SessionInv, SessionTick
    PROVE  SessionInv'
<1>1. SessionTypeOK'
    BY SessionAssumption DEF SessionInv, SessionTypeOK, SessionTick, accGhosts
<1>2. UNCHANGED <<accRow, accToken, accRequest, accOwed, accTold, accFaults, accIdeal, accBlind, accLifted,
                  accOverlaps>>
    BY DEF SessionTick, accGhosts
<1>3. AccountPart'
    BY <1>2 DEF SessionInv, AccountPart, HoldsRow, Holding, LockedFromZero
<1>4. TokenPart'
    BY <1>2 DEF SessionInv, TokenPart, TokenStands, FindersOverlap, FoundUsable
<1>5. UntoldRefusals' = UntoldRefusals /\ LostTokens' = LostTokens
    BY <1>2 DEF UntoldRefusals, LostTokens, Exchanges, LoggedOut, SessionAt
<1>6. LossPart'
    BY <1>2, <1>5 DEF SessionInv, LossPart
<1>7. \A q \in SessionRequests : KindStands(q)'
    BY <1>2 DEF SessionInv, KindStands
<1>8. QED
    BY <1>1, <1>3, <1>4, <1>6, <1>7 DEF SessionInv

LEMMA SessionStatementFailsKeeps ==
    ASSUME SessionInv, NEW q \in SessionRequests, SessionStatementFails(q)
    PROVE  SessionInv'
<1>1. SessionTypeOK /\ "failed" \in SessionPcs /\ "refused" \in SessionPcs
    BY DEF SessionInv, SessionPcs
<1>2. accFaults' = accFaults + 1 /\ accFaults' <= MaxSessionFaults
      /\ UNCHANGED <<accRow, accToken, accTold, accNow, accGhosts, accOverlaps>>
    BY <1>1, SessionAssumption DEF SessionTypeOK, SessionStatementFails
<1>3. accOwed' \subseteq SessionRequests /\ accTold' \subseteq SessionRequests
    BY <1>1, <1>2 DEF SessionTypeOK, SessionStatementFails
<1>4. ToldOrFault(q)
    BY <1>2 DEF ToldOrFault, SessionStatementFails
<1>5. CASE UNCHANGED accRequest
    BY <1>2, <1>3, <1>4, <1>5, RecordsMove
<1>6. ASSUME NEW pc \in {"failed", "refused"}, SessionGoes(q, pc), accRequest[q].pc # "done"
      PROVE  SessionInv'
    <2>1. accRequest'[q].pc = pc
        BY <1>1, <1>6, SessionGoesAlone DEF GoesAlone
    <2>2. TokensLeft(q) /\ KindStands(q)'
        BY <1>2, <1>6, <2>1 DEF TokensLeft, FoundUsable, KindStands
    <2>3. QED
        BY <1>2, <1>3, <1>4, <1>6, <2>2, SessionMoves
<1>7. CASE SessionGoes(q, "failed") /\ accRequest[q].pc # "done"
    BY <1>6, <1>7
<1>8. CASE SessionGoes(q, "refused") /\ accRequest[q].pc # "done"
    BY <1>6, <1>8
<1>9. QED
    BY <1>5, <1>7, <1>8 DEF SessionStatementFails, SessionAt

LEMMA SessionInitially == SessionInit => SessionInv
<1> SUFFICES ASSUME SessionInit PROVE SessionInv
    OBVIOUS
<1>1. /\ accRow \in Account \cup {NoAccount} /\ LockedFromZero(accRow) /\ accIdeal = accRow
      /\ accOwed = {} /\ accTold = {} /\ accNow = 1 /\ accFaults = 0
      /\ accBlind = {} /\ accLifted = {} /\ accOverlaps = {}
    BY AccountTyped, SessionAssumption DEF SessionInit, LockedFromZero
<1>2. \A q \in SessionRequests :
          /\ accRequest[q].pc = "new" /\ accRequest[q].kind \in {"login", "refresh", "logout", "register"}
          /\ accToken[q].state = "unused"
    BY SessionAssumption DEF SessionInit, Tokens
<1>3. \A t \in Tokens : accToken[t].state # "revoked"
    BY DEF SessionInit
<1>4. SessionTypeOK
    <2>1. accRequest \in [SessionRequests -> SessionRequest]
        <3>1. FirstToken \in Tokens /\ "new" \in SessionPcs /\ NoAccount \in Account \cup {NoAccount}
            BY DEF Tokens, SessionPcs
        <3>2. [kind : {"login", "refresh", "logout", "register"}, pc : {"new"}, token : {FirstToken},
               seen : {NoAccount}, stale : {FALSE}] \subseteq SessionRequest
            BY <3>1 DEF SessionRequest, SessionPcs
        <3>3. QED
            BY <3>2 DEF SessionInit
    <2>2. accToken \in [Tokens -> [state : {"unused", "live", "revoked"}, until : 0..MaxSessionTime + TokenTicks]]
        <3>1. 1 + TokenTicks \in 0..MaxSessionTime + TokenTicks /\ 0 \in 0..MaxSessionTime + TokenTicks
            BY SessionAssumption
        <3>2. QED
            BY <3>1 DEF SessionInit
    <2>3. accNow \in 1..MaxSessionTime /\ accFaults \in 0..MaxSessionFaults
        BY <1>1, SessionAssumption
    <2>4. QED
        BY <1>1, <2>1, <2>2, <2>3 DEF SessionTypeOK
<1>5. AccountPart /\ \A q \in SessionRequests : KindStands(q)
    BY <1>1, <1>2 DEF AccountPart, HoldsRow, Holding, KindStands
<1>6. TokenPart
    BY <1>2 DEF TokenPart, TokenStands, FindersOverlap, FoundUsable
<1>7. LossPart
    <2>1. UntoldRefusals = {} /\ LostTokens = {}
        BY <1>2, <1>3 DEF UntoldRefusals, LostTokens, SessionAt
    <2>2. QED
        BY <1>1, <2>1, FS_EmptySet DEF LossPart
<1>8. QED
    BY <1>4, <1>5, <1>6, <1>7 DEF SessionInv

LEMMA SessionsStep ==
    ASSUME SessionInv, [SessionNext]_accVars
    PROVE  SessionInv'
<1>1. CASE SessionTick
    BY <1>1, SessionTickKeeps
<1>2. ASSUME NEW q \in SessionRequests,
             \/ FindUser(q) \/ ClearExpiredLock(q) \/ IsAccountLocked(q) \/ VerifyPassword(q)
             \/ RecordFailedLogin(q) \/ TellLocked(q) \/ RecordAudit(q) \/ ResetAfterSuccessfulLogin(q)
      PROVE  SessionInv'
    BY <1>2, FindUserKeeps, ClearExpiredLockKeeps, IsAccountLockedKeeps, VerifyPasswordKeeps,
       RecordFailedLoginKeeps, TellLockedKeeps, RecordAuditKeeps, ResetKeeps
<1>3. ASSUME NEW q \in SessionRequests,
             \/ FindToken(q) \/ RevokeToken(q) \/ FindTokensUser(q) \/ IssueTokenPair(q)
             \/ CheckEmail(q) \/ InsertUser(q) \/ SessionStatementFails(q)
      PROVE  SessionInv'
    BY <1>3, FindTokenKeeps, RevokeTokenKeeps, FindTokensUserKeeps, IssueTokenPairKeeps, CheckEmailKeeps,
       InsertUserKeeps, SessionStatementFailsKeeps
<1>4. CASE UNCHANGED accVars
    <2>1. UNCHANGED <<accRow, accToken, accRequest, accOwed, accTold, accNow, accFaults, accIdeal, accBlind,
                      accLifted, accOverlaps>>
        BY <1>4 DEF accVars
    <2>2. SessionTypeOK' /\ AccountPart' /\ \A q \in SessionRequests : KindStands(q)'
        BY <2>1 DEF SessionInv, SessionTypeOK, AccountPart, HoldsRow, Holding, LockedFromZero, KindStands
    <2>3. TokenPart'
        BY <2>1 DEF SessionInv, TokenPart, TokenStands, FindersOverlap, FoundUsable
    <2>4. UntoldRefusals' = UntoldRefusals /\ LostTokens' = LostTokens
        BY <2>1 DEF UntoldRefusals, LostTokens, Exchanges, LoggedOut, SessionAt
    <2>5. LossPart'
        BY <2>1, <2>4 DEF SessionInv, LossPart
    <2>6. QED
        BY <2>2, <2>3, <2>5 DEF SessionInv
<1>5. QED
    BY <1>1, <1>2, <1>3, <1>4 DEF SessionNext

\* UserSessions.SessionTypeOK and the parts above hold in every state.
LEMMA SessionsInv == SessionSpec => []SessionInv
BY SessionInitially, SessionsStep, PTL DEF SessionSpec

\* Logins that overlap count from the row that each has read: as long as none wrote
\* the account after others had since it read, the account is as logins one after the
\* other leave it, and no lock is taken away before its time.
THEOREM LoginsAreAccounted == SessionSpec => []LoginsAccounted
<1>1. SessionInv => LoginsAccounted
    BY DEF SessionInv, AccountPart, LossPart, UntoldRefusals, LoginsAccounted
<1>2. QED
    BY <1>1, SessionsInv, PTL

\* A refresh token is exchanged once, unless two refreshes had both found it usable;
\* a revoked one was exchanged, logged out or lost to a fault; and a session that was
\* logged out goes on by a refresh that was under way only.
THEOREM SessionsAreAccounted == SessionSpec => []SessionsAccounted
<1>1. SessionInv => SessionsAccounted
    <2> SUFFICES ASSUME SessionInv PROVE SessionsAccounted
        OBVIOUS
    <2>1. TokenPart /\ LossPart
        BY DEF SessionInv
    <2>2. ASSUME NEW t \in Tokens, NEW p \in Exchanges(t), NEW q \in Exchanges(t), p # q
          PROVE  {p, q} \in accOverlaps
        BY <2>1, <2>2 DEF TokenPart, FindersOverlap, FoundUsable, Exchanges
    <2>3. ASSUME NEW t \in Tokens, LoggedOut(t)
          PROVE  /\ accToken[t].state = "revoked"
                 /\ \A q \in Exchanges(t) : \E S \in accOverlaps : q \in S
        <3>1. PICK o \in SessionRequests : /\ accRequest[o].kind = "logout" /\ accRequest[o].token = t
                                           /\ accRequest[o].pc = "done"
            BY <2>3 DEF LoggedOut, SessionAt
        <3>2. accToken[t].state = "revoked"
            BY <2>1, <3>1 DEF TokenPart, TokenStands, FoundUsable
        <3>3. ASSUME NEW q \in Exchanges(t) PROVE {o, q} \in accOverlaps
            BY <2>1, <3>1, <3>3 DEF TokenPart, FindersOverlap, FoundUsable, Exchanges
        <3>4. QED
            BY <3>2, <3>3
    <2>4. QED
        BY <2>1, <2>2, <2>3 DEF SessionsAccounted, LossPart, LostTokens
<1>2. QED
    BY <1>1, SessionsInv, PTL

===================================================================================
