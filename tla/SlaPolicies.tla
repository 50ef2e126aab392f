------------------------------ MODULE SlaPolicies ------------------------------
(***************************************************************************)
(* The SLA policies of one tenant.  A request validates what it has read   *)
(* and then writes the fields that it was given: an update of one target   *)
(* is checked against the other target as it was, not as it is.            *)
(***************************************************************************)
EXTENDS Integers, FiniteSets

CONSTANTS
    Policies,         \* ids of policies
    PolicyNames,      \* their names
    PolicyRequests,   \* requests that change policies
    MaxPolicyFaults   \* bound: statements that fail

\* "keep" and "none" stand for no name in an input and in a row.
ASSUME PolicyAssumption ==
    /\ IsFiniteSet(PolicyRequests) /\ Policies # {} /\ MaxPolicyFaults \in Nat
    /\ PolicyNames # {} /\ "keep" \notin PolicyNames /\ "none" \notin PolicyNames

Hours == 1..2

VARIABLES
    polRow,      \* the table: name, targets and categories of every policy
    polRequest,  \* every request: its input and where it stands
    polBlind,    \* policies changed by a request that had validated an older row
    polAudited,  \* requests that the audit log tells
    polFaults    \* faults so far

polVars == <<polRow, polRequest, polBlind, polAudited, polFaults>>

NoPolicy == [name |-> "none", first |-> 1, resolution |-> 1, categories |-> "none"]

Policy == [name : PolicyNames, first : Hours, resolution : Hours, categories : {"none", "known"}]

\* A field that the request leaves out is "keep"; "twice" names a known category
\* two times, and "unknown" one that the tenant does not have.
PolicyInput == [kind : {"create", "update", "delete"}, id : Policies,
                name : PolicyNames \cup {"keep"}, first : {0} \cup Hours, resolution : {0} \cup Hours,
                categories : {"keep", "none", "known", "twice", "unknown"}]

PolicyRequest == [input : PolicyInput, pc : {"new", "read", "name", "write", "audit", "done", "refused", "failed"},
                  seen : Policy \cup {NoPolicy}, stale : BOOLEAN]

PolicyTypeOK ==
    /\ polRow \in [Policies -> Policy \cup {NoPolicy}]
    /\ polRequest \in [PolicyRequests -> PolicyRequest]
    /\ polBlind \subseteq Policies
    /\ polAudited \subseteq PolicyRequests
    /\ polFaults \in 0..MaxPolicyFaults

AtPolicyStart(input) == [input |-> input, pc |-> "new", seen |-> NoPolicy, stale |-> FALSE]

NoInput == [kind |-> "delete", id |-> CHOOSE p \in Policies : TRUE, name |-> "keep", first |-> 0,
            resolution |-> 0, categories |-> "keep"]

PolicyInit ==
    /\ \E row \in {NoPolicy} \cup {policy \in Policy :
                               /\ policy.first <= policy.resolution /\ policy.categories = "none"
                               /\ policy.name = CHOOSE name \in PolicyNames : TRUE} :
          polRow = [p \in Policies |-> IF p = NoInput.id THEN row ELSE NoPolicy]
    /\ polRequest = [r \in PolicyRequests |-> AtPolicyStart(NoInput)]
    /\ polBlind = {} /\ polAudited = {}
    /\ polFaults = 0

-----------------------------------------------------------------------------
(* Requests *)

Input(r) == polRequest[r].input

StoredPolicy(p) == polRow[p] # NoPolicy

PolicyAt(r, pc) == polRequest[r].pc = pc

PolicyGoes(r, pc) == polRequest' = [polRequest EXCEPT ![r].pc = pc]

\* The body of a request; that of a creation gives both targets, in order.
ReceivePolicyRequest(r) ==
    /\ PolicyAt(r, "new")
    /\ \E p \in Policies :
          \/ \E n \in PolicyNames, f \in Hours, h \in Hours, c \in {"known", "unknown"} :
                /\ ~StoredPolicy(p) /\ f <= h
                /\ \A q \in PolicyRequests \ {r} : Input(q).kind # "create" \/ Input(q).id # p
                /\ polRequest' = [polRequest EXCEPT ![r].pc = "read", ![r].input =
                       [kind |-> "create", id |-> p, name |-> n, first |-> f, resolution |-> h,
                        categories |-> c]]
          \/ \E n \in PolicyNames \cup {"keep"}, f \in {0} \cup Hours, h \in {0} \cup Hours,
                c \in {"keep", "twice"} :
                /\ StoredPolicy(p) /\ (f = 0 \/ h = 0 \/ f <= h)
                /\ polRequest' = [polRequest EXCEPT ![r].pc = "read", ![r].input =
                       [kind |-> "update", id |-> p, name |-> n, first |-> f, resolution |-> h,
                        categories |-> c]]
          \/ /\ StoredPolicy(p)
             /\ polRequest' = [polRequest EXCEPT ![r].pc = "read", ![r].input = [NoInput EXCEPT !.id = p]]
    /\ UNCHANGED <<polRow, polBlind, polAudited, polFaults>>

\* Faulty variant: an update may set the targets as it likes.
TargetsUnchecked(first, resolution, seen) == TRUE

\* A target that is not given is the one that was read.
TargetsInOrder(first, resolution, seen) ==
    (IF first = 0 THEN seen.first ELSE first) <= (IF resolution = 0 THEN seen.resolution ELSE resolution)

\* findById, the categories and, for an update, the targets; for a creation the
\* categories only.
ValidatePolicy(r) ==
    LET seen == polRow[Input(r).id]
        valid == CASE Input(r).kind = "create" -> Input(r).categories # "unknown"
                   [] Input(r).kind = "update" -> /\ seen # NoPolicy
                                                  /\ TargetsInOrder(Input(r).first, Input(r).resolution, seen)
                   [] OTHER -> seen # NoPolicy
        named == Input(r).kind = "create" \/ Input(r).name \notin {"keep", seen.name}
    IN
    /\ PolicyAt(r, "read")
    /\ polRequest' = [polRequest EXCEPT ![r].seen = seen,
                         ![r].pc = IF ~valid THEN "refused" ELSE IF named THEN "name" ELSE "write"]
    /\ UNCHANGED <<polRow, polBlind, polAudited, polFaults>>

Holders(name) == {p \in Policies : polRow[p].name = name}

\* findByNameInTenant.
CheckPolicyName(r) ==
    /\ PolicyAt(r, "name")
    /\ PolicyGoes(r, IF Holders(Input(r).name) \subseteq (IF Input(r).kind = "update" THEN {Input(r).id} ELSE {})
                     THEN "write" ELSE "refused")
    /\ UNCHANGED <<polRow, polBlind, polAudited, polFaults>>

Given(value, default, current) == IF value = default THEN current ELSE value

PolicyWritten(input, row) ==
    [name |-> Given(input.name, "keep", row.name), first |-> Given(input.first, 0, row.first),
     resolution |-> Given(input.resolution, 0, row.resolution),
     categories |-> Given(input.categories, "keep", row.categories)]

\* One transaction, or one statement: it fails, and changes nothing, if the name
\* is taken or a category named twice; an update of a deleted policy is a 404.
\* A deletion does not look at the repository's answer: it goes on if the policy
\* is gone, unless it went between the repository's look and its statement.
WritePolicy(r) ==
    LET p == Input(r).id
        create == Input(r).kind = "create"
        delete == Input(r).kind = "delete"
        gone == ~create /\ ~StoredPolicy(p)
        broken == ~delete /\ (Input(r).categories = "twice" \/ Holders(Input(r).name) \ {p} # {})
    IN
    /\ PolicyAt(r, "write")
    /\ \/ (broken \/ gone) /\ PolicyGoes(r, "refused") /\ UNCHANGED <<polRow, polBlind>>
       \/ delete /\ gone /\ PolicyGoes(r, "audit") /\ UNCHANGED <<polRow, polBlind>>
       \/ /\ ~broken /\ ~gone
          /\ polRow' = [polRow EXCEPT ![p] = IF delete THEN NoPolicy ELSE PolicyWritten(Input(r), @)]
          /\ polBlind' = IF polRequest[r].stale THEN polBlind \cup {p} ELSE polBlind
          /\ polRequest' = [q \in PolicyRequests |->
                 IF q = r THEN [polRequest[q] EXCEPT !.pc = "audit"]
                 ELSE IF Input(q).id = p /\ polRequest[q].pc \in {"name", "write"}
                      THEN [polRequest[q] EXCEPT !.stale = TRUE] ELSE polRequest[q]]
    /\ UNCHANGED <<polAudited, polFaults>>

\* record keeps its errors to itself: the request answers either way.
AuditPolicy(r) ==
    /\ PolicyAt(r, "audit")
    /\ polAudited' = polAudited \cup {r}
    /\ PolicyGoes(r, "done")
    /\ UNCHANGED <<polRow, polBlind, polFaults>>

PolicyRequestFails(r) ==
    /\ polFaults < MaxPolicyFaults
    /\ polFaults' = polFaults + 1
    /\ polRequest[r].pc \in {"read", "name", "write", "audit"}
    /\ PolicyGoes(r, IF PolicyAt(r, "audit") THEN "done" ELSE "failed")
    /\ UNCHANGED <<polRow, polBlind, polAudited>>

PolicyNext ==
    \E r \in PolicyRequests :
        ReceivePolicyRequest(r) \/ ValidatePolicy(r) \/ CheckPolicyName(r) \/ WritePolicy(r)
        \/ AuditPolicy(r) \/ PolicyRequestFails(r)

PolicySpec == PolicyInit /\ [][PolicyNext]_polVars

-----------------------------------------------------------------------------
(* Correctness *)

\* A policy's resolution target is shorter than its first response only if two
\* requests that change it overlapped; no two policies share a name; and every
\* request that succeeds is audited, or is being audited, or a fault has cost its
\* entry: a deletion, too, that another one came before.
PoliciesConsistent ==
    /\ \A p \in Policies : StoredPolicy(p) /\ p \notin polBlind => polRow[p].first <= polRow[p].resolution
    /\ \A n \in PolicyNames : Cardinality(Holders(n)) <= 1
    /\ Cardinality({r \in PolicyRequests : PolicyAt(r, "done")} \ polAudited) <= polFaults
    /\ \A r \in polAudited : PolicyAt(r, "done")
=================================================================================
