--------------------------- MODULE MCAdministration ---------------------------
(***************************************************************************)
(* One instance for the components that requests and scheduled runs work   *)
(* on.  As in MCBackground every behaviour runs one of them, "focus", and  *)
(* leaves the others at rest.                                              *)
(***************************************************************************)
EXTENDS FeatureFlagCache, NotificationInbox, SyncQueue, SlaMonitor, TicketSatisfaction,
        TicketPriority, TicketThread, TicketRouting, SlaPolicies, KnowledgeBase,
        RolePermissions, UserSessions, ApiKeys, TicketFigures, TLC

VARIABLE focus

QueueOfCaller == [c \in SyncCallers |-> IF c = "c3" THEN "OUTBOX" ELSE "REPORT"]

Bases == {<<1>>, <<1, 2>>}

\* One key, the other, both, one twice, and a key that nobody knows.
Lists == {<<"k1">>, <<"k2">>, <<"k1", "k2">>, <<"k1", "k1">>, <<"k3">>}

Some(S) == CHOOSE x \in S : TRUE

Unless(component, state) == IF focus = component THEN TRUE ELSE state

\* Where a component at rest stands: one of the states that its Init allows.
AtRest ==
    /\ Unless("inbox", inboxReader =
          [r \in Readers |-> [pc |-> "new", notice |-> Some(Notices), user |-> Some(Users)]])
    /\ Unless("sla", slaTicket = [active |-> TRUE, assigned |-> TRUE, sla |-> Some(SlaStatus)])
    /\ Unless("csat", csatRun = [s \in Submissions |-> [by |-> "customer", pc |-> "new"]])
    /\ Unless("priority", prioRequest =
          [r \in PriorityRequests |-> [kind |-> "force", pc |-> "new", seen |-> 1, value |-> 1]])
    /\ Unless("routing",
          /\ routeTicket = [t \in RoutedTickets |->
                               [open |-> TRUE, assignee |-> NoAgent, demand |-> "none"]]
          /\ routeRequest = [r \in Routings |->
                 [pc |-> "new", ticket |-> Some(RoutedTickets), chosen |-> NoAgent]])
    /\ Unless("policies", polRow = [p \in Policies |-> NoPolicy])
    /\ Unless("articles", artRequest =
          [r \in ArticleRequests |-> [kind |-> "archive", id |-> Some(Articles), base |-> NoSlug,
                                      slug |-> NoSlug, pc |-> "new", stale |-> {}]])
    /\ Unless("roles", roleRequest =
          [q \in RoleRequests |-> [op |-> "rename", pc |-> "new", role |-> Some(Roles),
                                   asked |-> Some(KeyLists), seen |-> {}]])
    /\ Unless("sessions",
          /\ accRow = NoAccount
          /\ accRequest = [q \in SessionRequests |->
                 [kind |-> "login", pc |-> "new", token |-> FirstToken, seen |-> NoAccount,
                  stale |-> FALSE]])
    /\ Unless("keys", /\ keyRow = NoKey
                      /\ keyRequest = [q \in KeyRequests |-> [kind |-> "use", pc |-> "new", at |-> 0]])
    /\ Unless("figures", figTicket = [t \in FigTickets |-> NoRow])

AdministrationInit ==
    /\ focus \in {"flags", "inbox", "sync", "sla", "csat", "priority", "thread", "routing",
                  "policies", "articles", "roles", "sessions", "keys", "figures"}
    /\ AtRest
    /\ Init /\ InboxInit /\ SyncQueueInit /\ MonitorInit /\ SatisfactionInit /\ PriorityInit
    /\ ThreadInit /\ RoutingInit /\ PolicyInit /\ ArticleInit /\ RoleInit
    /\ Unless("csat", ~csatDone)
    /\ Unless("priority", prioRow = 1 /\ prioText = 1)
    /\ Unless("thread", /\ \A d \in Deletions : threadRun[d].target = Some(Uploads)
                        /\ \A c \in Comments : threadRun[c].author = StaffAuthor)
    /\ Unless("articles", \A a \in Articles : artRow[a].status = "absent")
    /\ Unless("roles", \A role \in Roles : roleRow[role].state = "kept")
    /\ SessionInit /\ KeysInit /\ FiguresInit
    /\ Unless("figures", figReport.kind = "export" /\ figReport.filter = "any")

Only(component) ==
    /\ focus = component
    /\ UNCHANGED focus
    /\ component # "flags" => UNCHANGED vars
    /\ component # "inbox" => UNCHANGED inboxVars
    /\ component # "sync" => UNCHANGED syncVars
    /\ component # "sla" => UNCHANGED slaVars
    /\ component # "csat" => UNCHANGED csatVars
    /\ component # "priority" => UNCHANGED prioVars
    /\ component # "thread" => UNCHANGED threadVars
    /\ component # "routing" => UNCHANGED routeVars
    /\ component # "policies" => UNCHANGED polVars
    /\ component # "articles" => UNCHANGED artVars
    /\ component # "roles" => UNCHANGED roleVars
    /\ component # "sessions" => UNCHANGED accVars
    /\ component # "keys" => UNCHANGED keyVars
    /\ component # "figures" => UNCHANGED figVars

AdministrationNext ==
    \/ Only("flags") /\ Next
    \/ Only("inbox") /\ InboxNext
    \/ Only("sync") /\ SyncQueueNext
    \/ Only("sla") /\ MonitorNext
    \/ Only("csat") /\ SatisfactionNext
    \/ Only("priority") /\ PriorityNext
    \/ Only("thread") /\ ThreadNext
    \/ Only("routing") /\ RoutingNext
    \/ Only("policies") /\ PolicyNext
    \/ Only("articles") /\ ArticleNext
    \/ Only("roles") /\ RoleNext
    \/ Only("sessions") /\ SessionNext
    \/ Only("keys") /\ KeysNext
    \/ Only("figures") /\ FiguresNext

AdministrationSpec ==
    /\ AdministrationInit
    /\ [][AdministrationNext]_<<focus, vars, inboxVars, syncVars, slaVars, csatVars, prioVars,
                                threadVars, routeVars, polVars, artVars, roleVars,
                                accVars, keyVars, figVars>>

\* The types of the components' variables.
AdministrationTypeOK ==
    /\ TypeOK /\ InboxTypeOK /\ SyncQueueTypeOK /\ MonitorTypeOK /\ SatisfactionTypeOK
    /\ PriorityTypeOK /\ ThreadTypeOK /\ RoutingTypeOK /\ PolicyTypeOK /\ ArticleTypeOK
    /\ RoleTypeOK /\ SessionTypeOK /\ KeysTypeOK /\ FiguresTypeOK

\* What surveys and priorities leave behind explains the ticket.
TicketCareAccounted == SurveyIsTold /\ PriorityExplained

\* The tables that only their own requests write stay consistent.
RecordsConsistent == PoliciesConsistent /\ ArticlesConsistent

\* What logins, refreshes and requests with an API key leave behind is explained by
\* how they overlapped.
SessionsKept == LoginsAccounted /\ SessionsAccounted /\ LastUseTold /\ KeyChangesTold

\* What reports and exports say of the tickets is explained by what was changed meanwhile.
FiguresExplained == FiguresAgree /\ ComplianceExplained /\ ExportComplete

\* The requests of all components have the same names, and at rest they are alike.
Symmetry == Permutations(Processes) \cup Permutations(Requests)
===============================================================================
