# SupportFlow in TLA+

SupportFlow is a multi-tenant help-desk back end in TypeScript: Express handlers and cron endpoints
over PostgreSQL (Prisma), with Redis and BullMQ when `QUEUE_ENABLED` is set. This directory holds TLA+
models of the parts of it whose correctness depends on the order in which concurrent requests, jobs,
processes and failures take their steps, the TLC configurations that check them, and proofs for TLAPS.

Paths below are relative to the repository; `PROJECT.json` maps every definition to the lines it models.

## 1. Inventory

| Component | State | Operations | Hard behaviour | What makes it correct |
|---|---|---|---|---|
| **outbox** (`src/modules/outbox`) | `outbox_events` rows: status, attempts, createdAt | enqueue in the aggregate's transaction, relay a batch, claim, publish, acknowledge, retry, fail, dead-letter | two relays on one row, crash between any two awaits, lost replies, three counters of attempts | one owner per claim; attempts counts publications; settled rows stay settled; every event settles |
| **queues** (`src/modules/queues`, `workers`, `jobs`) | BullMQ jobs by id, completed and failed sets, dead-letter queue; without Redis the sync provider's records, counts and dead letters | add, take, retry, complete, evict, wait for a report, close | a stored job makes `add` a no-op; retention; stalled jobs; a close that overtakes a running job | one runner per job; the counts tell the jobs; every job ends, completed or dead-lettered |
| **event bus** (`src/shared/events`) | subscribers; what each handler writes and adds | publish | one of several subscribers rejects, in the middle of its statements | publish waits for all of them; one failure costs one handler |
| **tickets** (`src/modules/tickets`) | tickets, histories, outbox rows | open, update status, assign (single and bulk), escalate, auto-assign, route; priority, SLA monitor, satisfaction, comments | validation before the transaction, update by id alone, row locks taken in any order, operations without a transaction | the domain's state machine; history and events tell the row |
| **automation** (`src/modules/automation`) | rules, executions | change rules, evaluate the rules of an event, run their actions, record | the event's ticket against the row, a retried job that repeats actions, autocommitted statements | every execution is recorded; a run computes what its rules say of the ticket it read |
| **audit** (`src/modules/audit`) | `audit_logs`: sequence, previousHash, hash; a promise chain per process | append, verifyChain | read-then-insert, several processes, an insert that outlives its client | one chain; verifyChain reports a break exactly when there is one |
| **feature flags** (`src/modules/feature-flags`) | a row, a memory per process, Redis, the audit entries | isEnabled, create, update, delete | cache filled after an invalidation, caches filled from caches | staleness is bounded; every change is audited |
| **webhooks** (`src/modules/webhooks`) | endpoints, deliveries | change endpoints, dispatch, test, retry, dead-letter | a retried job repeats deliveries; an endpoint deleted during a run; an answer that cannot be recorded | a delivery is told as it was answered; a completed job has reached every endpoint |
| **notifications, email** | notification rows, messages | create, read one, read all; send | two ways to read one row; job retries | one `readAt` per notification; a mail too many only after a fault |
| **priority, SLA monitor, surveys** (`src/modules/tickets`) | a ticket's priority, breach entries, notifications, its survey | recalculate, monitor, submit | look-up and then another statement; overlapping runs; a fault between two statements | what is repeated or missing has an overlap or a fault to explain it |
| **attachments, comments** | files, rows, history, notifications | upload, delete, comment, list | file system and table without a transaction | a row names a file; a file that no row names was cost by a fault; customers see public comments |
| **routing** | rows, an agent's active tickets | auto-assign, route | loads counted once | loads differ by what the run could not see |
| **sla-policies, knowledge-base, rbac** | rows | create, update, delete, publish, archive, replace permissions | validated as read and written by id; two statements at READ COMMITTED | targets in order, unique names and slugs, a role's list is one request's list, unless requests overlapped |
| **api-keys** | a key, its last use | create, revoke, delete, authenticate | the last use written beside the answer; look-ups before the writes | the last use lies before the expiry and is the latest but for overlaps; changes are audited |
| **auth, users** | a user's failed logins and lock, refresh tokens, audit records | login, refresh, logout, register | a counter written from a row read before; a token looked up, then revoked, then replaced | the counter and the lock are those of the logins; a token is exchanged once; refusals are audited |
| **analytics, reports, metrics** | none; they read tickets | overview, SLA, agents, metrics, CSV export | several statements of one report, batches of one export, while others write | figures agree but for what was changed meanwhile; an export misses no ticket |
| **tenants, customers, support** | rows | read | none | out of scope |
| **observability, http layer, infrastructure helpers, SDK, deployment** | none of the domain's | reads, routing, logging | none | out of scope |

Interactions: a use case writes a ticket, its history and its `OutboxEvent` in one transaction; the
relay publishes the event on the in-process bus; subscribers enqueue notification, email, webhook and
automation jobs (their own outbox rows are created as already processed); automation actions write
tickets again, without events. Audit entries are appended outside these transactions, and the
middleware reads feature flags through the cache.

`PROJECT.json` lists every component with its status, and under `hazards` the places where this code
can go wrong in a way a test would hardly reach.

## 2. Modules

| Module | Models | Uses |
|---|---|---|
| `OutboxDelivery` | abstract: what the outbox promises for each event | |
| `OutboxRelay` | rows, BullMQ jobs, executors, from the commit to the dead letter | refines `OutboxDelivery` |
| `OutboxRelayProofs` | theorems on `OutboxRelay` | |
| `TicketRules` | statuses, transitions, assignability | |
| `TicketMachine` | abstract: the state machine the rules describe | `TicketRules` |
| `TicketLifecycle` | nine ways to write a ticket's status or assignee, statement by statement | refines `TicketMachine` |
| `TicketLifecycleProofs` | theorems on `TicketLifecycle` | |
| `AuditTrail` | abstract: one chain that grows at its end | |
| `AuditChain` | promise chains, read-then-insert, commits, verification | refines `AuditTrail` (one process) |
| `AuditChainProofs` | theorems on `AuditChain`, refinement of `AuditTrail` | |
| `FeatureFlagCache` | one flag's row, memories, Redis, requests, time | |
| `JobQueue` | one BullMQ job: added, taken, failed, stalled, dead-lettered | |
| `EventFanout` | publish with its five handlers, mails to their end | `JobQueue` |
| `WebhookDispatch` | endpoints, webhook jobs, tests, deliveries | `JobQueue` |
| `AutomationEngine` | rules, the job of an event, actions, executions | `JobQueue`, `TicketRules` |
| `NotificationInbox` | notifications and their readers | |
| `SyncQueue` | the in-process provider | |
| `SlaMonitor`, `TicketSatisfaction`, `TicketPriority`, `TicketThread`, `TicketRouting` | the rest of what is written to a ticket | |
| `SlaPolicies`, `KnowledgeBase`, `RolePermissions` | tables that administrators maintain | |
| `UserSessions`, `ApiKeys` | a user's logins, lock and refresh tokens; an API key | |
| `TicketFigures` | reports and exports, statement by statement | `TicketRules` |
| `TicketCareProofs` | theorems on the monitor, surveys, priorities, threads and routing | |
| `BackgroundProofs` | theorems on webhooks, the event bus, automation, and on the composition `MCBackground` | `AuditChainProofs` (the audit log's part) |
| `RecordsProofs` | theorems on notifications, the sync provider, policies, articles, reports | `TicketCareProofs` (lemmas on counting) |
| `AccessProofs` | theorems on roles, API keys, logins and sessions | `TicketCareProofs` (lemmas on counting) |
| `AdministrationProofs` | theorems on the flag cache and on the composition `MCAdministration` | `RecordsProofs`, `AccessProofs` |
| `MCOutboxRelay`, `MCTicketLifecycle`, `MCAuditChain` | small instances for TLC, symmetry | one module each |
| `MCBackground` | one instance of the components that work beside the requests | `AuditChain`, `WebhookDispatch`, `AutomationEngine`, `EventFanout` |
| `MCAdministration` | one instance of those that requests and scheduled runs work on | `FeatureFlagCache` and the thirteen modules from `NotificationInbox` to `TicketFigures` |

Definitions named *faulty variant* in their comment are plausible mistakes in one definition of the
code; each stands just before the definition it replaces. They are not part of any specification:
mutation testing substitutes one of them and a run must then find a property violated.

### Outbox (`OutboxRelay`)

State: `rows` is the table, `job`, `completed`, `relayJobs` and `dlq` are the BullMQ outbox queue,
`proc` the local state of every executor (an API request or a queue worker; a process has several),
`published` counts the calls of `EventBus.publish`. One action is the code between two awaits:
`Claim` is the conditional update of `claimForProcessing`, `ReadClaimed` its read, `Publish`,
`MarkProcessed`, `CatchFailure` and `AddDeadLetterJob` the rest of `processEvent`. For each await there
is an action for its failure (`…Throws`); the kind `reply` is an update that commits though its client
sees an error. With `QueueEnabled` events are published by jobs, and a job of an id BullMQ still
stores makes `addOutboxJob` a no-op; without it the request relays inline. There is then no periodic
relay: what an inline relay leaves PENDING waits for the next request that commits an event.

BullMQ is external: modelled are its job ids, attempts, the completed set cut by `removeOnComplete`, and
the stalled job (`StallJob`). `createWorker` leaves `maxStalledCount` at BullMQ's default of one: a job whose worker dies is given
to another worker once; the second time BullMQ fails it, and whether it counts that as its last attempt depends on its
version, so both are in the model. The failed listener is the repository's: `ReportJob` adds the dead letter when the attempts are
used up and returns early otherwise, `ReportJobFails` loses it. A job that has ended, whichever way, keeps its id taken. Failed jobs are kept
for good in the model (the code keeps the last 5000), and the retry delay is not modelled: a retry may be
taken at any time.

### Tickets (`TicketLifecycle`)

State: `tickets`, `history`, `outbox` and the local state `work` of every worker. `Start…` is the read
and validation of one use case, which keeps what it saw in `seen`. `TxWrite` takes the row lock of one
UPDATE of a transaction and `TxCommit` makes its updates, history entries and outbox rows visible;
`DeadlockVictim` is PostgreSQL's deadlock detection. `UpdateRow` and `RecordChange` are the two autocommitted
statements of escalation, auto-assignment, routing and the automation actions. `history` is kept in the
order in which entries become visible. Prisma's transaction timeout is a `Crash` of the worker:
both roll back.

Left open: which agent the algorithms choose, which tickets are overdue, and permissions. A rule's
action reads the ticket when its job starts. The code neither deletes nor unassigns tickets.

### Audit (`AuditChain`)

State: `rows` with sequence, link, writer and visibility; `chain` and `pc` the promise chain of every
process; `outcome` what became of every entry as its process sees it. A record is identified with its
entry and `previousHash` with the entry it links to: the digest and the canonical form of a record are
taken to be injective, so `verifyChain`'s comparison of contents never fails and its comparison of links
is `BadLink`. `Insert` takes a sequence number and `InsertCommits` makes the record visible: the two
differ for an insert whose client is gone. No caller of `append` passes it a transaction.

### Feature flags (`FeatureFlagCache`)

A request is a list of the steps its code path takes (`Program`), cut short by hits and failures. Time
advances in ticks; an entry lives `TTL` of them in memory and in Redis. `OpTicks` is an assumption: how
many ticks a request takes at most. `lost` counts the changes whose request died before its audit entry.

### Jobs and the event bus (`JobQueue`, `EventFanout`)

`JobQueue` is the life of one job of the email, automation and webhook queues: its attempts, `Stalled` when its
worker dies, and the failed listener that adds the dead letter. `createWorker` leaves `maxStalledCount` at one: BullMQ gives the job of a
dead worker to another one once and counts no attempt. The second time it fails the job: as its last attempt, which the listener
reports, or with attempts left (`dropped`), which the listener ignores; which of them depends on BullMQ's version, so `Stalled` is a set.
Deduplication and retention are in `OutboxRelay`, the only user of job ids. In `EventFanout` a publication starts all
handlers; `fanTodo` holds what each of them has still to do, in the order of its awaits (`StepsOf`), and one `HandlerStep`
is one statement or one added job. A call that fails rejects the handler and leaves the rest of its list undone, except in the
audit handler, which catches each of its failures. Mails are followed to SMTP, with the queue or inline.

### Webhooks (`WebhookDispatch`)

A job lists the active endpoints, then for each one creates a row, posts, and records the answer or catches; the next endpoint follows
only after a delivery, so one that refuses stops the job and its retry begins with the first again. A test posts up
to three times. Rows are counted by caller, endpoint and status. An answer is `ok`, one that may be tried again, one that may
not, or none; `AnswerLost` is an endpoint that accepts although the dispatcher sees an error. Signatures, timeouts and payloads are left out.

### Automation (`AutomationEngine`)

One job: `LoadTicketAndRules`, then per rule `EvaluateRule`, its actions and its record. Every rule is evaluated against the ticket as
loaded; the first action of a rule gets that ticket too, and each action after it one that `RefreshTicket` has read. An action
is the list of statements it plans (`Plans`), each committed by itself; one that fails does not stop the actions after it. What fails
outside the actions reaches `RescueExecution`, which records a failed execution and throws, so that the job is retried with its first rule.
Users change rules and the ticket in between.

### Around a ticket (`SlaMonitor`, `TicketSatisfaction`, `TicketPriority`, `TicketThread`, `TicketRouting`)

In each of them an action is one statement of the use case, and a request keeps what it has read.

- `SlaMonitor`: runs of the monitor on one ticket whose due date comes near and passes; `seen` is the row of the selecting query.
- `TicketSatisfaction`: submissions; the unique index refuses the second survey of a ticket.
- `TicketPriority`: the four levels, what text and category suggest (`Suggested`), and the two ways to write the row. The flag that
  protects a priority set by hand never decides anything: the suggestion is at least the current level in any case.
- `TicketThread`: uploads write the file, the row, the entry, the notification in this order, deletions the row, the file, the entry;
  comments have an author whose role decides what `resolveCommentVisibility` makes of the visibility asked for.
- `TicketRouting`: the automatic run with the loads it counts once and keeps itself, and routing by what a ticket calls for. Where several
  agents are equal, any of them may be chosen.

### Notifications and the sync provider (`NotificationInbox`, `SyncQueue`)

Marking one notification as read looks it up and then updates it where `readAt` is null; marking all is one statement. The
sync provider runs a job inside the call that adds it, in one process: an action is the code between two awaits.

### Tables of administrators (`SlaPolicies`, `KnowledgeBase`, `RolePermissions`)

Requests read, validate and write by id. An update of a policy that is gone is refused; the deletion of one answers and is audited all the
same, as the use case ignores what the repository returns. `polBlind` and `artBlind` collect what was written by a request that had read an older row;
slugs are sequences so that `buildUniqueSlug`'s suffixes are modelled; a replacement of permissions deletes the rows it sees and inserts its
own, the rows carrying the request that wrote them. The hosts give an id to one record only.

### Logins, sessions and API keys (`UserSessions`, `ApiKeys`)

One user. A login keeps the row of `findByEmail` in `seen`, clears a lock that has run out, looks at the lock, then counts a failure from
`seen` or resets. `accIdeal` is the row that the same writes would have left had each been made of the current row; `accBlind` collects the
logins that wrote after others had since they read, and `accLifted` those that took a lock away. A refresh finds its token, revokes it,
finds the user, issues the next one; `accOverlaps` are the refreshes that had one token in hand together. LOGIN_FAILED is recorded beside the
answer (`accOwed`), LOGIN_LOCKED before it. Whether a password is right is left open.

An API key lets a request in and its last use is written beside the request (`keyTouch`), with the date of the call, in any order and perhaps after
the key is gone. `keyTogether` are the pairs of requests whose dates were on their way together.

### Reports and exports (`TicketFigures`)

A report is the set of its statements (`StatementsOf`), which run in any order, each on the table of its moment, while others open, move and
assign tickets; `saw` keeps what each of them answered. The filter is one on the status: its replacement by a statement's own condition is
what filters are modelled for. `ExportBatch` reads behind the cursor. Prisma is external: from a cursor on it takes the rows that match and
skips the first of them, whether or not that is the ticket of the cursor. The metrics' two statements run in their order, the second as of its own
moment. A report begins with any table that the application, the seed or an import can have left: a RESOLVED ticket has a closing date or has
none (`FiguresInit`), though `updateStatus` gives it none. `since` is when a ticket was resolved, which the table does not say.

## 3. Runs

| Run | Shows | Bounds |
|---|---|---|
| `outbox_queue` | claim exclusive, attempts = publications, no stranded PENDING row, one runner per job; a job that is kept and blocks its event has cost a fault for each attempt, or two workers, and has its dead letter | 2 events, 2 executors, 2 attempts, batch 1, 2 kept jobs, 3 faults of all 8 kinds |
| `outbox_inline` | refinement of `OutboxDelivery`, settled is final | inline mode, 2 events, 2 executors, 3 faults, no lost replies |
| `outbox_live` | every event settles, no orphaned claim, FAILED rows dead-lettered | 2 events, 3 job attempts, 1 kept job, 2 faults of kinds batch, claim, mark |
| `outbox_crash` | *violated*: a crash after the claim leaves the event unpublished | 1 event, 1 crash |
| `outbox_dedupe` | *violated*: the retry's job is swallowed by the completed job of the same id | 1 event, 1 failed acknowledgement |
| `ticket_requests` | history and events tell the row, operations end in spite of deadlocks | 2 tickets, 2 workers, 3 operations, 1 crash; transactional use cases |
| `ticket_all` | in progress means assigned; illegal transitions only from stale reads | 1 ticket, 2 agents, 2 workers, 4 operations of all 7 kinds, 1 fault |
| `ticket_reopen` | *violated*: the escalation reopens a ticket closed after its query | 1 ticket, 2 workers |
| `audit_late` | *violated*: one process forks its chain after a lost reply | 1 process, 2 entries |
| `background` | the log's forks and breaks explained, inductive invariant; deliveries told as answered, completed jobs reached all; executions recorded, runs compute what rules say; one fault costs one handler; a job ends without a completion and without a dead letter only by a fault of the listener or the loss of two workers; every entry, dispatch, automation and publication ends | audit: 2 processes, 3 entries, 2 faults; 2 attempts per job; webhooks: 2 endpoints, a job or a test, 1 change of an endpoint, 2 faults; automation: 2 rules, 1 change by a user, 1 fault; 1 publication of any event, 3 faults |
| `figures_metrics` | *violated*: a ticket that is resolved and has no closing date is not among the resolved tickets of the metrics | 2 tickets, 3 statuses |
| `administration` | flags' staleness and audit; `readAt` once; counts tell jobs; breaches told once; surveys and priorities explained; files, rows and comments accounted; loads fair; policies and articles consistent; roles kept; logins, locks, tokens and uses of keys accounted; figures agree, compliance explained, exports complete | 2 requests of each kind; flags: 2 processes, 2 changes, lifetime 1 tick, 1 fault; 2 notifications, 2 users; 3 sync jobs, 1 close; 1 upload, 2 deletions, 1 comment, 2 faults; 2 tickets, 2 agents; 2 policies, 2 names; 3 articles, 2 slugs; 1 role, 2 keys; sessions: a lock after 2 failures for 1 tick, tokens of 2 ticks, time 3; 1 API key, time 3; figures: 2 tickets, 3 statuses, 1 change by others, batches of 1; 1 fault each |

Why the bounds suffice for the questions asked. Two executors and two events make the interleavings
that matter: one of them overtakes the other between any two awaits, one event's job evicts the other's,
and a batch of one leaves an event behind. With two attempts the first failure retries and the second
gives up. Three faults are more than any single path of `processEvent` meets. In the ticket runs, two workers
and two tickets are the smallest deadlock; four operations open, move, race and close a ticket. Three
entries let two records fork and a third follow either. A lifetime of one tick is the
shortest in which an entry can hand its value on before it expires, and `StaleTicks` is tight: with one tick less `StaleBounded` fails.
In `background` and `administration` two requests of a kind are the smallest overlap, and one fault parts two statements of one of them. Two
attempts are a failure and a retry; two faults of the webhooks are the two crashes that drop a job, and three of the event bus those of a mail's job and one more; the automation
engine has one fault, so its second stall is the theorem's alone; two rules let the second be evaluated against what the first has changed; two endpoints let the
first be delivered twice because the second refused. Two deletions race for one attachment. Three articles are two that
clash and one that has taken the suffix they would get. Two logins are enough to lose a count, and with two failures to a lock the second one meets the
limit. An export of two tickets in batches of one has a cursor that may cease to match before the second. By themselves `UserSessions` and
`ApiKeys` were also checked with three requests.

`MCBackground` and `MCAdministration` put components that share no state side by side. Interleaving them would multiply their
states and show nothing, so the variable `focus` names the component that runs; the others rest in one of their initial
states. What is checked is the sum of the components' behaviours, one instance and one start-up for all of them. The component that runs is
not constrained by it: it has all its initial states, all its actions and, as the guards of `BackgroundFairness` say, its fairness.
The symmetry of `administration` permutes processes and requests, and its properties have no liveness among them.

`CHECK_DEADLOCK FALSE` is set where the system stops because the bounded workload is done (all events
committed without a periodic relay, all operations started, all entries recorded, all requests answered, all jobs ended).

### Fairness

- `OutboxRelay`: an executor that can go on goes on (WF); the repeatable job keeps firing (WF); a job
  that waits is eventually taken (SF), as BullMQ serves a queue in order and a worker that ends a job asks
  for the next. Requests and faults are never forced.
- `TicketLifecycle`: WF for what a worker can always do. SF for statements that wait for a row lock, as
  PostgreSQL grants it in the order of the waiters. WF for the resolution of a deadlock.
- `AuditChain`: WF for the event loop of each process and for the end of every statement.
- `WebhookDispatch`, `AutomationEngine`, `EventFanout`: WF for the workers, which ask for the next job whenever they end one, and for the
  event loop that goes on with a delivery, an action or a handler after each await. Nothing else competes for the step, so WF is enough.
  Users, endpoints' changes and faults are never forced, and an endpoint need not answer: axios' timeout makes that the answer `none`.

## 4. What the code does otherwise than said

Findings, each with a run and a counterexample:

1. `outbox_crash`: README "eventos de domínio nunca sejam perdidos" (line 488). A crash after the claim leaves
   the row PROCESSING; `resetStuckProcessing` would help but is called from nowhere.
2. `outbox_dedupe`: README "Retry com backoff exponencial" (525). The retry is added under the id of the job
   that is about to complete, and completed jobs are kept, so nothing is added.
3. `ticket_reopen`: the escalation test says "should NOT escalate CLOSED ticket". The update is by id alone.
4. `audit_late`: `audit-log.service.ts` says failed appends are never written. An insert whose reply is lost is
   reported as failed and may commit after the next append has read the last hash.
5. `figures_metrics`: the API's description says of `resolvedTickets` "Número de chamados resolvidos no período" (`swagger.ts`, line 1380).
   `getTicketMetrics` counts tickets that are RESOLVED and have a `closedAt`, which `updateStatus` gives to CLOSED tickets only: its
   `resolvedTickets`, its average and its compliance are those of no ticket that the application has resolved, only of rows that the seed
   or a test inserted with both.

Limits the models show that have no run of their own:

- Between two processes the audit log forks without any fault (`ForksHaveACause` names that cause).
- Two concurrent status updates can compose to a transition the rules forbid; `IllegalOnlyWhenStale` says
  that this is the only way, and `ImplementsMachineCorrect` that it does not happen without overlap.
- Escalation, auto-assignment, routing and the automation actions update a row and insert its history entry
  in two statements: a crash in between leaves a change without an entry. None of them enqueues an event, so a
  ticket closed by a rule is not announced.
- `EventBus.publish` swallows the rejections of its subscribers, so the relay acknowledges an event that a subscriber
  failed to handle.
- A job of any queue whose worker dies twice may be failed with attempts left: the listener returns early, so it has neither a further attempt nor
  a dead letter (`LossesExplained` names that cause), and an outbox job's id stays taken (`BlockedEventsExplained`).
- If adding the dead letter fails, the retried job finds the row FAILED and completes: no dead letter is ever added. A job
  that used its attempts on claims that threw is kept, and blocks later jobs of its event. This is why
  `outbox_live` admits only some faults, and fewer than a job has attempts.
- A reader of a flag may fill the cache after an update has invalidated it; `StaleBounded` bounds the consequence.
- A webhook job that is retried delivers again to the endpoints that had accepted, under new rows; a delivery that was accepted and could not
  be recorded is told as FAILED and delivered again. A row may stay PENDING for good.
- A retried automation job executes the actions of every matching rule again, and the notifications with them. An engine's failing
  statement outside the actions ends the run: the rules after it wait for the retry.
- Two monitors that overlap record a breach twice and notify twice (`BreachToldOnce` names the overlap). The history entry comes before the
  notification and stays if that fails; the next run finds the entry and still looks for the notification.
- Two recalculations of a priority, or one and an automation, may write over each other: the row then holds what was computed
  from a value that is gone, and the entries do not continue each other. A forced recalculation writes and logs even when nothing changes.
- A survey that is written before its history entry fails cannot be submitted again, so its entry and its event are never made.
- A deletion removes the row before the file: a failure in between leaves a file that no row names. An upload does so the other way round.
- Two deletions of one policy are both audited and answered, though the later one deletes nothing.
- Two overlapping updates of a policy can leave its resolution target shorter than its first response; two overlapping replacements of
  a role's permissions leave the union of both lists, as neither transaction deletes what the other inserts. A list that names a key twice is refused as if it named an unknown key.
- An update or publication of an article that was validated before somebody archived it writes the archived row; publication takes it out of the archive.
- Failed logins that overlap count once, and a login that read the row before a lock may lift it. Two refreshes that overlap exchange one token
  twice; a failure after the revocation loses the session.
- The last use of an API key may go back when two requests come at once. A deletion of a key is logged, but not audited.
- The figures of one report differ by what was changed while it was made. With a filter on the status `slaBreachedTickets` and the resolution
  figures do not follow it, as their own condition replaces it. A ticket due at the very moment is breached to the one figure, not to the other.
- A ticket that has both and is reopened between the statements of the metrics is counted as resolved and as overdue.
- A RESOLVED ticket has no date of its resolution, so reports take `updatedAt`: any later write can make it late.
- An export with a filter misses the ticket behind a batch if the last one of that batch ceased to match before the next was read.
- The sync provider's `close` forgets the results of reports that requests still wait for.

## 5. Proofs

The theorems hold for every value of the constants that satisfies the named assumption of the module:
any number of events, executors, attempts, tickets, agents, workers, processes, entries and faults.

**OutboxRelay.** `TypeCorrect` is proved action by action; most of the work is the queue's completed set. The first three
safety properties follow from `IInv`. `ExclusiveClaim` alone is not inductive: that the row an executor works on
is PROCESSING has to be known through publication, acknowledgement and failure. `RowAccounted` says how attempts
and publications agree in every status, `ProcessInformed` what a process knows of its event at each step, including that
only a lost reply can bring it to the catch block on a PROCESSED row.

`QueueInv` adds what the job side needs: a process holds an event exactly while it is in `processEvent` (`HoldsEvent`), the job of that
event is then active and no other process has it, and without the queue nothing is ever stored. `OneRunnerCorrect` is a part of it; `Queue.add` may evict
the oldest completed job, and that the evicted one is the job of no runner is the step that needs the completed set (`CompletedSetIsExact`) beside it.
`BlockedEventsCorrect` needs more, `BlockedInv`: an attempt of a job fails only by a fault, so those a job has made number at most the
faults, and one that waits for its listener has used up all of them; a job that stalled has cost a crash; and a row whose job completes, now or
after its dead letter, is not PENDING without a counted attempt (`Attempted`).

What holds only without some fault is stated so, with the faults named in the theorem, and the model has the fault in all other
runs. `SettledCorrect` and `ImplementsDeliveryCorrect` assume that no reply of the database is lost: each action maps to a step of
`OutboxDelivery` or leaves what it says of an event alone (`StepDelivers`), the failure of an await included. `NoOrphanCorrect` assumes that
`processEvent` reaches an outcome (no failing read of the claimed row, no failing catch block, no crash), `DeadLetterCorrect` that
Redis, replies and processes survive; both by induction on their own property beside `IInv` and `QueueInv`.

**TicketLifecycle.** `InProgressHasAssignee` is not inductive because a worker writes what it validated earlier. `Consistent` ties
a worker's step to its operation and goal, `Validated` says that what was checked holds of the rows *as read*, and
`StaysAssigned` carries one fact from then to now: an assignee that was seen is not taken away. `TransitionsCorrect`
proves the action property from the same invariant, and `ImplementsMachineCorrect` proves step
simulation for isolated executions: while operations do not overlap, what was seen is still so. It is stated for instances
without `rule-assign`, whose action assigns without the rules' check.

`HistoryCorrect` is stated for transactional operations, for which the code means it. `AllTold` is the invariant: the newest entry
of each kind names the row's value. A transaction that commits writes its row and its entries in the order of its updates, so the
last entry appended is that of the last update, whatever it had read; one that is rolled back does neither. The autocommitted operations
are excluded because a crash between their two statements makes it false. `AnnouncedCorrect` holds with all operations but the rule
that closes a ticket, which has no event.

**AuditChain.** `IInv` says where every entry waits (`ChainsFit`), what its outcome tells of its record (`OutcomesFit`), that a
record links to an older visible one (`LinksPointBack`), and that a process which reads a hash, or has inserted after one, has
seen everything it wrote itself and was not told had failed (`ReadsItsOwn`). `Invariance` proves it, action by action. From it
follow `ForksExplained`, as the younger of two forked records would not have seen the older, and `BreaksAreForks`: take the first
record that `verifyChain` reports and the first one between it and the record it links to; that one is in order, so both link to
the same record. `SoleWriterVerifies` and `SoleWriterKeepsTrail` say when the comment in `audit-log.service.ts` is right: with one
process that learns how its inserts end (`OneProcess`, `LearnsOutcomes`), `verifyChain` never reports a break and the log implements
`AuditTrail`. They need `SoleWriter` in addition to `IInv`; `audit_late` shows that the second assumption is needed.

**WebhookDispatch.** `CompletedReachedAllCorrect`: a job that completes has reached every endpoint of its last run. `HookInv` follows the run:
what it listed it has reached or has still to do (`JobFit`), and it goes on only with a row of its endpoint that is PENDING (`CallerFit`),
so that settling a row never makes a count negative, which `WebhookTypeCorrect` needs. A deletion cascades to the rows, which is why the
property excepts deleted endpoints; `CallerFit` needs that an id is not used again after it. Of the constants the
proof needs only that the endpoints are finitely many and that jobs and tests are distinct.
`AcceptedIsToldCorrect` adds `ToldInv`: for every caller and endpoint the rows tell no more than was accepted, the answer being
recorded aside, and an acceptance that reaches the catch block, whose row is then told as failed, is one whose endpoint has been deleted
or one that a fault brought there. What is untold is a set (`UntoldAcceptances`); a step that is no fault adds nothing to it, a fault one
element (`UntoldStep`).

**EventFanout.** `OneFaultOneHandlerCorrect` says of any number of publications what `Promise.allSettled` is there for. `FanInv` has, beside the types, one part
for each publication: `PublicationFit` says that a handler's list is the rest of its steps, that an effect is done or still to do no more often than its event
calls for, that a returned publication has no handler with anything left, and where the mail's job stands; `CostsExplained` counts. A handler that misses an effect and a mail that went out again each take a fault of their own,
because a call that fails rejects one handler, and a mail is sent again only when the attempt that had sent it failed or its worker died. So both are
counted together against `fanFaults`, and each action changes one publication and at most one handler of it.

**AutomationEngine.** `AutomationAccountedCorrect` holds for any rules, conditions and lists of actions. `AutoInv` has `RunFit` (the rules of a run are different ones,
and what it executes is the rest of a plan, in which each entry of the history follows its change), `BegunFit` (a rule has been begun at most once for every attempt of the
job and every crash, the current one included, and those behind it in the list less), `BooksFit` (every execution begun has its record, is the one under way, or was lost) and
`EntriesFit` (a changed field has its history entry, is about to get it, or a fault came between). An execution is lost by a crash at the cost of one, or by two failing statements, of the
record and of the record of the failure: `RescueExecution` is the reason for the factor two. The list that `listActiveByTenantAndTrigger` returns is
the only one in order of creation, which `ActiveRules` states as a set with that list as its element.
`EngineComputesCorrect` says what a run computes that nobody disturbs. `Computes` puts the run beside the outcome functions: so many rules of the list are behind it
(`RunComputes`), so many actions of the current one (`InRule`) and so many statements of the current action (`InAction`), and the row is among what these make of the event's ticket;
each rule behind has one record (`RecordedUpTo`). A step moves one of the three numbers. Two things carry the proof: the recursive functions have the values their
definitions say (`RowAfterIs`, `ActionsAfterIs`, `RulesAfterIs`, by the smallest length for which no such function would exist), and a list of active rules, different ones and as many as there are,
lacks none (`ListHasAll`). A user's change or a fault leaves `Untouched` for good.

**Jobs.** `LossesExplainedCorrect` holds of the jobs of all three: `HooksKept`, `AutomationKept` and `MailsKept` say of each job
that it stalled only with a crash behind it, is dropped only with two, is unreported only by a fault of the listener, and that its attempts are used up exactly
when it is failed, dead or unreported. `FailedAttempt` and `StalledJob` prove that of one job's steps; each component then shows that its
actions make no others (`HookJobMoves`, `AutomationJobMoves`, `MailMoves`). For mails the faults have no kinds in the model's count, so `Cost` adds up what a job has cost.

**The composition `MCBackground`.** `BackgroundSpec` lets one component run and the others rest, so each of its behaviours is one of every component
(`BackgroundCorrect`), and the type invariant `BackgroundTypeOK` is the conjunction of theirs (`BackgroundTypeCorrect`).

**Around a ticket (`TicketCareProofs`).** Each property says that what is missing or repeated has a fault or an overlap to explain it, so each
invariant counts while it relates what a request has seen to the rows. `MonitorInv`: two runs that are under way are known to overlap, and so are all but
one of those that recorded a breach. `SatisfactionInv`: surveys, entries and events are made in this order, so a survey without one of them belongs to a submission
that is under way or was cost by a fault. `PriorityInv`: without a fault the row is what its last entry tells and whoever has read another
value is among the overlaps. `ThreadInv`: where a file, row, entry or notification is due (`AttachmentsPlaced`, `CommentsPlaced`), with at most as
many uploads and comments left incomplete as there were faults. `RoutingInv`: the loads the run counts itself are level, and the real ones differ
from them by what others changed (`DriftBounded`). The lemmas at the head of the module count: a set grows by at most one when one element changes.

**Records (`RecordsProofs`).** `InboxInv`: both ways to read a notification touch unread rows only, so the set of read rows grows by as many as
the request reports. `SyncInv`: the provider's counts are those of the jobs, and until it closes every job whose result is kept is
told as it ended (`OpenTells`). `PolicyInv` and `ArticleInv` tie what a request validated to the row it will write (`ReadStands`): the row is as it was
read, or the request is known to write blindly. `FiguresInv` has a part for each actor: every statement of a report answers for a ticket that was left
alone as the table does (`ReportPart`), and those that the metrics have counted as closed still are, but for the tickets changed since, until the overdue ones
are counted (`Reopened`); an export sends in order, and a ticket that matched all the time is behind its cursor, sent, or counted in
`skips`, once for each time the row of the cursor no longer matched (`ExportPart`).

**Access (`AccessProofs`).** `RoleInv`: the permission rows of a role carry the request that wrote them, so a role has whole lists, of
several writers only if these overlapped. `KeyInv`: the last use lies before the expiry and is not before any use that was written, except for those on their way
together. `SessionInv`: the row against `accIdeal`, from which it differs only by logins that wrote blindly, and the locks they lifted (`AccountPart`); a token is
exchanged by one refresh or by some that overlapped (`TokenPart`); what is lost has its fault (`LossPart`).

**Feature flags and the composition (`AdministrationProofs`).** `StaleBounded` speaks of settled time, so `FlagInv` bounds the age of a value by where
it is: in a memory, in Redis, in the hands of a request that read it from either (`InFlightPart`). A value passes at most from Redis to one memory,
which is where twice the lifetime comes from. `EveryChangeAudited` is `ChangesPart`: a change has its entry, or its request has still to write it, or is lost. `AdministrationSpec`
lets one component run and the others rest, so each of its behaviours is a behaviour of every component; from the theorems
of the components follow `TicketCareIsAccounted`, `RecordsStayConsistent`, `SessionsAreKept` and `FiguresAreExplained`, which the run checks.
`AdministrationTypeCorrect` adds the bounds of counters that the components' invariants do not need: what is counted of the notifications are those that were
read (`InboxTypes`), and an agent is counted with all tickets at most and given the list at most, hence the factor two in the loads (`LoadsBounded`).

**Only model-checked.** Liveness and everything that needs ENABLED (`EveryEventSettles`, `OperationsEnd`,
`EveryRecordSettles`, `EveryJobEnds`). The refinement of `TicketMachine` is proved and has no run: TLC agreed with it
on two tickets, two workers, four operations and a fault. Every invariant, action property and refinement that a passing run
checks is a theorem; those that only hold where a fault or an operation is left out (the runs leave it out, too) name it in their `ASSUME`.

## 6. Plan

Done: the outbox, the ticket lifecycle and the audit chain; the flag cache; jobs, event fan-out, webhooks and automation; the
monitor, surveys, priorities, attachments and comments, routing; notifications; the sync provider; policies, articles and roles; sessions and
API keys; reports and exports. All of them are proved about.

What would come next:

1. An abstract specification of a webhook delivery ("every endpoint is tried, every attempt told") that `WebhookDispatch` refines without faults.
2. Automation in `TicketLifecycle`'s instance: rules fired by the events of the use cases that race with them.
3. Categories and customers, if they ever get more than single statements.

Runs are one per question or, where components share no state, one for several of them; where a later module needs one, a run
whose question a theorem answers for all constants gives way.

## 7. Not modelled

- Payloads, formats, validation and permissions of requests; lists and searches; transport of mail and
  HTTP; configuration and start-up. They hold no state that two actors share.
- `tenants`, `customers`, `support`, ticket categories: one row written by one statement, or only read.
- The SDK (generated from the OpenAPI documents), the OpenAPI documents themselves, seeds, scripts and migrations. They are more than a
  third of the repository's lines and contain no behaviour of the system; with the lists and the routes, which are another third, they are why the
  definitions of `PROJECT.json` stand for a small part of the lines although they stand for nearly every statement that writes.

The reasons are in `PROJECT.json`, component by component.
