# Xvond Core: TLA+ models, checks and proofs

Xvond Core (`backend/app`, FastAPI, SQLAlchemy, PostgreSQL, Redis) runs "AI
employees" for companies: they answer customers on WhatsApp and other channels,
prepare and execute business actions, run scheduled and event-driven
automations, and are sold as subscriptions. This directory models the parts of
it whose correctness depends on the order in which things happen, checks them
with TLC and proves what matters most with TLAPS.

* [1 The system](#1-the-system)
* [2 The modules](#2-the-modules)
* [3 The runs](#3-the-runs)
* [4 The proofs](#4-the-proofs)
* [5 What the checks found](#5-what-the-checks-found)
* [6 Assumptions and what is left out](#6-assumptions-and-what-is-left-out)
* [7 Plan](#7-plan)

`tlc -config X.cfg MCModule` runs a check, `tlapm XProofs.tla` a proof.
`PROJECT.json` lists components, runs, mutants, hazards, theorems, and for every
definition the source lines it stands for. Paths without a directory below are
under `backend/app`.

## 1 The system

Processes: the API (several uvicorn workers), one WhatsApp worker
(`scripts/whatsapp_worker.py`), one automation scheduler
(`scripts/automation_scheduler.py`), PostgreSQL, Redis, an n8n workflow engine
with a registry of routes, and the providers (Meta, AI models, Tap, Google,
mail). Processes share state only through PostgreSQL and Redis. SQLAlchemy
sessions run with `autoflush=False` and expire objects on commit; PostgreSQL
runs READ COMMITTED. A commit writes the columns that differ from what was
loaded, and a JSON column is one column: that is where most of the hard
behaviour comes from.

| Component | State | Operations | Talks to | What is hard |
|---|---|---|---|---|
| WhatsApp job queue and worker (`channels/whatsapp_queue.py`, worker script) | Redis: job list, processing list, retry set, dead list, worker lease | enqueue, recover, promote, reserve, acknowledge, retry or dead-letter, requeue | API, turn | crash between any two commands, a worker that outlives its lease, lost replies |
| WhatsApp turn (`api/whatsapp_webhook.py`) | inbound row, delivery rows, conversation, session | claim, bind, chat, answer, fallback, takeover, replay | queue, runtime, tools, delivery | replays, a business action that commits in mid-turn, lock orders, duplicate posts |
| WhatsApp delivery (`channels/whatsapp_delivery.py`) | outbound row | attempt, provider report | Meta | timeouts, crash after the post, concurrent observers that decide on a row loaded before the lock, reordered reports |
| Human handoff (`channels/handoff.py`, webhook, `api/customer_inbox.py`) | session control state, Redis marker, handoff record | echo, command, takeover, return to AI | Business App, Inbox, turn | marker, session and record change at different times in different processes |
| Managed channels (`api/customer_meta_channels.py`, `api/admin_channels.py`, `channels/delivery.py`, registry) | channel row, routes in the registry | connect, activate, settings, pause, withdraw, disconnect, delete | n8n, registry | two databases without a common transaction, loads before the lock, an operator who may write any config |
| Turns and deliveries of managed channels (`api/internal_channel_gateway.py`, `channels/managed_delivery.py`) | conversation, messages, delivery rows | inbound message, answer, takeover, human reply, attempt, reconcile, confirm | n8n, AI runtime, Inbox | repeated posts, answers looked up by order, early commits, rows loaded before the lock, late confirmations |
| AI runtime (`core/agent_runtime.py`, `core/ai`) | messages, usage | chat with rounds of tool calls, provider fallback | providers, tools | runs inside a caller's transaction |
| Tools and business actions (`modules/tools`) | ActionRequest rows | prepare, confirm, execute, cancel, reconcile | n8n, integrations | external call between two commits, unknown outcomes |
| Automation event outbox and dispatch (`automation/event_outbox.py`, `event_dispatch.py`, `core/execution_claims.py`) | outbox rows, execution claims in Redis | enqueue, dispatch, claim, retry | scheduler worker, runtime | crash while processing, slow dispatchers, a claim that outlives its holder |
| Automation runs, waits, retries, schedules (`automation/runtime.py`, `scheduler.py`, `execution_graph.py`) | workflow runs, checkpoints | execute, due waits, retries, schedules, approvals | tools, outbox | deduplication by history, advisory locks that end at the first commit, checkpoints of nested loops |
| Billing (`modules/billing`, `api/billing_webhooks.py`, `public_billing.py`) | subscriptions, checkouts, renewal attempts, payment events | checkout, renewal, webhooks, limits | Tap, Paddle | webhook racing the API answer, unknown charges, duplicate events |
| Employee builder and compiler (`ai_agent/*`, `api/customer_employee_builder.py`) | settings of one configuration row, connections, actions, workflows | compile, preview, launch, revise, apply, roll back, connect, provision | all configuration | endpoints that write back settings they read before, evidence of an older build, plans that differ from the rows |
| Schedule arithmetic, agent state (`schedule.py`, `agent_state.py`) | none; per-employee state map | next due slot, limits | runtime | boundaries, limits |
| Integrations (`modules/integrations`) | connection rows, OAuth tokens | connect, refresh, call | Google, mail, HTTP APIs | token refresh |
| Knowledge, files, media | documents, chunks, embeddings | ingest, search | providers | mostly data |
| Customer operations and memory (`customer_ops`) | customer profiles, notifications | record, remember | turn | read-modify-write of JSON |
| Identity, sessions, rate limit (`core/security.py`, `dependencies.py`, `rate_limit.py`, `visitor_tokens.py`) | users, tokens, counters | login, refresh, limit | API | window boundaries, two back ends |
| Website widget, public channels, voice | visitor conversations | message, poll | runtime | as managed channels |
| Administration, analytics, audit, readiness | reports | read | all | read-mostly |
| Operations scripts, front end, migrations | none | deploy, back up, display | | outside the program's own logic |

What makes each of the modelled parts correct is stated with its module below.

## 2 The modules

| Module | Stands for | State | Actions |
|---|---|---|---|
| `WhatsAppQueue` | `WhatsAppJobQueue`, `main` of the worker | four Redis keys as sequences, the lease, place, reserved job and heartbeat of each worker | one per Redis command or loop step, plus crashes, stops, freezes, heartbeats that end, lost replies |
| `WhatsAppDelivery` | one `WhatsAppOutboundDelivery` row | its columns, each observer's place in `attempt_delivery` and the row as it loaded it, what became of the copies | load, the two transactions, the post, crash, provider reports |
| `OneShotSend` | what the delivery code promises | copies, verdict, races | send, decide, race |
| `WhatsAppTurn` | `process_webhook_payload` for one message | claim, locks, delivery rows, program counter of each execution | one per lock or commit of the turn, the fallback, the takeover and the replay |
| `WhatsAppHandoff` | who answers a contact | clock, echoes, marker, session, record, worker, Inbox, the answer on its way | one per transaction or Redis command; a turn checks, commits and posts in steps of their own |
| `AutomationOutbox` | the event outbox, its dispatch, the execution claims | outbox rows, claims, runs per event and workflow, each dispatcher's place | one per transaction, Redis command or loop step; time, toggled workflows, crashes and errors |
| `AutomationRuns` | runtime, scheduler, resumption by events, the routine endpoints, for one workflow | workflow, run rows, approval requests, threads | one per commit, lock or node of the graph |
| `ExecutionGraph` | nodes, normalisation, places in nested loops, checkpoints | none | operators that `AutomationRuns` uses |
| `ServiceBilling` | one subscription paid through Tap: checkout, renewal, webhooks, expiry, administration | subscription, attempts, checkouts, payment events, schedulers, webhook requests, Tap | one per transaction or call |
| `BusinessActions` | the requests of `action_request` and its workflow variant, the gateway, callbacks, the portals | rows, outbox rows, slot lock, sessions, calls under way | one per transaction, call, callback or decision of a person |
| `ManagedChannels` | one channel row and the routes in the workflow registry | row, row lock, registry, requests, calls under way | load, lock, choose a key, provision, check, commit, remove, for each endpoint |
| `GatewayTurn` | messages and deliveries of one contact on such a channel | messages by id, conversation lock, delivery rows, requests, calls under way | post, turn, early commit, delivery, takeover, reply of a colleague, confirmation, retry, reconciliation |
| `EmployeeBuilder` | life cycle of a self-service employee: builds, evidence, revisions, versions, connected systems | settings row, connections, what runs, endpoints without a lock | one per endpoint; those without a lock have a read and a write |
| `EmployeeProvisioning` | what a build is provisioned with, readiness, the journey of the portal | stored build, plan, actions, schedules, workflows, connections | one per endpoint |
| `MC*` | instances for TLC | | symmetry, constraints, example graphs and briefs |
| `*Proofs` | theorems, of one or two modules each (section 4) | | |

Where two components share a module of proofs, the general names of one of them
carry its name: `DeliverySpec`, `TurnSpec`, `OutboxSpec`, `ProvisioningSpec` and
so on; their variables are `deliveryVars`, `turnVars`, ...

`EmployeeBuilder` and `EmployeeProvisioning` look at the same endpoints. The
first has evidence, versions and stale writes and a build with one connected
system; the second has the rows provisioning makes and every endpoint as one
step. `AutomationRuns` extends `ExecutionGraph`; `WhatsAppDelivery` implements
`OneShotSend`.

**Queue.** Redis commands are atomic, so each is a step; a `MULTI` is one step.
`LPUSH`/`RPOP` lists are sequences read from the head. A raw job is its
identity, its attempts and a stamp, because `LREM` compares the whole JSON text.
A lease expires when nobody refreshes it: its owner is dead, or its heartbeat
thread has ended (`HeartbeatEnds`: at the first `RedisError`, or when it finds
another owner), whatever the main loop is doing - it looks at `lost_lease` only
at its head, after the job it has. `Freeze` is a process that stands still, with
its heartbeat, until the key has expired. The other faults are `Crash`, `Halt`
(signal), `RedisFails` (before or after the command took effect) and
`PopReplyLost`. `stranded` notes the jobs in "processing" that only the next
start will find.

**Delivery.** Every caller has loaded the row when `attempt_delivery` locks it,
and SQLAlchemy's `FOR UPDATE` without `populate_existing` does not refresh a
loaded object (`_locked`, `whatsapp_delivery.py:103`). So `LoadRow` is a step of
its own, and `Begin` (commit "sending"), `Leave` and `ObserveInterrupted` decide
on `seen`, the observer's copy. `Flush` writes the columns that differ from it.
The commit expires the copy and `to=row.wa_id` loads it again (`Reload`) before
the post (`MetaAccepts`, `MetaRefuses`); `Record` is the second transaction, a
`Crash` may come anywhere. `fate` has what became of each message that Meta
accepted, `stale` counts the decisions on an outdated copy. `Verdict` maps the
row to `OneShotSend`, with `stale` as its races.

**Turn.** A transaction is the set of locks it holds; `EndTransaction` is commit
or rollback. `holder` has the inbound row, the contact's advisory lock, the
conversation row and the unique key of the reply; `share` holds the transactions
that inserted a message into the conversation (the foreign key locks its row in
share mode). `ActionCommits` is the commit in
`WorkflowActionRequestTool._execute_request`, which ends the turn's transaction
under it. `DeadlockAbort` is PostgreSQL choosing a victim. `overlap` notes that
two executions were under way at once, which the queue's single worker normally
excludes.

**Handoff.** Time is in minutes; only the generation of an answer spans ticks.
The worker loads the session before it waits for the conversation row, the Inbox
after; `Write` sends only the columns that differ from the loaded ones, which is
what the ORM does. `TurnChecks` is the look at session and marker before an
answer, `TurnReplies` the commit of the answer and its delivery row,
`AnswerLeaves` the post - by the worker, by a replay of the job or by an
administrator - which looks at neither. `unsent` has the replies the webhook had
received when the answer under way was checked.

**Outbox.** `Poll` is the query for due rows, `Begin` or `Leave` the first
transaction of `dispatch_outbox_event`, `Select` to `Returns` the loop of
`dispatch_automation_event`, `MarkDispatched` or `MarkFailed` the last
transaction, which writes the outcome over whatever the row says by then. Time
is `Ripen`: the retry delay, or the 300 s after which "processing" counts as
dead, pass; a row may ripen under a dispatcher that still works. The history
variable `disturbed` notes that, and every crash, Redis and database error.
`Steady` are the workflows that stay enabled. Production runs one scheduler
container; a deployment that starts the new one before the old one has stopped
has two, so the model has a set.

**Runs.** A place in a graph - on a thread's stack or in a checkpoint - is the
sequence of its levels, a node and an iteration each. A node depends on nodes
before it, and loops nest twice at most: that is what `NormalGraph` makes of a
stored graph and `HasNoContractErrors` checks. `Onward` is where a run goes from
a node, `IntoLoop` how it enters a loop, afresh or where its checkpoint is.
`Persist` commits the retry checkpoint before a node; `Read`, `Write` and
`CallOutside` tell what a node leaves behind when its transaction is rolled
back. Who resumes a run flushes "running" without committing, so until the next
checkpoint only locks keep others out. Waits are due, and matching events come,
at any time. `NodeFails` is a node that fails before it does anything,
`LoopFails` a loop that meets a database error as it goes on from a checkpoint:
the retry checkpoint written for it is the loop's own, so it is begun anew.

**Billing.** Every transaction reads, decides and writes in steps of its own,
and writes the columns it changed. Tap settles a charge in its own time and
posts its webhooks in any order, again and again. Ghost variables count the
calls made for a period and the months granted for a charge.

**Actions.** All requests ask for one slot. A session loads a row without a
lock, commits "executing" or "cancelling" before it calls, and records the
answer over what it loaded; a call without an answer stays on the wire. `policy`
is the configured action: inside, a human, an integration, a workflow, or a
native workflow with a callback.

**Channels.** A request calls the registry in the middle of its transaction; the
call may time out and be carried out later, and the request may end before its
commit. The customer's endpoints load the row before they lock it and decide on
what they loaded. The operator's PUT (`CommitEdit`) merges any config - key,
state and clean-up included - into a channel that may be live, without lock or
check. `mishaps` records overwritten rows, replaced keys, connections the
operator rewrote ("rerouted": those of a live channel) and transactions cut off
after their call.

**Gateway.** A row's place in `log` is its id, given on insertion and not on
commit. A post looks for its message, takes the next row for the answer, or runs
a turn that holds the conversation's row until it commits; a tool that commits
gives it up in the middle. A delivery row is loaded again after each commit,
without a lock (`LoadRow`), and what is decided behind the lock is decided on
that copy (`seen`). `apart` has the messages whose row was committed apart from
their answer, `misjudged` the deliveries a person reconciled wrongly or too
early, `outdated` those that an attempt took for not begun although another had
begun them.

**Builder.** Settings are one JSON column: an endpoint without the row lock
(free chat test, connected systems, OAuth callback) reads them, and later writes
them back with its own change. `compiled_at` is a counter; the evidence of a
preview names it. What the compiler asks the owner is answered once, or - a
requirement without `after_input_status`, which stays "customer_input_required"
- as often as he likes, with `compiled_at` left as it is. `previewed` and
`raced` are history variables: what was tried with which body and edition of its
system, and that a stale write happened.

**Provisioning.** `Provisioned` is `provision_compiled_capabilities`: it keeps
what exists, adds what is missing and leaves a plan in the build. `Cleared` is
what an older build leaves, `Ready` the readiness, which reads the plan and not
the rows, `NextSteps` what the portal offers: nothing where the journey
`Raises`, and no step for a credential the compiler asks for.

## 3 The runs

| Run | Question | Bounds |
|---|---|---|
| `queue` | Is an accepted job lost, does a worker start beside a healthy one, and does every job settle? | 2 workers, 1 job, 2 attempts, 2 failures, 2 stops (crash, signal, freeze, end of a heartbeat, Redis error), 1 requeue; fair |
| `delivery` | Is the row honest, are receipts kept, does the code keep the one-shot contract? | 3 observers, 2 attempts, 1 outdated decision, 1 crash |
| `turn` | Does a message get one answer, and does that settle? | 2 jobs of one message, 2 tries, 2 crashes, 2 changes of control; fair |
| `handoff` | Does a return to AI stand, is a pause bounded, does the AI talk over a colleague? | 2 replies, 1 command, window 2, 4 instants, 2 decisions, no late webhook |
| `outbox` | Does an event start a run twice, get lost although nothing befell it, or never settle? | 1 event, 2 workflows (1 steady), 2 dispatchers, 3 attempts, 2 accidents, 1 toggle; fair |
| `runs` | Do nodes run once, only with their approval, one run per slot; does an event end its wait, and does every run move on? | 2 threads, 5 graphs, 2 runs, 1 automatic retry, 1 start by hand, 1 upset; fair |
| `billing` | Does a captured charge grant one month, is a period charged once per scheduler, is a captured payment dropped? | 1 scheduler, 2 webhook requests, a paid and a free plan, 2 periods, 1 fault or change |
| `actions` | Is the status of a request true, an execution never repeated blindly, the slot never overbooked? | 2 requests, 2 sessions, capacity 1, 2 gateway attempts, 3 turns, 1 decision, 1 crash |
| `channels` | Are all routes known, and has a live channel one? | 2 concurrent requests, 5 in all, 3 keys; a PUT that sends any key as connected, or wipes the connection |
| `gateway` | Is a message delivered once unless two attempts overlap, its row true, its answer its own? | 2 messages, 1 reply of a colleague, 2 concurrent requests, 3 in all, 1 takeover, 1 death |
| `builder` | Is a live build tested, connected and not escalated, and does a revision replace its base? | 2 routines, 2 answers, 1 version kept, 2 connections, 3 compilations, 1 edit, 1 unlocked request |
| `provision` | Does only the stored build run, is there always a next step, does a launch have work? | 3 briefs, 3 requirements, 1 routine, 2 connections, 2 changes |

Why the bounds are enough: every counter bounds a fault or a repetition, and
each property is violated, if at all, by one or two of them; the mutants in
`PROJECT.json`, plausible slips in the code, all violate their property within
the same bounds. Two workers, observers, sessions or requests are all that can
conflict over one lease or row pairwise; the third observer lets two race behind
a crashed one, and the third key lets a key be replaced twice. One outdated
decision over a delivery row is enough for a second copy, which the properties
then count; the theorems hold for any number. The window of two
ticks has an inside, a boundary and an outside. Three attempts of two
dispatchers let the limit be overrun and an attempt in the middle fail. The
graphs of `MCAutomationRuns` have loops in loops with a wait, an event or an
approval inside, nodes that are dropped, skipped and empty. One version kept
stands for `BUILDER_HISTORY_LIMIT` (20), which limits the same list.

Constraints: `OneUpset` (a fault or a change, not both), `Bounded` (requests
meet only in the slot; native callbacks multiply), `NotOvertaken` (after a stale
write the builder's properties claim nothing), `Claimed` (nor do those of the
channels after a row was overwritten or a live channel rerouted),
`NoMisjudgement` (after a wrong reconciliation the delivery row claims nothing).
All five are used with safety properties only.

The runs that say `CHECK_DEADLOCK FALSE` are those where the system may come to
rest: a delivered message, a settled event, spent bounds.

**Fairness.** `WhatsAppQueue`: a live process executes its next step, a stopped
container is restarted (`restart: unless-stopped` in the compose files), Redis
expires a lease that nobody refreshes - one whose owner's heartbeat runs never
has to expire, so a worker may stay healthy for ever, and `EveryJobSettles`
excepts the jobs in `stranded` -; promotion of *all* due retries is strongly
fair because delays are at most 600 s and the worker polls every 5 s. Faults are
not fair. `WhatsAppTurn`: an execution keeps executing, and the model call
eventually answers: `ChatAnswers` is strongly fair because the loop over tool
rounds is bounded. `AutomationOutbox`: time passes for every row, and each
dispatcher executes its next step, since the scheduler is restarted and polls
again. `AutomationRuns`: a thread executes its next step, and the scheduler,
which looks at all due waits and retries in every cycle, gets to a run that is
due again and again (strong fairness of `LookAtWaits` and `LookAtRetries`);
events, approvals and retries by hand are not fair.

## 4 The proofs

Every theorem holds for all sets and bounds; the constants only have to satisfy
the `ASSUME` of their module: the bounds are natural numbers, the markers
(`NoRun`, `Nobody`, `NoKey`, `NoSpec`, ...) are not members of the sets they
stand beside, the sets of processes that are counted (dispatchers, schedulers,
sessions, requests) are finite, and the graphs of `AutomationRuns` are what the
compiler stores: nodes in at most three levels (`StoredGraphs`; deeper ones have
contract errors), while the look at the recent runs sees at least one
(`Recent`).

| Module | Theorems |
|---|---|
| `WhatsAppMessageProofs` (queue, turn) | `TypeCorrect`, `NoJobIsLost`, `AtMostOneWorker`; `OneAnswerPerMessage` |
| `WhatsAppReplyProofs` (delivery, handoff) | `DeliveryIsTyped`, `NoDuplicateMessage`, `RowIsHonest`, `ReceiptsAreKept`, `DeliveryIsOneShot`; `HandoffIsTyped`, `RepliesAreRespected`, `ReturnsToAiStand`, `FirstPauseEnds` |
| `AutomationProofs` (outbox, runs) | `OutboxIsTyped`, `OneRunPerWorkflow`, `AttemptsAreBounded`, `GivenUpIsExhausted`, `NoEventIsLostSilently`; `RunsAreKept`, `RunsAreTyped`, `NodesActOnce`, `ApprovalsComeFirst`, `SlotsRunOnce`, `EventsEndWaits` |
| `ServiceBillingProofs` | `CapturedChargeGrantsOneMonth`, `NoCapturedPaymentIsDropped`, `CallsAreBounded` |
| `BusinessActionsProofs` | `RequestsAreTyped`, `NothingIsRetriedBlindly`, `TheSlotIsNotOverbooked`, `StatusesAreTrue` |
| `GatewayTurnProofs` | `TurnsAreTyped`, `AnswersAreOwn`, `DeliveriesAreTrue` |
| `EmployeeBuilderProofs` | `SettingsAreTyped`, `LiveSystemsAreValid`, `LiveIsNotEscalated`, `RevisionsReplaceTheirBase`, `LiveBuildsWereTried` |
| `EmployeeSetupProofs` (channels, provisioning) | `EveryRouteIsRemembered`, `LiveChannelsAreReachable`; `ProvisioningIsTyped`, `TheBuildRuns`, `LaunchesHaveWork`, `NextStepsAreShown` |

**Queue.** `NoJobLost` is not inductive: the invariant adds that a worker that
reserved a job and has not yet acknowledged it either still finds it in a key or
has completed it. The step that could lose a job is `LREM`, whose lemma says
that only one occurrence of exactly that text goes. Leases are not assumed to
hold. For `AtMostOneWorker`, `LeaseInv`: a worker that is up and was not told to
stop has its heartbeat, and owns the lease or stood still past it.

**Delivery.** `Counted` holds throughout: the copies that left, the posts that
may still leave and the permission the row gives to send are together at most
one more than the decisions made on outdated copies of the row. As long as there
was none, one observer at most is in mid-call, and then the row says that the
outcome is open (`OneInFlight`); what it says of a delivered message is what
became of it (`RowIsTrue`). `DeliveryIsOneShot` maps every step to a step of
`OneShotSend` or a stutter.

**Turn.** `TurnInv` says, as long as no two executions overlapped: one execution
is under way (`Solo`), what it has read of the claim is still so (`Fresh`), an
answer is committed together with the terminal claim (`Recorded`), and what is
being sent has a row (`Sent`).

**Handoff.** `RepliesAreRespected` and the types hold whatever is late; its
invariant `CheckedAnswers` says that of the replies received before the check of
an answer that is under way none is in control, as long as no return was typed
in the app.
`ReturnsToAiStand` and `FirstPauseEnds` assume `~Late`, that the webhook of an
echo comes within the minute it was sent in, which is also how the run checks
them: an echo that comes later does undo a return (section 5). `Stands` is what
a return to AI leaves until somebody takes control: neither the session nor what
any transaction under way has loaded or is about to write says "human", and no
marker is of a reply older than the return. `EndsByItself` follows control
without a deadline back to the echo that the turn saw and that still waits in
the queue. A return typed as a command is an echo itself: `Returned` leaves it
out of the takeovers that would void it.

**Outbox.** `RunInv`: a dispatcher that is about to execute owns the claim of
its pair, no two own the same one, and a pair with a run and without a claim is
refused by the look-up; the claim protects the time between look-up and commit,
the recorded run everything after. `LimitInv`: what attempts exceed the limit by
is paid for by dispatchers who no longer hold the id. `LossInv`: an event that
met no accident has one dispatcher at a time, and a dispatcher past a steady
workflow has left a run of it.

**Runs.** `RunsInv` has five parts. `Frame`: the graph is a good one - every
loop has nodes, dependencies point backwards, loops nest twice at most - and the
tables have the runs as keys. `Rows`: what a row remembers is a place in that
graph, and what the run has done agrees with it: a run that waits, or may be
retried, has done exactly what comes before its checkpoint (`Shown`), a finished
one everything. `Staff`: a thread that executes a run has done what comes before
its node except for what it has still to commit (`Walks`), which is the last of
it (`Pending`); what it resumes from fits where it is (`Placed`), and the event
it brings is the one it goes to (`Hears`). `Exclusive`: one thread at most
executes a run - the row and advisory locks until the first commit, the status
afterwards. `Slotted`: rows are numbered in order and a schedule's slots grow
with them, which is why `Recent > 0` is enough for `OneRunPerSlot`.

Most of the proof is about places. `IsPlace` says what a place is, `Past` when
it has left a leaf behind, and the lemmas show that `Onward` reaches the next
leaf and leaves out none but those inside skipped and empty loops
(`OnwardPlace`, `OnwardPast`, `SkipDone`, `LeafDone`), that a loop entered
from a checkpoint ends up where the checkpoint is (`IntoAgain`), and that leaves
are ordered (`BeforeTransitive`, `BeforeIrreflexive`). They hold for every graph
with two levels of nesting, by cases on the depth and not by induction, since
the contract bounds it. That `NormalGraph` makes good graphs of what is stored
is an induction over the nodes; it uses `UpTo`, which needs no operator as a
parameter.

**Billing.** `MonthInv`: the event row, inserted in the transaction that grants
the month and unique, is there exactly when the month was granted. `CallInv`: an
attempt that left "pending" never returns to it, and the calls made for a period
plus the schedulers about to make one are no more than the schedulers - each
decides on "pending" in its own step.

**Actions.** `Moves` abstracts what the steps of a session have in common: it
works on the row it loaded and writes statuses of its operation. `NoBlindRetry`
follows from a counting argument (`Fair`): the executions begun and those a
session may still begin are at most the times a person reopened the request plus
one, for each session. `NoOverbooking` is `Booked`: the rows that occupy the
slot are at most its capacity, counting the one its lock's holder is about to
place. `StatusIsTrue` needs the most: `Owned`, that a call is on its way for its
waiting sender just once, and for every request that only one actor at a time
worked on `Truth` - what the row says (`Says`), that a settled request has
nothing under way (`Settled`), that a cancelled one was undone as often as it
was done (`Undone`), that receipts and announcements agree with the row
(`Notes`, `Claims`), and what the session in charge knows (`Mine`).

**Channels.** `Known`: every route is the row's or is held by a request under
way. `Clean`: a removal that was confirmed leaves none but those held by others.
`FreshReads`: who was not overtaken has read the row as it is. The lock held by
a connecting customer rules out that a rival commits a removal it made before.

**Gateway.** `AnswerInv` says what the order of ids allows: a turn's message and
answer are `Adjacent` unless the message was stored apart from its answer, only
the holder of the conversation adds rows between them (`TurnHolds`), and a
delivery is of the row chosen for it (`Chosen`). `StatusInv` counts for each key
the calls under way, the copies the customer got and what the delivery row says
(`Once`, `SentIsSent`), as long as no attempt decided on an outdated copy of its
row. The proof covers all states until a delivery is misjudged; the run leaves
out the same states by its constraint.

**Provisioning.** `Whole` describes the build that runs: made for what is stored
(`Made`), nothing in it that the stored build does not ask for (`Own`,
`Belongs`), everything it asks for made or named as missing (`Shown`, `Works`,
`Blocked`). It is stated over one record of all the tables, `Current`, so that
each step of `Provisioned` is a lemma about a record and not about a state.

**Builder.** `Granted`, `Live` and `Based` relate the stored build, the revision
and what the owner allowed, all as long as no stale write happened; `Reads` says
that an endpoint without the lock which was not overtaken has read what is
stored. `TrialInv` adds to them what a preview leaves: evidence is backed by a
trial of the same body (`Backed`), builds of different content have different
stamps (`Apart`), stamps are counted (`Counted`), and versions and revisions
only remember what was tried (`Remember`).

What stays with TLC: every liveness property, since fairness and `ENABLED` are
out of the prover's reach (`EveryJobSettles`, `AnswerSettles`, `EventSettles`,
`RunsMoveOn`), and of the safety properties only `TypeOK` of `WhatsAppTurn`,
where `SelectSeq` takes an operator, which no run needs either. All other
invariants and action properties of the runs are theorems. In the other
direction the types of `AutomationRuns`, `GatewayTurn`, `EmployeeProvisioning`,
the handoff and the delivery, `AttemptsBounded`, `FailedIsExhausted` and
`OneCopyPerDecision` are proved and not run.

The proofs changed the models in places. Normalised graphs were a recursion the
prover cannot read and are now a recursive function. `NodesRunOnce` counted
nodes inside loops that are skipped among those that are due; it holds of `Due`,
which leaves them out. A run of an empty graph fails before its first node, and
`Init` leaves such workflows out. `NextStepIsShown` needed one more case in
`DeadEnd`: a step of a routine may be of an action that is none of the
requirements, and no next step ever sets that up.

## 5 What the checks found

A property says what the code does keep; where it does not keep what a comment
or a document promises, or what one would expect, the property has an exception.
These are the exceptions and what else was noticed while modelling.

WhatsApp
* The heartbeat thread ends at its first `RedisError` (`whatsapp_worker.py:39`),
  and the main loop notices after the job it has: the lease expires under a live
  worker and the next one recovers, and runs, that job too. `SingleWorker`
  excepts such a worker, and one that stood still past its lease.
* A job whose `BRPOPLPUSH` reply was lost, or that a superseded worker left when
  it ended, stays in "processing" until a worker starts: the healthy one does
  not look (`whatsapp_worker.py:80`; `stranded` in `EveryJobSettles`).
* `attempt_delivery` decides on a row that it has locked and not refreshed. Two
  observers that loaded it before either locked it both send ("Send exactly one
  durable delivery attempt", "does not blindly resend it",
  `whatsapp_delivery.py:128-134`); one that loaded "sending" writes "unknown"
  over "accepted" or "delivered". `OneCopyPerDecision` counts these decisions,
  and the other properties of the delivery hold until the first.
* The AI's answer is checked against takeovers, committed and posted in three
  steps (`whatsapp_webhook.py:1293`, 1366, 1368): a reply received after the
  check is answered over. A replayed job that finds a delivery to be retried,
  and an administrator's retry, look at no takeover at all.
* Two overlapping executions of a message (no Redis, or a worker that outlived
  its lease): a business action of the first drops its locks, the second claims
  the row, meets a service limit and commits the fallback notice, and the first
  then commits its answer too ("AI sends exactly one reply",
  customer-onboarding-runbook). `OneAnswer` is about executions that do not
  overlap.
* A return-to-AI command typed in the app clears the marker of a reply that is
  newer than the command (`whatsapp_queue.py:215` promises the contrary).
* An old echo whose session was loaded before the Inbox's return undoes that
  return (`handoff.py:168`); so does an echo whose webhook is late (`Late =
  TRUE`), and a turn between the Inbox's commit and its clearing of the marker
  (`customer_inbox.py:661`, `whatsapp_webhook.py:1300`).
* When a pause runs out while the marker of a newer reply is pending, the turn
  that notices takes the newer reply for an old one and hands over without a
  deadline (`handoff.py:137`, against `handoff.py:82`, "Every newer Business App
  reply resets that window").
* A portal takeover of a conversation that a reply paused inherits that reply's
  ten-minute deadline (`customer_inbox.py:573`, against `handoff.py:86`).

Events and runs
* The claim of an event is taken in Redis for a day before its run exists. A
  worker that dies in between, or a Redis error (taken for a refusal,
  `execution_claims.py:42`), makes the next attempt skip the workflow as
  "already_accepted" and mark the event "dispatched".
* An outbox row whose dispatchers died or were overtaken in the last attempt
  stays "processing" or "pending", and no query returns it.
* An event awaited inside a repeat node is asked for again after it came:
  `_mark_event_received` (`runtime.py:805`) descends into foreach nodes only.
* A loop that is resumed and meets a database error before its next iteration
  writes a checkpoint is retried from its first iteration (`runtime.py:401`
  stores the loop without where it was): nodes of iterations that were done run
  again. `NodesRunOnce` counts such a loop anew.
* A run whose thread dies stays "running" (`runtime.py:1009`); a workflow edited
  while a run waits makes the resumption fail in every cycle, and a run that
  waits for a retry blocks later slots (`scheduler.py:459`); an approval after
  an edit leaves the run "waiting_approval"
  (`customer_employee_builder.py:7430`); storing a wait drops `retry_attempts`
  (`runtime.py:690`, against PROJECT_CHECKPOINT.md:260); an event delivered
  again resumes a second `await_event` of the same name
  (`event_dispatch.py:127`); deduplication looks at the recent runs only.

Billing
* A plan request replaces an active subscription; two captured charges whose
  webhooks read the same period end grant one month (`billing_webhooks.py:403`);
  any unique violation is answered as a duplicate, also that of the checkout
  row: the exception in `NoPaymentDropped`; "captured" is not final
  (`renewal.py:159`); the expiry noticed by the limits can overwrite a renewal
  (`service_limits.py:37`).

Actions
* Two turns that load one request execute it twice, once the first has been
  settled: `NoBlindRetry` allows for one execution per session that loaded it
  before.
* A late callback writes back the details it loaded, and a late answer
  overwrites the receipt; a status set by hand may overbook the slot.

Channels
* `disconnect`'s 502 "was not disconnected" comes also when the route is gone;
  connecting again with another key leaves the old route (managed connect);
  `complete_connect` that loses the reply of the registry loses the fresh key; a
  disconnection that read `enabled = False` leaves a channel enabled without a
  route. "Must remain disabled until ..." (ops/n8n/README.md:137) is broken by a
  settings change that overlaps a connection.
* "Live managed channel routing cannot be changed in place"
  (`admin_channels.py:582`) holds of managed connect; the PUT of the same module
  (748-760, 772-783) writes another key or state into a live channel, which then
  has no route. `LiveHasRoute` excepts it ("rerouted").
* `attempt_delivery` of a managed channel decides on a row that its callers have
  loaded (`internal_channel_gateway.py:180`, `customer_inbox.py:850`,
  `admin_operations.py:519`) and `_locked` does not refresh
  (`managed_delivery.py:115`): two attempts that overlap both call the workflow
  ("one durable managed-channel send without blind network retries", line 128).
  `StatusIsTrue` leaves those messages out (`outdated`).
* `_existing_reply` takes the next row of the conversation for the answer. If
  the message was stored apart from its answer (a tool that committed, a message
  stored for a human, a second post), that row may be the answer to another
  message.
* Posts of a message that overlap or repeat run the turn twice
  (ops/n8n/README.md:139, "provider retries do not create duplicate customer
  turns"); the second delivery then conflicts and answers 500, while the
  customer gets one answer.
* There is no look at a takeover after the answer was generated; two first
  messages of a contact create two conversations; a service limit rolls back
  answer and usage; a delivery that was confirmed may be set back to "unknown";
  a message stored for a human before the return to AI is never answered by the
  AI.

Builder and provisioning
* Applying a revision binds a connected system by the way and goes live untested
  (against the comment at `customer_employee_builder.py:1199`); after an edit of
  a system only one routine has to be previewed again
  (`customer_management.py:331`); building a pending revision does not rebase
  it, although the 409 message (near line 6155) says so; the callback of an
  OAuth authorization changes a live build (line 4059).
* A requirement without `after_input_status` (`employee_context`) may be
  answered again without a new `compiled_at`
  (`customer_employee_builder.py:4891`, 4965): applying a revision that was
  staged before passes the check ("The live employee changed after this revision
  was staged", line 6139) and overwrites the later answer (6168).
  `ReplacesItsBase` excepts it (`Reanswered`).
* The free test, unlocked refinements and changes of connected systems write
  back stale settings: a live employee can be left without its stored build.
* Answers survive in `setup_answers` across staged revisions (line 2697), so a
  build whose question was answered to an earlier build goes live with a
  requirement that was never built (`self_service_policy.py:523`).
* A connected requirement with a schedule of its own launches without a workflow
  (`self_service_policy.py:905`, against
  docs/employee-capability-provisioning.md:99).
* The journey fails over a found contract that needs an API key or an account:
  `_self_service_builder_journey` passes `oauth_interactive` to a function
  without that parameter (line 1886, `_builder_action` at 1563). It ends without
  a next step for a credential the compiler asks for (1817), a booking answer
  that cannot be read (accepted once, never asked again), a system that is valid
  again (the readiness changes its own copy only), and a paused routine.
* Rebinding changes the build and not the action that was kept
  (`self_service_policy.py:864`); a "never" of the owner does not reach an
  action whose requirement went back to "connection_required", nor one an
  operator edited; resuming a routine sets its trigger "ready" whatever it was;
  paused routines and disabled actions come back enabled with the next applied
  revision; `_ground_execution_graph` visits nested foreach nodes but not repeat
  nodes; discovery with operations that do not fit leaves a connected system
  nobody uses.

## 6 Assumptions and what is left out

* An HTTP error answer from Meta means that it did not accept the message, as
  `send_text` assumes; a refusal of a workflow means the same, and it confirms a
  delivery only after a real one; a timeout means nothing.
* A repeated post of a message has the same content.
* The provider ids of two messages may collide ("conflict"), as the code
  expects. `message_missing` is unreachable (foreign key) and left out.
* A commit inside `with db.begin_nested()` (`executor.py:495`) ends the
  session's transaction with an exception in the SQLAlchemy the repository pins;
  the model has it as a session that dies after its commit.
* `compiled_at` has a resolution of a second; no two builds are made in one.
* In `AutomationRuns` the data of a run - how often a loop runs, whether a
  "when" holds - is part of the graph, and a workflow is one graph step.
* Tap tells one story per charge, in any order and any number of posts.
* The coexistence hold of an unverified channel, operator assignment and
  permissions are left out of `WhatsAppHandoff`; `api/admin_handoff.py` has no
  registered router and is not modelled.
* Not modelled: Paddle; webhook-triggered routines and the operator's edits of
  workflows (`admin_automation.py:231`); requirements that are channels (and the
  "adapter_required" that only they can have); the contents of events and their
  schemas; schedule arithmetic and agent state, which are pure; integrations
  beyond their validity; knowledge, customer operations, identity and rate
  limits, the website widget and voice, administration, scripts and the front
  end, which keep single rows or read.
* One contact, message, channel, subscription or employee per model: they share
  no state but the queue.
* Formatting, logging, audit records and metrics are left out everywhere.

## 7 Plan

1. An abstract specification of the outbox ("at most one run, and exactly one
   when nothing goes wrong") that `AutomationOutbox` implements, and
   `OneShotSend` implemented by the deliveries of `GatewayTurn`.
2. Pure algorithms: next due slot, agent state limits, billing cycles, windows
   of the rate limit.
3. The composition of `WhatsAppTurn` with `WhatsAppDelivery`, and of
   `AutomationRuns` with `AutomationOutbox`.
4. The two hazards without a property: the callback of an authorization that
   comes when the employee is live, and endpoints that write back settings
   which another endpoint changed.
