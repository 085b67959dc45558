--------------------------- MODULE AutomationOutbox ---------------------------
(***************************************************************************)
(* The durable event pipeline: an event is written to the outbox in the    *)
(* transaction of the business action it reports                           *)
(* (modules/automation/event_outbox.py); the scheduler worker picks it up, *)
(* marks the row "processing", starts one run of every live workflow that  *)
(* listens to it (event_dispatch.py), guarded by a claim in Redis          *)
(* (core/execution_claims.py), and records the outcome.                    *)
(*                                                                         *)
(* A dispatcher is one loop of scripts/automation_scheduler.py.  Time is   *)
(* Ripen: a pending row becomes due, a "processing" row gets older than    *)
(* STALE_PROCESSING_SECONDS, which a dead or a slow dispatcher may let     *)
(* happen.  What a run does once its row is committed is outside.          *)
(***************************************************************************)
EXTENDS Integers, FiniteSets

CONSTANTS Events, Workflows, Dispatchers,
          Steady,             \* workflows nobody disables
          NoEvent, NoWorkflow,
          MAX_EVENT_ATTEMPTS,
          MaxAccidents,       \* bound: crashes, Redis and database failures
          MaxToggles          \* bound: workflows enabled or disabled

ASSUME OutboxAssumption ==
    /\ MAX_EVENT_ATTEMPTS \in Nat \ {0}
    /\ MaxAccidents \in Nat /\ MaxToggles \in Nat
    /\ Steady \subseteq Workflows
    /\ NoEvent \notin Events /\ NoWorkflow \notin Workflows
    /\ IsFiniteSet(Dispatchers)

Statuses == {"none", "pending", "processing", "dispatched", "failed"}
Phases == {"idle", "next", "select", "lookup", "claim", "execute", "fail",
           "done"}
InDispatch == Phases \ {"idle", "next"}

VARIABLES status,   \* of the outbox row, "none" before it is enqueued
          attempts, \* attempt_count of the row
          ripe,     \* events whose row is due (pending) or stale (processing)
          claims,   \* claim keys in Redis: <<event, workflow>>
          runs,     \* run rows recorded with the event's id, per workflow
          live,  \* workflows enabled now
          pc, todo, \* per dispatcher: where it is, the ids its query returned
          ev, att,  \* the event it dispatches, its own copy of attempt_count
          left, wf, \* workflows it has not looked at, the one it handles
          accidents, toggles,
          disturbed \* history: events an accident or a stale row befell

entry  == <<status, attempts, ripe>>
call == <<pc, todo, ev, att, left, wf>>
outboxVars ==
    <<entry, claims, runs, live, call, accidents, toggles, disturbed>>

Pairs == Events \X Workflows

OutboxInit ==
    /\ status = [e \in Events |-> "none"]
    /\ attempts = [e \in Events |-> 0]
    /\ ripe = {} /\ claims = {} /\ disturbed = {}
    /\ runs = [p \in Pairs |-> 0]
    /\ live = Workflows
    /\ pc = [d \in Dispatchers |-> "idle"]
    /\ todo = [d \in Dispatchers |-> {}]
    /\ ev = [d \in Dispatchers |-> NoEvent]
    /\ att = [d \in Dispatchers |-> 0]
    /\ left = [d \in Dispatchers |-> {}]
    /\ wf = [d \in Dispatchers |-> NoWorkflow]
    /\ accidents = 0 /\ toggles = 0

\* An accident, at most MaxAccidents of them, while event e is dispatched.
AccidentTo(e) ==
    /\ accidents < MaxAccidents
    /\ accidents' = accidents + 1
    /\ disturbed' = disturbed \cup {e}

NoAccident == UNCHANGED <<accidents, disturbed>>

-----------------------------------------------------------------------------
(* The environment.                                                        *)

\* enqueue_automation_event; a second call for the same id changes nothing.
Enqueue(e) ==
    /\ status[e] = "none"
    /\ status' = [status EXCEPT ![e] = "pending"]
    /\ ripe' = ripe \cup {e}
    /\ NoAccident
    /\ UNCHANGED <<attempts, claims, runs, live, call, toggles>>

Holds(d, e) == ev[d] = e

\* The retry delay, or the 300 s after which "processing" is stale, pass.
\* Going stale under a dispatcher that still works is a disturbance.
Ripen(e) ==
    /\ status[e] \in {"pending", "processing"}
    /\ e \notin ripe
    /\ ripe' = ripe \cup {e}
    /\ disturbed' =
           disturbed \cup {x \in {e} : \E d \in Dispatchers : Holds(d, x)}
    /\ UNCHANGED <<status, attempts, claims, runs, live, call, accidents,
                   toggles>>

\* The day-long TTL of a claim runs out; no dispatch lasts that long.
ClaimExpires(e, w) ==
    /\ <<e, w>> \in claims
    /\ \A d \in Dispatchers : ~Holds(d, e)
    /\ claims' = claims \ {<<e, w>>}
    /\ NoAccident
    /\ UNCHANGED <<entry, runs, live, call, toggles>>

\* A workflow (or its employee) is disabled or enabled again.
Toggle(w) ==
    /\ w \notin Steady
    /\ toggles < MaxToggles
    /\ toggles' = toggles + 1
    /\ live' = IF w \in live THEN live \ {w} ELSE live \cup {w}
    /\ NoAccident
    /\ UNCHANGED <<entry, claims, runs, call>>

-----------------------------------------------------------------------------
(* The dispatcher: dispatch_pending_automation_events_once.                *)

\* Mutant: a row whose dispatcher died is never looked at again.
DueForgetful == {e \in ripe : status[e] = "pending"
                              /\ attempts[e] < MAX_EVENT_ATTEMPTS}

\* (Only pending and processing rows are ever in ripe.)
DueRows == {e \in ripe : attempts[e] < MAX_EVENT_ATTEMPTS}

Poll(d) ==
    /\ pc[d] = "idle"
    /\ DueRows # {}
    /\ pc' = [pc EXCEPT ![d] = "next"]
    /\ todo' = [todo EXCEPT ![d] = DueRows]
    /\ NoAccident
    /\ UNCHANGED <<entry, claims, runs, live, ev, att, left, wf, toggles>>

CycleEnds(d) ==
    /\ pc[d] = "next"
    /\ todo[d] = {}
    /\ pc' = [pc EXCEPT ![d] = "idle"]
    /\ NoAccident
    /\ UNCHANGED <<entry, claims, runs, live, todo, ev, att, left, wf,
                   toggles>>

\* dispatch_outbox_event, first transaction: the row is locked, and left
\* alone when it is dispatched or freshly taken by another dispatcher.
Busy(e) ==
    \/ status[e] = "dispatched"
    \/ status[e] = "processing" /\ e \notin ripe

Leave(d, e) ==
    /\ pc[d] = "next"
    /\ e \in todo[d]
    /\ Busy(e)
    /\ todo' = [todo EXCEPT ![d] = @ \ {e}]
    /\ NoAccident
    /\ UNCHANGED <<entry, claims, runs, live, pc, ev, att, left, wf, toggles>>

\* Otherwise it is taken, a row another dispatcher has marked "failed" in
\* the meantime included.
Begin(d, e) ==
    /\ pc[d] = "next"
    /\ e \in todo[d]
    /\ ~Busy(e)
    /\ todo' = [todo EXCEPT ![d] = @ \ {e}]
    /\ status' = [status EXCEPT ![e] = "processing"]
    /\ attempts' = [attempts EXCEPT ![e] = @ + 1]
    /\ ripe' = ripe \ {e}
    /\ pc' = [pc EXCEPT ![d] = "select"]
    /\ ev' = [ev EXCEPT ![d] = e]
    /\ att' = [att EXCEPT ![d] = attempts[e] + 1]
    /\ NoAccident
    /\ UNCHANGED <<claims, runs, live, left, wf, toggles>>

-----------------------------------------------------------------------------
(* dispatch_automation_event.                                              *)

\* The enabled workflows of this event are read once.
Select(d) ==
    /\ pc[d] = "select"
    /\ pc' = [pc EXCEPT ![d] = "lookup"]
    /\ left' = [left EXCEPT ![d] = live]
    /\ NoAccident
    /\ UNCHANGED <<entry, claims, runs, live, todo, ev, att, wf, toggles>>

\* Mutant: the recorded runs are not consulted, only the claim is.
LookUpNothing(d, w) ==
    /\ pc[d] = "lookup"
    /\ w \in left[d]
    /\ left' = [left EXCEPT ![d] = @ \ {w}]
    /\ pc' = [pc EXCEPT ![d] = "claim"] /\ wf' = [wf EXCEPT ![d] = w]
    /\ NoAccident
    /\ UNCHANGED <<entry, claims, runs, live, todo, ev, att, toggles>>

\* _recorded_event_run: a workflow with a run for this event is done.
LookUp(d, w) ==
    /\ pc[d] = "lookup"
    /\ w \in left[d]
    /\ left' = [left EXCEPT ![d] = @ \ {w}]
    /\ IF runs[<<ev[d], w>>] > 0
         THEN UNCHANGED <<pc, wf>>
         ELSE /\ pc' = [pc EXCEPT ![d] = "claim"]
              /\ wf' = [wf EXCEPT ![d] = w]
    /\ NoAccident
    /\ UNCHANGED <<entry, claims, runs, live, todo, ev, att, toggles>>

Pair(d) == <<ev[d], wf[d]>>

\* Control returns to the loop over the workflows.
NextWorkflow(d) ==
    /\ pc' = [pc EXCEPT ![d] = "lookup"]
    /\ wf' = [wf EXCEPT ![d] = NoWorkflow]

\* execution_claims.claim, SET NX: granted, or held by another dispatch.
ClaimGranted(d) ==
    /\ pc[d] = "claim"
    /\ Pair(d) \notin claims
    /\ claims' = claims \cup {Pair(d)}
    /\ pc' = [pc EXCEPT ![d] = "execute"]
    /\ NoAccident
    /\ UNCHANGED <<entry, runs, live, todo, ev, att, left, wf, toggles>>

ClaimRefused(d) ==
    /\ pc[d] = "claim"
    /\ Pair(d) \in claims
    /\ NextWorkflow(d)
    /\ NoAccident
    /\ UNCHANGED <<entry, claims, runs, live, todo, ev, att, left, toggles>>

\* In production a Redis error counts as a refusal, whether or not the key
\* was set before the reply got lost.
ClaimErrs(d) ==
    /\ pc[d] = "claim"
    /\ claims' \in {claims, claims \cup {Pair(d)}}
    /\ NextWorkflow(d)
    /\ AccidentTo(ev[d])
    /\ UNCHANGED <<entry, runs, live, todo, ev, att, left, toggles>>

\* automation_runtime.execute commits the run row; whatever its steps do,
\* the run is recorded and the loop goes on.  (A workflow disabled since
\* Select may still be seen as enabled by the session.)
RunRecorded(d) ==
    /\ pc[d] = "execute"
    /\ runs' = [runs EXCEPT ![Pair(d)] = @ + 1]
    /\ NextWorkflow(d)
    /\ NoAccident
    /\ UNCHANGED <<entry, claims, live, todo, ev, att, left, toggles>>

\* Mutant: the claim of a run that never started is kept.
RunRefusedKeepsClaim(d) ==
    /\ pc[d] = "execute"
    /\ pc' = [pc EXCEPT ![d] = "fail"]
    /\ NoAccident
    /\ UNCHANGED <<entry, claims, runs, live, todo, ev, att, left, wf,
                   toggles>>

\* It raises before the row exists (service limit reached, workflow
\* disabled): the claim is released and the dispatch fails.
RunRefused(d) ==
    /\ pc[d] = "execute"
    /\ runs[Pair(d)] = 0
    /\ claims' = claims \ {Pair(d)}
    /\ pc' = [pc EXCEPT ![d] = "fail"]
    /\ NoAccident
    /\ UNCHANGED <<entry, runs, live, todo, ev, att, left, wf, toggles>>

\* The database fails while the row is written (committed or not), or Redis
\* does while the claim is released: the dispatch fails, the claim stays.
RunWriteFails(d) ==
    /\ pc[d] = "execute"
    /\ runs' \in {runs, [runs EXCEPT ![Pair(d)] = @ + 1]}
    /\ pc' = [pc EXCEPT ![d] = "fail"]
    /\ AccidentTo(ev[d])
    /\ UNCHANGED <<entry, claims, live, todo, ev, att, left, wf, toggles>>

\* A database error anywhere else in the dispatch.
DispatchRaises(d) ==
    /\ pc[d] \in {"select", "lookup"}
    /\ pc' = [pc EXCEPT ![d] = "fail"]
    /\ AccidentTo(ev[d])
    /\ UNCHANGED <<entry, claims, runs, live, todo, ev, att, left, wf,
                   toggles>>

Returns(d) ==
    /\ pc[d] = "lookup"
    /\ left[d] = {}
    /\ pc' = [pc EXCEPT ![d] = "done"]
    /\ NoAccident
    /\ UNCHANGED <<entry, claims, runs, live, todo, ev, att, left, wf,
                   toggles>>

-----------------------------------------------------------------------------
(* dispatch_outbox_event, last transaction: the outcome is written over    *)
(* whatever the row says by then.                                          *)

\* Mutant: the dispatcher goes on with the event it has finished.
ForgetNothing(d) == UNCHANGED <<ev, att, left, wf>>

Forget(d) ==
    /\ ev' = [ev EXCEPT ![d] = NoEvent] /\ att' = [att EXCEPT ![d] = 0]
    /\ left' = [left EXCEPT ![d] = {}] /\ wf' = [wf EXCEPT ![d] = NoWorkflow]

MarkDispatched(d) ==
    /\ pc[d] = "done"
    /\ status' = [status EXCEPT ![ev[d]] = "dispatched"]
    /\ ripe' = ripe \ {ev[d]}
    /\ pc' = [pc EXCEPT ![d] = "next"]
    /\ Forget(d)
    /\ NoAccident
    /\ UNCHANGED <<attempts, claims, runs, live, todo, toggles>>

Exhausted(n) == n >= MAX_EVENT_ATTEMPTS

MarkFailed(d) ==
    /\ pc[d] = "fail"
    /\ status' = [status EXCEPT ![ev[d]] =
                      IF Exhausted(att[d]) THEN "failed" ELSE "pending"]
    /\ ripe' = ripe \ {ev[d]}
    /\ pc' = [pc EXCEPT ![d] = "next"]
    /\ Forget(d)
    /\ NoAccident
    /\ UNCHANGED <<attempts, claims, runs, live, todo, toggles>>

\* The worker is killed, or an error escapes dispatch_outbox_event: the
\* cycle is over and what it did in Redis and in the database stays.
Dies(d) ==
    /\ pc[d] # "idle"
    /\ pc' = [pc EXCEPT ![d] = "idle"]
    /\ todo' = [todo EXCEPT ![d] = {}]
    /\ Forget(d)
    /\ accidents < MaxAccidents
    /\ accidents' = accidents + 1
    /\ disturbed' = disturbed \cup ({ev[d]} \ {NoEvent})
    /\ UNCHANGED <<entry, claims, runs, live, toggles>>

-----------------------------------------------------------------------------
Step(d) ==
    \/ Poll(d) \/ CycleEnds(d) \/ \E e \in Events : Leave(d, e) \/ Begin(d, e)
    \/ Select(d) \/ \E w \in Workflows : LookUp(d, w)
    \/ ClaimGranted(d) \/ ClaimRefused(d)
    \/ RunRecorded(d)
    \/ Returns(d) \/ MarkDispatched(d) \/ MarkFailed(d)

Trouble(d) ==
    \/ RunRefused(d) \/ ClaimErrs(d) \/ RunWriteFails(d) \/ DispatchRaises(d)
    \/ Dies(d)

OutboxNext ==
    \/ \E e \in Events : Enqueue(e) \/ Ripen(e)
    \/ \E e \in Events, w \in Workflows : ClaimExpires(e, w)
    \/ \E w \in Workflows : Toggle(w)
    \/ \E d \in Dispatchers : Step(d) \/ Trouble(d)

OutboxSpec == OutboxInit /\ [][OutboxNext]_outboxVars

\* The worker loops as long as it lives, and time passes.
OutboxFairSpec ==
    /\ OutboxSpec
    /\ \A e \in Events : WF_outboxVars(Ripen(e))
    /\ \A d \in Dispatchers : WF_outboxVars(Step(d))

-----------------------------------------------------------------------------
(* Properties.                                                             *)

\* Every variable keeps its range, and a dispatcher has an event in hand
\* exactly while it dispatches one (event_outbox.py, event_dispatch.py).
OutboxTypeOK ==
    /\ status \in [Events -> Statuses] /\ attempts \in [Events -> Nat]
    /\ ripe \subseteq Events /\ disturbed \subseteq Events
    /\ claims \subseteq Pairs /\ runs \in [Pairs -> Nat]
    /\ live \subseteq Workflows
    /\ pc \in [Dispatchers -> Phases]
    /\ todo \in [Dispatchers -> SUBSET Events]
    /\ ev \in [Dispatchers -> Events \cup {NoEvent}]
    /\ att \in [Dispatchers -> Nat]
    /\ left \in [Dispatchers -> SUBSET Workflows]
    /\ wf \in [Dispatchers -> Workflows \cup {NoWorkflow}]
    /\ accidents \in Nat /\ toggles \in Nat
    /\ \A d \in Dispatchers : (pc[d] \in InDispatch) = (ev[d] # NoEvent)
    /\ \A d \in Dispatchers :
          pc[d] \in {"claim", "execute"} => wf[d] # NoWorkflow

\* An event starts at most one run of a workflow, however many dispatchers
\* take it up, crash and take it up again, and also once its claim in Redis
\* is gone (event_dispatch.py, _recorded_event_run and the claim).
OneRun == \A p \in Pairs : runs[p] <= 1

\* An event marked "dispatched" reached every workflow nobody disabled,
\* unless a crash, a Redis or database error, or a dispatch slower than
\* 300 s befell it (event_outbox.py, the last transaction).
NoSilentLoss ==
    \A e \in Events, w \in Steady :
        status[e] = "dispatched" /\ e \notin disturbed => runs[<<e, w>>] = 1

\* The attempt limit is overrun by less than the number of dispatchers, who
\* may all hold the id from a query made before the limit was reached.
AttemptsBounded ==
    \A e \in Events :
        attempts[e] <= MAX_EVENT_ATTEMPTS + Cardinality(Dispatchers) - 1

\* A row is only given up after all its attempts.
FailedIsExhausted ==
    \A e \in Events : status[e] = "failed" => attempts[e] >= MAX_EVENT_ATTEMPTS

\* An enqueued event ends up dispatched or given up; only one that met an
\* accident or a dispatch slower than 300 s may instead stay "processing"
\* or "pending" with all its attempts begun, where no query returns it.
EventSettles ==
    \A e \in Events :
        status[e] = "pending" ~>
            [](\/ status[e] \in {"dispatched", "failed"}
               \/ e \in disturbed /\ attempts[e] >= MAX_EVENT_ATTEMPTS)
=============================================================================
