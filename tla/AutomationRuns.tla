---------------------------- MODULE AutomationRuns ----------------------------
(***************************************************************************)
(* The runs of one automation workflow (modules/automation: runtime.py,    *)
(* scheduler.py, event_dispatch.py; scripts/automation_scheduler.py; the   *)
(* routine endpoints of api/customer_employee_builder.py).                 *)
(*                                                                         *)
(* A workflow is one graph step: a sequence of nodes.  A thread executes a *)
(* run node by node; before each node it commits what the nodes before it  *)
(* did, and a retry checkpoint for this one.  A node may store the run:    *)
(* until a time, an event or the owner's approval.  A failed run waits for *)
(* an automatic retry, if its node may be repeated, or stays failed.  Who  *)
(* resumes a run flushes "running" without committing: until the next      *)
(* checkpoint the advisory lock and the row lock keep others out.          *)
(*                                                                         *)
(* The loops of the graph nest: ExecutionGraph.  Waits are due, and events *)
(* that match come, any time.                                              *)
(***************************************************************************)
EXTENDS Integers, ExecutionGraph

CONSTANTS Threads,
          Graphs,      \* graphs the compiler may have written
          MaxRuns,     \* bound: rows of automation_runs
          MaxAttempts, \* AUTO_SAFE_RETRY_MAX_ATTEMPTS
          Recent,      \* MAX_RECENT_RUNS_FOR_DEDUP
          MaxByHand,   \* bound: runs started by hand
          MaxUpsets    \* bound: deaths, pauses, edits, new slots
                       \* and retries by hand

ASSUME RunsAssumption ==
    /\ {MaxRuns, MaxAttempts, Recent, MaxByHand, MaxUpsets} \subseteq Nat
    /\ MaxRuns > 0 /\ Recent > 0
    /\ Graphs \subseteq StoredGraphs

Runs == 1..MaxRuns

VARIABLES graph,      \* the nodes of the workflow
          scheduled,  \* its trigger: a schedule, or "manual"
          enabled,    \* it is not paused
          build,      \* the steps were edited so many times
          run,        \* the rows
          request,    \* approval requests: by run and scope
          thread,     \* scheduler threads and endpoint calls
          slot,       \* the latest due slot
          took,       \* history: how often each node took effect (of a loop
                      \* that LoopFails: since it is begun anew)
          heard,      \* history: waits whose event came (likewise)
          orphaned,   \* history: runs whose thread died
          upsets      \* how many of them so far

config  == <<graph, scheduled, enabled, build, slot>>
history == <<took, heard, orphaned, upsets>>
vars == <<config, run, request, thread, history>>

\* The nodes that are no loops, by scope.
Scopes == DOMAIN request[1]
Leaf(s) == NodeAt(graph, Path(s))

Upset == upsets < MaxUpsets /\ upsets' = upsets + 1

Waiting == {"waiting_time", "waiting_event", "waiting_approval"}

NoRetry == [at |-> <<>>, safe |-> FALSE]

\* wait, retry.at: the checkpoints; attempts: retry_attempts of output_data;
\* build: the workflow_fingerprint of the checkpoint.
Row == [status |-> "none", slot |-> 0, wait |-> <<>>, retry |-> NoRetry,
        attempts |-> 0, build |-> 0]

Idle == [doing |-> "nothing"]

Init ==
    /\ graph \in {NormalGraph(g) : g \in Graphs}
    /\ graph # <<>> /\ HasNoContractErrors(graph)
    /\ scheduled \in BOOLEAN
    /\ enabled = TRUE /\ build = 0 /\ slot = 1
    /\ run = [r \in Runs |-> Row]
    /\ LET scopes == Leaves(graph)
       IN /\ request = [r \in Runs |-> [s \in scopes |-> "none"]]
          /\ took = [r \in Runs |-> [s \in scopes |-> 0]]
    /\ thread = [t \in Threads |-> Idle]
    /\ heard = {}
    /\ orphaned = {}
    /\ upsets = 0

-----------------------------------------------------------------------------
(* Threads.                                                                *)

Become(t, new) == thread' = [thread EXCEPT ![t] = new]

\* A thread that executes r from the start or from a checkpoint: resume is
\* the checkpoint until it is there, approved the scope the owner
\* approved, pending the nodes whose database work is not committed; entered:
\* nothing of the resume is.
Executing(r, checkpoint, entered, approved) ==
    [doing |-> "node", run |-> r, entered |-> entered,
     at |-> IF checkpoint = <<>> THEN Start
            ELSE <<Level(checkpoint[1].node, checkpoint[1].node_outputs)>>,
     resume |-> checkpoint, approved |-> approved, pending |-> {}]

Works(t) ==
    thread[t].doing \in {"node", "work", "fail", "finish", "answer"}
Current(t) == thread[t].run

\* The row and advisory locks of a resume that has not committed yet.
Locked(r) ==
    \E t \in Threads : /\ thread[t].doing \in {"node", "work"}
                       /\ Current(t) = r /\ thread[t].entered

Doing(t) == NodeAt(graph, thread[t].at)
Here(t)  == Scope(thread[t].at)

\* The node has an output, and the run goes on from there.
HasOutput(t, worked) ==
    Become(t, [thread[t] EXCEPT
                 !.doing = "node", !.resume = <<>>,
                 !.at = Onward(graph, thread[t].at),
                 !.pending = @ \cup (IF worked THEN {Here(t)} ELSE {})])

Fail(t) == Become(t, [thread[t] EXCEPT !.doing = "fail"])

\* What a commit of t makes durable.
Committed(t) ==
    [took EXCEPT ![Current(t)] =
        [s \in Scopes |-> IF s \in thread[t].pending THEN @[s] + 1 ELSE @[s]]]

-----------------------------------------------------------------------------
(* New runs.                                                               *)

Existing == {r \in Runs : run[r].status # "none"}

\* _slot_already_recorded: the latest rows only.
SlotRecorded(s) ==
    \E r \in Existing : r > Cardinality(Existing) - Recent /\ run[r].slot = s

\* run_due_workflow, up to the first commit, holds the advisory lock of the
\* workflow.
ScheduleLocked ==
    \E t \in Threads : thread[t].doing = "create" /\ thread[t].slot # 0

\* Mutant: no lock.
LookAtSlotUnlocked(t) ==
    /\ thread[t] = Idle
    /\ scheduled /\ enabled
    /\ \A r \in Runs : run[r].status # "waiting_retry"
    /\ ~SlotRecorded(slot)
    /\ Become(t, [doing |-> "create", slot |-> slot])
    /\ UNCHANGED <<config, run, request, history>>

\* A slot is skipped while a run of the workflow waits for its retry.
LookAtSlot(t) ==
    /\ thread[t] = Idle
    /\ scheduled /\ enabled
    /\ ~ScheduleLocked
    /\ \A r \in Runs : run[r].status # "waiting_retry"
    /\ ~SlotRecorded(slot)
    /\ Become(t, [doing |-> "create", slot |-> slot])
    /\ UNCHANGED <<config, run, request, history>>

\* customer_employee_run_graph, run_workflow: workflows with trigger "manual".
RunByHand(t) ==
    /\ thread[t] = Idle
    /\ ~scheduled /\ enabled
    /\ Cardinality(Existing) < MaxByHand
    /\ Become(t, [doing |-> "create", slot |-> 0])
    /\ UNCHANGED <<config, run, request, history>>

\* execute: the usage and the run are committed before any node starts; the
\* plan's limit may refuse both.
Create(t) ==
    /\ thread[t].doing = "create"
    /\ \/ \E r \in Runs :
            /\ r = Cardinality(Existing) + 1
            /\ run' = [run EXCEPT ![r] = [Row EXCEPT !.status = "running",
                                            !.slot = thread[t].slot,
                                            !.build = build]]
            /\ Become(t, Executing(r, <<>>, FALSE, <<>>))
       \/ Become(t, Idle) /\ UNCHANGED run
    /\ UNCHANGED <<config, request, history>>

-----------------------------------------------------------------------------
(* Resuming.                                                               *)

\* The scheduler's and the dispatcher's queries take no lock.
Look(t, r) ==
    /\ thread[t] = Idle
    /\ Become(t, [doing |-> "look", run |-> r, saw |-> run[r].status])
    /\ UNCHANGED <<config, run, request, history>>

\* run_due_waits_once.
LookAtWaits(t, r) == run[r].status = "waiting_time" /\ Look(t, r)

\* _resume_waiting_event_runs, for an event a run may wait for.
LookAtEvents(t, r) == run[r].status = "waiting_event" /\ Look(t, r)

\* run_due_retries_once.
LookAtRetries(t, r) == run[r].status = "waiting_retry" /\ Look(t, r)

\* Under the advisory lock of the run the row is read again.
StillDue(t) ==
    LET r == Current(t)
    IN ~Locked(r) /\ run[r].status = thread[t].saw /\ enabled

\* Locked, gone on, paused, or of another build: for the next cycle.
GiveUp(t) ==
    /\ thread[t].doing = "look"
    /\ ~StillDue(t) \/ run[Current(t)].build # build
    /\ Become(t, Idle)
    /\ UNCHANGED <<config, run, request, history>>

\* run_due_waiting_run, resume_wait: flushes "running".
ResumeWait(t) ==
    /\ thread[t].doing = "look" /\ thread[t].saw = "waiting_time"
    /\ StillDue(t) /\ run[Current(t)].build = build
    /\ LET r == Current(t)
       IN Become(t, Executing(r, run[r].wait, TRUE, <<>>))
    /\ UNCHANGED <<config, run, request, history>>

\* resume_event: the same, with the event in the checkpoint.
ResumeEvent(t) ==
    /\ thread[t].doing = "look" /\ thread[t].saw = "waiting_event"
    /\ StillDue(t) /\ run[Current(t)].build = build
    /\ LET r == Current(t)
       IN Become(t, Executing(r, MarkEventReceived(run[r].wait), TRUE, <<>>))
    /\ UNCHANGED <<config, run, request, history>>

\* retry_failed commits "running" and the attempt at once.
retry_failed(t, r) ==
    /\ run' = [run EXCEPT ![r].status = "running", ![r].wait = <<>>,
                          ![r].attempts = @ + 1]
    /\ Become(t, Executing(r, run[r].retry.at, FALSE, <<>>))

\* run_due_retry_run.
Retry(t) ==
    /\ thread[t].doing = "look" /\ thread[t].saw = "waiting_retry"
    /\ StillDue(t) /\ run[Current(t)].build = build
    /\ retry_failed(t, Current(t))
    /\ UNCHANGED <<config, request, history>>

\* The owner retries the latest run, if it failed at a repeatable node.
RetryByHand(t, r) ==
    /\ thread[t] = Idle
    /\ r = Cardinality(Existing) /\ run[r].status = "failed"
    /\ run[r].retry.safe /\ enabled /\ run[r].build = build
    /\ retry_failed(t, r)
    /\ Upset
    /\ UNCHANGED <<config, request, took, heard, orphaned>>

\* approve: request and run are locked FOR UPDATE; resume_approval flushes
\* both.  A build that changed fails the request and leaves the run as it is.
Approve(t, r, s) ==
    /\ thread[t] = Idle
    /\ request[r][s] = "awaiting_confirmation" /\ ~Locked(r)
    /\ run[r].status = "waiting_approval" /\ enabled
    /\ IF run[r].build = build
       THEN /\ Become(t, Executing(r, run[r].wait, TRUE, s))
            /\ UNCHANGED request
       ELSE /\ request' =
                 [request EXCEPT ![r][s] = "approval_execution_failed"]
            /\ UNCHANGED thread
    /\ UNCHANGED <<config, run, history>>

Reject(r, s) ==
    /\ request[r][s] = "awaiting_confirmation" /\ ~Locked(r)
    /\ request' = [request EXCEPT ![r][s] = "rejected"]
    /\ run' = IF run[r].status = "waiting_approval"
              THEN [run EXCEPT ![r].status = "rejected"] ELSE run
    /\ UNCHANGED <<config, thread, history>>

-----------------------------------------------------------------------------
(* Executing the nodes.                                                    *)

\* Mutant: only what the owner approves is not repeatable.
RetrySafeLoose(node) == ~NeedsApproval(node)

\* _graph_retry_safety, for the parameters the node starts with.
RetrySafe(node) ==
    CASE node.type = "media"   -> FALSE
      [] node.type = "browser" -> ~node.interactive
      [] node.type = "action"  -> node.inside
      [] OTHER                 -> TRUE

\* The wait whose event this resume brings.
EventOf(t) ==
    IF /\ thread[t].entered
       /\ \E k \in 1..Len(thread[t].resume) :
              thread[t].resume[k].mark = "received"
    THEN {<<Current(t), Scope(thread[t].resume)>>} ELSE {}

\* _persist_graph_retry_checkpoint, before and after the parameters of a node
\* are resolved: what the nodes before did is committed, and where a retry
\* starts.
Persist(t) ==
    /\ thread[t].doing = "node" /\ thread[t].at # <<>>
    /\ LET r == Current(t)
           s == thread[t].approved
       IN /\ run' = [run EXCEPT
                       ![r].status = "running",
                       ![r].retry = [at |-> Checkpoint(thread[t].at, "none"),
                                     safe |-> RetrySafe(Doing(t))]]
          /\ request' = IF thread[t].entered /\ s # <<>>
                        THEN [request EXCEPT ![r][s] = "approved"]
                        ELSE request
    /\ took' = Committed(t)
    /\ heard' = heard \cup EventOf(t)
    /\ Become(t, [thread[t] EXCEPT !.doing = "work", !.entered = FALSE,
                                   !.pending = {}])
    /\ UNCHANGED <<config, orphaned, upsets>>

\* A node without what it depends on fails the run: no node is.
HasInputs(t) ==
    Doing(t).depends_on \subseteq Inner(thread[t].at).node_outputs
Working(t) == thread[t].doing = "work" /\ HasInputs(t) /\ Doing(t).when

Skip(t) ==
    /\ thread[t].doing = "work" /\ HasInputs(t) /\ ~Doing(t).when
    /\ HasOutput(t, FALSE)
    /\ UNCHANGED <<config, run, request, history>>

\* The endpoint that approved still has to write its request.
EndsIn(t, outcome) ==
    Become(t, IF thread[t].approved = <<>> THEN Idle
              ELSE [doing |-> "answer", run |-> Current(t),
                    scope |-> thread[t].approved, outcome |-> outcome])

\* Mutant: an approval is taken for any node of its run.
MayActAny(t) == NeedsApproval(Doing(t)) => thread[t].approved # <<>>

\* _approval_checkpoint_matches.
MayAct(t) == NeedsApproval(Doing(t)) => thread[t].approved = Here(t)

\* foreach and repeat: into the first iteration, or the one of the checkpoint;
\* a checkpoint that does not fit fails the run.
EnterLoop(t) ==
    /\ Working(t) /\ Doing(t).type \in Loops
    /\ LET node == Doing(t)
           at == thread[t].at
           resume == thread[t].resume
       IN IF Resumes(graph, at, resume) /\ ~FitsLoop(resume[Len(at)], node)
          THEN Fail(t)
          ELSE Become(t, [thread[t] EXCEPT
                 !.doing = "node",
                 !.resume = ChildResume(graph, at, resume),
                 !.at = IF node.type = "foreach"
                        THEN EnterForeach(graph, at, resume)
                        ELSE EnterRepeat(graph, at, resume)])
    /\ UNCHANGED <<config, run, request, history>>

\* http_get_json, web_fetch, state_read and the nodes that only compute.
Read(t) ==
    /\ Working(t) /\ OnlyReads(Doing(t))
    /\ HasOutput(t, FALSE)
    /\ UNCHANGED <<config, run, request, history>>

\* Work in the database is flushed only.
Write(t) ==
    /\ Working(t) /\ IsDatabaseWork(Doing(t)) /\ MayAct(t)
    /\ HasOutput(t, TRUE)
    /\ UNCHANGED <<config, run, request, history>>

\* A call that answers, one that fails after its effect, and one before it.
CallOutside(t) ==
    /\ Working(t) /\ IsOutsideWork(Doing(t)) /\ MayAct(t)
    /\ \/ /\ took' = [took EXCEPT ![Current(t)][Here(t)] = @ + 1]
          /\ HasOutput(t, FALSE) \/ Fail(t)
       \/ Fail(t) /\ UNCHANGED took
    /\ UNCHANGED <<config, run, request, heard, orphaned, upsets>>

\* A node may fail before it does anything; a pause has nothing to fail.
NodeFails(t) ==
    /\ Working(t) /\ Doing(t).type \notin Pauses
    /\ Doing(t).type \in Loops => thread[t].resume = <<>>
    /\ Fail(t)
    /\ UNCHANGED <<config, run, request, history>>

\* The mark of the pause in what the run resumes from.
Mark(t) == IF thread[t].resume = <<>> THEN "none"
           ELSE thread[t].resume[Len(thread[t].at)].mark

\* wait: the deadline this resume was for, or one that has passed already.
WaitIsOver(t) ==
    /\ Working(t) /\ Doing(t).type = "wait"
    /\ HasOutput(t, FALSE)
    /\ UNCHANGED <<config, run, request, history>>

\* await_event: the event is in the node's own checkpoint.
TakeEvent(t) ==
    /\ Working(t) /\ Doing(t).type = "await_event" /\ Mark(t) = "received"
    /\ HasOutput(t, FALSE)
    /\ UNCHANGED <<config, run, request, history>>

\* A checkpoint is a new output_data: without the retry checkpoint and its
\* count.
Store(t, status, mark) ==
    run' = [run EXCEPT ![Current(t)] =
              [@ EXCEPT !.status = status,
                        !.wait = Checkpoint(thread[t].at, mark),
                        !.retry = NoRetry, !.attempts = 0, !.build = build]]

\* _store_wait_checkpoint: the deadline is ahead.
StoreWait(t) ==
    /\ Working(t) /\ Doing(t).type = "wait" /\ Mark(t) # "waited"
    /\ Store(t, "waiting_time", "waited")
    /\ EndsIn(t, "confirmed")
    /\ UNCHANGED <<config, request, history>>

\* _store_event_checkpoint.
StoreEventWait(t) ==
    /\ Working(t) /\ Doing(t).type = "await_event" /\ Mark(t) # "received"
    /\ Store(t, "waiting_event", "none")
    /\ EndsIn(t, "confirmed")
    /\ UNCHANGED <<config, request, history>>

\* _store_approval_checkpoint.
StoreApproval(t) ==
    /\ Working(t) /\ ~MayAct(t)
    /\ Store(t, "waiting_approval", "none")
    /\ request' = [request EXCEPT ![Current(t)][Here(t)] =
                     "awaiting_confirmation"]
    /\ EndsIn(t, "confirmed")
    /\ UNCHANGED <<config, history>>

-----------------------------------------------------------------------------
(* The end of a run.                                                       *)

\* The graph step has a result.
StepEnds(t) ==
    /\ thread[t].doing = "node" /\ thread[t].at = <<>>
    /\ run' = [run EXCEPT ![Current(t)].retry = NoRetry,
                          ![Current(t)].wait = <<>>]
    /\ took' = Committed(t)
    /\ Become(t, [thread[t] EXCEPT !.doing = "finish", !.pending = {}])
    /\ UNCHANGED <<config, request, heard, orphaned, upsets>>

Succeed(t) ==
    /\ thread[t].doing = "finish"
    /\ run' = [run EXCEPT ![Current(t)].status = "success"]
    /\ EndsIn(t, "confirmed")
    /\ UNCHANGED <<config, request, history>>

\* _automatic_retry_plan.
RetryPlanned(q) ==
    q.retry.safe /\ scheduled /\ enabled /\ q.attempts < MaxAttempts

\* Mutant: the failure is rolled back with the rest.
StoreNothing(t) ==
    /\ thread[t].doing = "fail"
    /\ EndsIn(t, "approval_execution_failed")
    /\ UNCHANGED <<config, run, request, history>>

\* _store_failed_run: roll back, then decide.
StoreFailed(t) ==
    /\ thread[t].doing = "fail"
    /\ LET r == Current(t) IN
       run' = [run EXCEPT ![r].status =
                 IF RetryPlanned(run[r]) THEN "waiting_retry" ELSE "failed"]
    /\ EndsIn(t, "approval_execution_failed")
    /\ UNCHANGED <<config, request, history>>

\* The approval endpoint's last commit.
Answer(t) ==
    /\ thread[t].doing = "answer"
    /\ request' = [request EXCEPT ![Current(t)][thread[t].scope] =
                     thread[t].outcome]
    /\ Become(t, Idle)
    /\ UNCHANGED <<config, run, history>>

\* The process dies: what is not committed is undone, the rest stays.
Crash(t) ==
    /\ thread[t] # Idle
    /\ Upset
    /\ orphaned' = IF Works(t) THEN orphaned \cup {Current(t)} ELSE orphaned
    /\ Become(t, Idle)
    /\ UNCHANGED <<config, run, request, took, heard>>

-----------------------------------------------------------------------------
(* Time, and changes of the workflow.                                      *)

NextSlot ==
    /\ scheduled /\ slot' = slot + 1
    /\ Upset
    /\ UNCHANGED <<graph, scheduled, enabled, build, run, request,
                   thread, took, heard, orphaned>>

\* customer_employee_set_routine_state, and update_workflow of the
\* administration: pause, continue, or write new steps.
Change ==
    /\ Upset
    /\ \/ enabled' = ~enabled /\ UNCHANGED build
       \/ build' = build + 1 /\ UNCHANGED enabled
    /\ UNCHANGED <<graph, scheduled, slot, run, request, thread, took,
                   heard, orphaned>>

\* The database fails as a loop goes on from a checkpoint.  What a retry
\* starts from is the loop itself, at its first iteration: what its nodes did
\* and heard in this run counts no more.
LoopFails(t) ==
    LET before == {s \in Scopes : IsBefore(s, Scope(thread[t].at))}
    IN /\ Working(t) /\ Doing(t).type \in Loops /\ thread[t].resume # <<>>
       /\ Upset
       /\ Fail(t)
       /\ took' = [took EXCEPT ![Current(t)] =
                     [s \in Scopes |-> IF s \in before THEN @[s] ELSE 0]]
       /\ heard' = {h \in heard : h[1] = Current(t) => h[2] \in before}
       /\ UNCHANGED <<config, run, request, orphaned>>

ThreadStep(t) ==
    \/ Create(t)
    \/ GiveUp(t) \/ ResumeWait(t) \/ ResumeEvent(t) \/ Retry(t)
    \/ Persist(t) \/ Skip(t) \/ EnterLoop(t)
    \/ Read(t) \/ Write(t) \/ CallOutside(t) \/ NodeFails(t)
    \/ WaitIsOver(t) \/ TakeEvent(t)
    \/ StoreWait(t) \/ StoreEventWait(t) \/ StoreApproval(t)
    \/ StepEnds(t) \/ Succeed(t) \/ StoreFailed(t) \/ Answer(t)

Next ==
    \/ \E t \in Threads : \/ LookAtSlot(t) \/ RunByHand(t)
                          \/ ThreadStep(t) \/ Crash(t)
                          \/ LoopFails(t)
    \/ \E t \in Threads, r \in Runs :
           \/ LookAtWaits(t, r) \/ LookAtEvents(t, r) \/ LookAtRetries(t, r)
           \/ RetryByHand(t, r)
    \/ \E t \in Threads, r \in Runs, s \in Scopes : Approve(t, r, s)
    \/ \E r \in Runs, s \in Scopes : Reject(r, s)
    \/ NextSlot \/ Change

Spec == Init /\ [][Next]_vars

\* A thread that started goes on; the scheduler's cycle comes back to every
\* due run.
Fairness ==
    /\ \A t \in Threads : WF_vars(ThreadStep(t))
    /\ \A r \in Runs : SF_vars(\E t \in Threads :
                                 LookAtWaits(t, r) \/ LookAtRetries(t, r))

FairSpec == Spec /\ Fairness

-----------------------------------------------------------------------------
(* Properties.                                                             *)

TypeOK ==
    /\ \A r \in Runs :
         /\ run[r].status \in
              Waiting \cup {"none", "running", "waiting_retry", "success",
                            "failed", "rejected"}
         /\ run[r].slot \in 0..MaxUpsets + 1
         /\ \A c \in {run[r].wait, run[r].retry.at} :
                c # <<>> => \/ Scope(c) \in Scopes
                            \/ NodeAt(graph, c).type \in Loops
         /\ run[r].retry.safe \in BOOLEAN
         /\ run[r].attempts \in Nat /\ run[r].build \in 0..MaxUpsets
    /\ request \in [Runs -> [Scopes ->
         {"none", "awaiting_confirmation", "approved", "confirmed",
          "rejected", "approval_execution_failed"}]]
    /\ took \in [Runs -> [Scopes -> Nat]]
    /\ heard \subseteq Runs \X Scopes
    /\ \A t \in Threads : Works(t) => Current(t) \in Runs

\* The nodes with work to show: neither they nor a loop around them is skipped.
Due == {s \in Scopes :
          /\ \A k \in 1..Len(s) : NodeOn(graph, Path(s), k).when
          /\ IsDatabaseWork(Leaf(s)) \/ IsOutsideWork(Leaf(s))}

\* "Xvond can prove completed work will not replay": whatever fails, waits,
\* crashes and is resumed or retried by whom, in whatever loops, no node of a
\* run takes effect twice, none before those that come before it or without
\* the outputs it depends on, and a run that succeeded left none out.  A loop
\* that fails as it is resumed is excepted: it is begun anew (LoopFails).
NodesRunOnce ==
    /\ \A t \in Threads : thread[t].doing = "work" => HasInputs(t)
    /\ LET due == Due
       IN \A r \in Runs :
          /\ \A s \in Scopes : took[r][s] <= IF s \in due THEN 1 ELSE 0
          /\ \A s, q \in due :
                IsBefore(s, q) /\ took[r][q] = 1 => took[r][s] = 1
          /\ run[r].status = "success" => \A s \in due : took[r][s] = 1

\* An action the owner must approve happens after the approval of that very
\* node in that very iteration, never after a rejection.
ApprovedFirst ==
    \A r \in Runs, s \in Scopes :
        NeedsApproval(Leaf(s)) /\ took[r][s] > 0 =>
            request[r][s] \in {"approved", "confirmed",
                               "approval_execution_failed"}

\* A slot of the schedule starts one run, also with two schedulers and however
\* few recent rows the look goes through: the slots of the rows only grow.
OneRunPerSlot ==
    \A r, q \in Existing : run[r].slot = run[q].slot => r = q \/ ~scheduled

\* A run whose thread lives, whose time has come or whose retry is due goes on
\* until it has ended or waits for somebody, unless the workflow is paused or
\* edited.
GoesOn(r) == run[r].status \in {"running", "waiting_time", "waiting_retry"}
RunsMoveOn ==
    \A r \in Runs :
        GoesOn(r) ~> \/ ~GoesOn(r) \/ r \in orphaned
                     \/ ~enabled \/ run[r].build # build

\* The wait is in an iteration of a repeat node.
InRepeat(scope) ==
    \E k \in 1..Len(scope) - 1 :
        NodeOn(graph, Path(scope), k).type = "repeat"

\* "The event dispatcher resumes only matching waiting runs, injects the
\* received event payload into that node's output, and continues": a run does
\* not wait again where its event has come.  An event awaited in a repeat node
\* is excepted: the mark of its coming is written at the level of the loop,
\* where the node does not look for it.
EventEndsTheWait ==
    \A r \in Runs :
        run[r].status = "waiting_event" /\ ~InRepeat(Scope(run[r].wait)) =>
            <<r, Scope(run[r].wait)>> \notin heard
=============================================================================
