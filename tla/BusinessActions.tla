--------------------------- MODULE BusinessActions ---------------------------
(***************************************************************************)
(* The business requests an employee prepares and executes for customers   *)
(* (modules/tools: executor.py, action_request.py,                         *)
(* workflow_action_request.py, generic_capability_runtime.py,              *)
(* external_reconciliation.py; core/n8n_gateway.py; the callback of        *)
(* api/internal_workflow_actions.py; the portals' endpoints).              *)
(*                                                                         *)
(* A request is one row: a status, and a JSON column "details" with the    *)
(* state of its external execution and the receipt of a native one.  A     *)
(* session - an AI turn that runs the tool - loads the row without a lock  *)
(* and writes back the columns it changed.  Before it calls another system *)
(* it commits "executing" or "cancelling"; afterwards it records the       *)
(* answer.  A call without an answer stays unresolved until a person       *)
(* reconciles it, and may still take effect later.                         *)
(*                                                                         *)
(* All requests ask for one slot of one schedule: others never conflict.   *)
(***************************************************************************)
EXTENDS Integers, FiniteSets

CONSTANTS Requests, Sessions,
          Nobody,
          Capacity,     \* of the slot
          ByPeople,     \* statuses people choose, of the Inbox's seven
          Tries,        \* attempts of the workflow gateway for one call
          MaxTurns,     \* bound: turns that begin to work on a request
          MaxDecisions, \* bound: changes made by people
          MaxCrashes    \* bound: sessions that die

ASSUME ActionsAssumption ==
    /\ Nobody \notin Sessions \cup Requests
    /\ IsFiniteSet(Requests) /\ IsFiniteSet(Sessions)
    /\ {Capacity, Tries} \subseteq Nat \ {0}
    /\ {MaxTurns, MaxDecisions, MaxCrashes} \subseteq Nat

VARIABLES policy,   \* the configured action: route, schedule, idempotency
          row,      \* the committed request rows
          events,   \* rows of the automation outbox: request and status
          lock,     \* who holds the advisory lock of the slot
          session,  \* what each session is doing
          wire,     \* calls on their way to the other system
          hooks,    \* callbacks of the workflow engine in progress
          desk,     \* a manager's status change in progress
          executed, \* history: how often each request took effect outside
          reversed, \* history: how often its cancellation did
          begun,    \* history: executions begun, "executing" was committed
          reopened, \* history: times a person made it executable again
          touched,  \* history: requests whose status a person set
          overlapped, \* history: requests two actors worked on at once
          orphaned, \* history: requests whose session died
          turns, decisions, crashes

people  == <<reopened, touched, decisions>>
outside == <<executed, reversed>>
vars == <<policy, row, events, lock, session, wire, hooks, desk, outside,
          begun, people, overlapped, orphaned, turns, crashes>>

Unresolved == {"executing", "external_failed", "cancelling"}
Executable == {"awaiting_confirmation", "new"}
ALLOWED_STATUSES == {"new", "pending_human", "in_progress", "confirmed",
                     "processing", "completed", "cancelled"}
Statuses == Unresolved \cup Executable \cup ALLOWED_STATUSES \cup {"none"}

ASSUME PeopleAssumption == ByPeople \subseteq ALLOWED_STATUSES

ACTIVE_SLOT_STATUSES == {"new", "confirmed", "processing", "in_progress",
                         "executing"}

Operations == {"execute", "cancel", "reschedule"}

\* _xvond_execution (operation, state) and _xvond_native_execution (receipt).
Blank == [operation |-> "none", state |-> "none", receipt |-> "none"]

\* The configured routes: "workflow" is a managed workflow, "native" one that
\* calls back into the program.
Policies ==
    [route : {"internal", "integration"}, scheduled : BOOLEAN,
     idempotent : {FALSE}]
    \cup [route : {"integration", "workflow", "native"}, scheduled : {FALSE},
          idempotent : {TRUE}]
    \cup [route : {"human", "workflow"}, scheduled : {FALSE},
          idempotent : {FALSE}]

Idle == [doing |-> "nothing", req |-> Nobody]

Init ==
    /\ policy \in Policies
    /\ row = [r \in Requests |-> [status |-> "none", details |-> Blank]]
    /\ events = {}
    /\ lock = Nobody
    /\ session = [s \in Sessions |-> Idle]
    /\ wire = {} /\ hooks = {}
    /\ desk = Idle
    /\ executed = [r \in Requests |-> 0] /\ reversed = executed
    /\ begun = executed /\ reopened = executed
    /\ touched = {} /\ overlapped = {} /\ orphaned = {}
    /\ turns = 0 /\ decisions = 0 /\ crashes = 0

-----------------------------------------------------------------------------
(* The session and its row.                                                *)

External == policy.route \notin {"internal", "human"}
Slotted  == policy.scheduled

Has(s, r) == session[s].req = r

Busy(r) == desk.req = r \/ \E s \in Sessions : Has(s, r)

\* A second actor begins to work on r.
Overlap(r) == overlapped' = IF Busy(r) THEN overlapped \cup {r} ELSE overlapped

\* The columns of new that differ from the loaded ones overwrite the row.
Save(r, was, new) ==
    row' = [row EXCEPT ![r] =
              [status  |-> IF new.status = was.status THEN row[r].status
                           ELSE new.status,
               details |-> IF new.details = was.details THEN row[r].details
                           ELSE new.details]]

Become(s, new) == session' = [session EXCEPT ![s] = new]
Finish(s)      == Become(s, Idle)
Unlock(s)      == lock' = IF lock = s THEN Nobody ELSE lock

\* _save_execution_state and the status that goes with it.
With(was, status, operation, state) ==
    [status  |-> status,
     details |-> [was.details EXCEPT !.operation = operation, !.state = state]]

\* _internal_slots: the rows that occupy the slot, r's own included.
Occupied == Cardinality({r \in Requests :
                            row[r].status \in ACTIVE_SLOT_STATUSES})

\* prepare, without an open request in the conversation.
Prepare(r) ==
    /\ row[r].status = "none"
    /\ Slotted => Occupied < Capacity
    /\ row' = [row EXCEPT ![r].status = "awaiting_confirmation"]
    /\ UNCHANGED <<policy, events, lock, session, wire, hooks, desk, outside,
                   begun, people, overlapped, orphaned, turns, crashes>>

\* Mutant: whatever is not settled may be executed.
MayExecuteUnsettled(q) == q.status \in Executable \cup {"external_failed"}

\* _execute_request: every other status returns before any change.
MayExecute(q) == q.status \in Executable

\* _cancel_request of both tools: what they refuse or have nothing to do for.
MayCancel(q) ==
    /\ q.status \notin {"none", "cancelled"}
    /\ CASE policy.route \in {"workflow", "native"} ->
              q.details.state \notin {"executing", "external_failed"}
         [] policy.route = "integration" ->
              \/ q.status \in Executable
              \/ q.details.state \notin {"executing", "external_failed"}
         [] OTHER -> TRUE

\* executor.execute and the tool's execute: the row is loaded, not locked.
Load(s, r, operation) ==
    /\ session[s] = Idle
    /\ turns < MaxTurns /\ turns' = turns + 1
    /\ CASE operation = "prepare" -> row[r].status = "awaiting_confirmation"
         [] operation = "execute" -> MayExecute(row[r])
         [] operation = "cancel"  -> MayCancel(row[r])
         [] operation = "reschedule" ->
              policy.route = "integration" /\ row[r].status = "confirmed"
    /\ Become(s, [doing |-> operation, req |-> r, was |-> row[r]])
    /\ Overlap(r)
    /\ UNCHANGED <<policy, row, events, lock, wire, hooks, desk, outside,
                   begun, people, orphaned, crashes>>

\* prepare again: the open request of the conversation gets new details.
PrepareAgain(s) ==
    /\ session[s].doing = "prepare"
    /\ LET was == session[s].was IN
       Save(session[s].req, was, [was EXCEPT !.details = Blank])
    /\ Finish(s)
    /\ UNCHANGED <<policy, events, lock, wire, hooks, desk, outside, begun,
                   people, overlapped, orphaned, turns, crashes>>

-----------------------------------------------------------------------------
(* Executing: the slot, then the destination.                              *)

\* Mutant: the availability found when the request was prepared is trusted.
SlotTrusted(s) ==
    /\ session[s].doing = "execute" /\ Slotted
    /\ lock = Nobody
    /\ lock' = s
    /\ Become(s, [session[s] EXCEPT !.doing = "place"])
    /\ UNCHANGED <<policy, row, events, wire, hooks, desk, outside, begun,
                   people, overlapped, orphaned, turns, crashes>>

\* pg_advisory_xact_lock, then the second look at the schedule.
TakeSlot(s) ==
    /\ session[s].doing = "execute" /\ Slotted
    /\ lock = Nobody
    /\ IF Occupied < Capacity
       THEN lock' = s /\ Become(s, [session[s] EXCEPT !.doing = "place"])
       ELSE Finish(s) /\ UNCHANGED lock
    /\ UNCHANGED <<policy, row, events, wire, hooks, desk, outside, begun,
                   people, overlapped, orphaned, turns, crashes>>

Placing(s) == session[s].doing = IF Slotted THEN "place" ELSE "execute"

\* xvond_internal: the status and the event of the outbox in one commit.
PlaceInside(s) ==
    /\ Placing(s) /\ policy.route = "internal"
    /\ LET r == session[s].req
           was == session[s].was
           new == [was EXCEPT !.status = IF policy.scheduled THEN "confirmed"
                                                             ELSE "new"]
       IN /\ Save(r, was, new)
          /\ events' = events \cup {<<r, new.status>>}
    /\ Finish(s) /\ Unlock(s)
    /\ UNCHANGED <<policy, wire, hooks, desk, outside, begun, people,
                   overlapped, orphaned, turns, crashes>>

\* human_handoff: a handoff record, and the conversation is paused.
PlaceWithHuman(s) ==
    /\ Placing(s) /\ policy.route = "human"
    /\ LET was == session[s].was IN
       Save(session[s].req, was, [was EXCEPT !.status = "pending_human"])
    /\ Finish(s)
    /\ UNCHANGED <<policy, events, lock, wire, hooks, desk, outside, begun,
                   people, overlapped, orphaned, turns, crashes>>

\* Mutant: the call is made first, its state committed with the answer.
BeginCallUnmarked(s, operation, status) ==
    LET r == session[s].req
        call == [by |-> s, req |-> r, op |-> operation]
    IN /\ begun' = IF operation = "execute" THEN [begun EXCEPT ![r] = @ + 1]
                                            ELSE begun
       /\ Become(s, [doing |-> "call", req |-> r, was |-> row[r],
                     call |-> call, try |-> 1, reply |-> "none"])
       /\ wire' = wire \cup {call}
       /\ Unlock(s) /\ UNCHANGED row

\* Commit the unresolved state - which ends the advisory lock - refresh the
\* row, and send.
BeginCall(s, operation, status) ==
    LET r == session[s].req
        was == session[s].was
        call == [by |-> s, req |-> r, op |-> operation]
    IN /\ Save(r, was, With(was, status, operation, "executing"))
       /\ begun' = IF operation = "execute" THEN [begun EXCEPT ![r] = @ + 1]
                                            ELSE begun
       /\ Become(s, [doing |-> "call", req |-> r, was |-> row'[r],
                     call |-> call, try |-> 1, reply |-> "none"])
       /\ wire' = wire \cup {call}
       /\ Unlock(s)

PlaceOutside(s) ==
    /\ Placing(s) /\ External
    /\ BeginCall(s, "execute", "executing")
    /\ UNCHANGED <<policy, events, hooks, desk, outside, people, overlapped,
                   orphaned, turns, crashes>>

\* Nothing was sent yet, or a call has cancelled it already.
CancelIsPlain(q) ==
    \/ ~External
    \/ policy.route = "integration" /\ q.status \in Executable
    \/ q.details.operation = "cancel" /\ q.details.state = "confirmed"

CancelPlainly(s) ==
    /\ session[s].doing = "cancel" /\ CancelIsPlain(session[s].was)
    /\ LET was == session[s].was IN
       Save(session[s].req, was, [was EXCEPT !.status = "cancelled"])
    /\ Finish(s)
    /\ UNCHANGED <<policy, events, lock, wire, hooks, desk, outside, begun,
                   people, overlapped, orphaned, turns, crashes>>

CancelOutside(s) ==
    /\ session[s].doing = "cancel" /\ ~CancelIsPlain(session[s].was)
    /\ BeginCall(s, "cancel", "cancelling")
    /\ UNCHANGED <<policy, events, hooks, desk, outside, people, overlapped,
                   orphaned, turns, crashes>>

\* Rescheduling commits nothing before its call.
Reschedule(s) ==
    /\ session[s].doing = "reschedule"
    /\ \/ LET was == session[s].was IN
          Save(session[s].req, was,
               With(was, "confirmed", "reschedule", "confirmed"))
       \/ UNCHANGED row
    /\ Finish(s)
    /\ UNCHANGED <<policy, events, lock, wire, hooks, desk, outside, begun,
                   people, overlapped, orphaned, turns, crashes>>

-----------------------------------------------------------------------------
(* The other system, and the workflow engine's callback.                   *)

\* The sender no longer waits.  A late call that repeats another late one of
\* the same request and operation is not kept apart from it.
Late(call) == [call EXCEPT !.by = Nobody]
GiveUp(s) ==
    /\ wire' = {IF call.by = s THEN Late(call) ELSE call : call \in wire}
    /\ hooks' = {IF h.call.by = s THEN [h EXCEPT !.call = Late(@)] ELSE h :
                    h \in hooks}

\* It takes effect; a receiver that honours the key ignores a repetition.
TakesEffect(r, operation) ==
    IF operation = "cancel"
    THEN reversed' = [reversed EXCEPT ![r] = executed[r]] /\ UNCHANGED executed
    ELSE /\ executed' = [executed EXCEPT ![r] =
                           IF policy.idempotent /\ @ > 0 THEN @ ELSE @ + 1]
         /\ UNCHANGED reversed

\* A response of the right form is a yes, any other a no.
Answer(call, reply) ==
    session' = IF call.by = Nobody THEN session
               ELSE [session EXCEPT ![call.by].reply = reply]

\* The call arrives, now or long after its sender gave up; or it is refused,
\* by the checks before it is sent too.
Arrives(call) ==
    /\ policy.route # "native"
    /\ wire' = wire \ {call}
    /\ \/ TakesEffect(call.req, call.op) /\ Answer(call, "yes")
       \/ Answer(call, "no") /\ UNCHANGED outside
    /\ UNCHANGED <<policy, row, events, lock, hooks, desk, begun, people,
                   overlapped, orphaned, turns, crashes>>

\* execute_xvond_internal: the row is loaded; a receipt for this operation
\* answers the call.
HookLoads(call) ==
    /\ policy.route = "native"
    /\ wire' = wire \ {call}
    /\ IF row[call.req].details.receipt = call.op
       THEN Answer(call, "yes") /\ UNCHANGED hooks
       ELSE /\ hooks' = hooks \cup {[call |-> call, was |-> row[call.req]]}
            /\ UNCHANGED session
    /\ UNCHANGED <<policy, row, events, lock, desk, outside, begun, people,
                   overlapped, orphaned, turns, crashes>>

\* The capability runs and the receipt is written into the details loaded
\* before; or it refuses.
HookEnds(h) ==
    /\ hooks' = hooks \ {h}
    /\ \/ /\ TakesEffect(h.call.req, h.call.op)
          /\ Save(h.call.req, h.was,
                  [h.was EXCEPT !.details.receipt = h.call.op])
          /\ Answer(h.call, "yes")
       \/ Answer(h.call, "no") /\ UNCHANGED <<outside, row>>
    /\ UNCHANGED <<policy, events, lock, wire, desk, begun, people,
                   overlapped, orphaned, turns, crashes>>

-----------------------------------------------------------------------------
(* The end of a call.                                                      *)

\* The session is in _integration_call or the gateway, which build the request
\* from the action's configuration, send it and wait.
Calling(s) == session[s].doing = "call"

\* A positive answer.
CallSucceeds(s) ==
    /\ Calling(s)
    /\ LET me == session[s] IN
       /\ me.reply = "yes"
       /\ Save(me.req, me.was,
               With(me.was, IF me.call.op = "execute" THEN "confirmed"
                                                      ELSE "cancelled",
                    me.call.op, "confirmed"))
    /\ Finish(s)
    /\ UNCHANGED <<policy, events, lock, wire, hooks, desk, outside, begun,
                   people, overlapped, orphaned, turns, crashes>>

LastTry(s) ==
    \/ policy.route = "integration"
    \/ session[s].try = Tries

\* N8NActionGateway.execute: no usable answer came, the call is repeated with
\* the same request id.
CallRepeated(s) ==
    /\ Calling(s) /\ session[s].reply # "no" /\ ~LastTry(s)
    /\ Become(s, [session[s] EXCEPT !.try = @ + 1, !.reply = "none"])
    /\ LET call == session[s].call IN
       /\ wire' = {call} \cup {IF c = call THEN Late(c) ELSE c : c \in wire}
       /\ hooks' = {IF h.call = call THEN [h EXCEPT !.call = Late(@)] ELSE h :
                       h \in hooks}
    /\ UNCHANGED <<policy, row, events, lock, desk, outside, begun, people,
                   overlapped, orphaned, turns, crashes>>

\* Mutant: the status of failed connector calls, which requests do not have.
FailsUntyped(me) == With(me.was, "failed", me.call.op, "failed")

\* A negative answer, or none: unresolved.
Fails(me) == With(me.was, "external_failed", me.call.op, "external_failed")

CallFails(s) ==
    /\ Calling(s)
    /\ session[s].reply = "no" \/ LastTry(s)
    /\ LET me == session[s] IN Save(me.req, me.was, Fails(me))
    /\ Finish(s) /\ GiveUp(s)
    /\ UNCHANGED <<policy, events, lock, desk, outside, begun, people,
                   overlapped, orphaned, turns, crashes>>

\* The process dies, or an exception ends the tool.
Crash(s) ==
    /\ session[s] # Idle
    /\ crashes < MaxCrashes
    /\ crashes' = crashes + 1
    /\ orphaned' = orphaned \cup {session[s].req}
    /\ Finish(s) /\ Unlock(s) /\ GiveUp(s)
    /\ UNCHANGED <<policy, row, events, desk, outside, begun, people,
                   overlapped, turns>>

-----------------------------------------------------------------------------
(* People.                                                                 *)

Decide(r, status) ==
    /\ decisions < MaxDecisions
    /\ decisions' = decisions + 1
    /\ touched' = touched \cup {r}
    /\ reopened' = IF status \in Executable
                   THEN [reopened EXCEPT ![r] = @ + 1] ELSE reopened

\* reconcile_external_action_request, under FOR UPDATE.
Reconcile(r) ==
    /\ row[r].status \in Unresolved
    /\ \E new \in {With(row[r], "confirmed", "execute", "confirmed"),
                   With(row[r], "cancelled", "cancel", "confirmed"),
                   With(row[r], "new", row[r].details.operation,
                        "reconciled_not_executed")} :
          /\ Decide(r, new.status)
          /\ row' = [row EXCEPT ![r] = new]
    /\ Overlap(r)
    /\ UNCHANGED <<policy, events, lock, session, wire, hooks, desk, outside,
                   begun, orphaned, turns, crashes>>

\* update_status of the Inbox: the guard looks at a row that is not locked.
DeskLoads(r) ==
    /\ desk = Idle
    /\ decisions < MaxDecisions
    /\ row[r].status \notin Unresolved \cup {"none", "awaiting_confirmation"}
    /\ desk' = [doing |-> "update", req |-> r, was |-> row[r].status]
    /\ Overlap(r)
    /\ UNCHANGED <<policy, row, events, lock, session, wire, hooks, outside,
                   begun, people, orphaned, turns, crashes>>

DeskWrites ==
    /\ desk # Idle
    /\ \E status \in ByPeople :
          /\ Decide(desk.req, status)
          /\ row' = IF status = desk.was THEN row
                    ELSE [row EXCEPT ![desk.req].status = status]
    /\ desk' = Idle
    /\ UNCHANGED <<policy, events, lock, session, wire, hooks, outside, begun,
                   overlapped, orphaned, turns, crashes>>

\* update_request_status of the administration: no guard.
AdminSets(r) ==
    /\ row[r].status # "none"
    /\ \E status \in ByPeople \cup {"awaiting_confirmation"} :
          /\ Decide(r, status)
          /\ row' = [row EXCEPT ![r].status = status]
    /\ Overlap(r)
    /\ UNCHANGED <<policy, events, lock, session, wire, hooks, desk, outside,
                   begun, orphaned, turns, crashes>>

SessionStep(s) ==
    \/ PrepareAgain(s) \/ TakeSlot(s)
    \/ PlaceInside(s) \/ PlaceWithHuman(s) \/ PlaceOutside(s)
    \/ CancelPlainly(s) \/ CancelOutside(s) \/ Reschedule(s)
    \/ CallSucceeds(s) \/ CallRepeated(s) \/ CallFails(s)

Next ==
    \/ \E r \in Requests : \/ Prepare(r) \/ Reconcile(r)
                           \/ DeskLoads(r) \/ AdminSets(r)
    \/ \E s \in Sessions, r \in Requests :
          \E operation \in Operations \cup {"prepare"} : Load(s, r, operation)
    \/ \E s \in Sessions : SessionStep(s) \/ Crash(s)
    \/ \E call \in wire : Arrives(call) \/ HookLoads(call)
    \/ \E h \in hooks : HookEnds(h)
    \/ DeskWrites

Spec == Init /\ [][Next]_vars

-----------------------------------------------------------------------------
(* Properties.                                                             *)

TypeOK ==
    /\ row \in [Requests ->
         [status : Statuses,
          details : [operation : Operations \cup {"none"},
                     state : {"none", "executing", "external_failed",
                              "confirmed", "reconciled_not_executed"},
                     receipt : {"none", "execute", "cancel"}]]]
    /\ events \subseteq Requests \X {"confirmed", "new"}
    /\ lock \in Sessions \cup {Nobody}
    /\ \A s \in Sessions : session[s].req \in Requests \cup {Nobody}
    /\ \A call \in wire : call.by \in Sessions \cup {Nobody}
    /\ {executed, reversed, begun, reopened} \subseteq [Requests -> Nat]
    /\ touched \cup overlapped \cup orphaned \subseteq Requests

\* Only one actor at a time worked on r, and nobody set its status by hand.
Regular(r) == r \notin overlapped \cup touched

\* A repeated call counts twice: its first attempt may arrive after all the
\* others, even after the cancellation.
RepeatsCount == policy.route = "workflow" /\ ~policy.idempotent

\* What the row of a request says when nobody works on it is what happened:
\* confirmed, it took effect (or is announced) and was not cancelled since;
\* cancelled, nothing is left of it; awaiting confirmation, nothing happened;
\* in progress, the session that worked on it died.
StatusIsTrue ==
    \A r \in Requests :
        Regular(r) /\ ~Busy(r) =>
            /\ row[r].status = "confirmed" =>
                 IF External THEN executed[r] > reversed[r]
                 ELSE <<r, "confirmed">> \in events
            /\ row[r].status = "cancelled" =>
                 executed[r] = reversed[r] \/ RepeatsCount
            /\ row[r].status \in Executable => executed[r] = 0
            /\ row[r].status \in {"executing", "cancelling"}
                 => r \in orphaned

\* "Unknown external side effects ... must be reconciled, never retried
\* blindly": once begun, an execution is begun again only after a person made
\* the request executable, or by a session that loaded it before.
NoBlindRetry ==
    \A r \in Requests :
        begun[r] <= (1 + reopened[r])
                    * (IF r \in overlapped THEN Cardinality(Sessions) ELSE 1)

\* Executions compete for the slot and never overbook it; only a status set
\* by a person or a request executed twice at once can.
NoOverbooking ==
    Slotted /\ (\A r \in Requests : Regular(r)) => Occupied <= Capacity
=============================================================================
