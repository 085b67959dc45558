------------------------ MODULE EmployeeProvisioning ------------------------
(***************************************************************************)
(* What a build of a self-service employee is provisioned with             *)
(* (provision_compiled_capabilities of employee_capability_builder.py, the *)
(* endpoints of api/customer_employee_builder.py that call it, and the     *)
(* readiness of self_service_policy.py).                                   *)
(*                                                                         *)
(* A build has requirements ("keys") and routines.  Provisioning makes an  *)
(* action of each requirement that is not waiting for the owner, a         *)
(* scheduled workflow of one with a schedule of its own, and a workflow of *)
(* each routine whose actions are all ready.  What exists is kept, so that *)
(* operators and paused routines keep their say; a new build first clears  *)
(* what the old one was given.  Readiness looks at the plan provisioning   *)
(* left in the build, not at the rows.                                     *)
(*                                                                         *)
(* EmployeeBuilder has the evidence of previews, the versions and the      *)
(* endpoints that do not lock the row; here every endpoint is one step,    *)
(* and a preview, which changes nothing here, is made whenever a launch or *)
(* an apply needs one.  The permissions in a provisioned build are those   *)
(* of "owner": every endpoint that changes the one stores the other.       *)
(* Connected systems fit the requirement that needs one.  A requirement    *)
(* that is a channel is left out.                                          *)
(***************************************************************************)
EXTENDS Integers, FiniteSets

CONSTANTS Keys, Routines, Briefs,
          Kind,     \* how a brief's requirement is met
          Secret,   \* requirements of a brief that ask for a credential
          Uses,     \* the actions of a brief's routine; {}: it has none
          Timed,    \* requirements with a schedule, per brief
          Cron,     \* routines with a schedule, per brief
          NoSpec, NoRevision, NoRow, NoPlan,
          MaxConnections, \* bound: connected systems ever made
          MaxChanges      \* bound: builds begun, restored or staged,
                          \* permissions set, systems that stop working and
                          \* changes by an operator

\* "input": a booking whose hours the owner is asked for; "external": one
\* that needs a connected system
Kinds == {"off", "native", "input", "external"}

ASSUME ProvisioningAssumption ==
    /\ Kind \in [Briefs -> [Keys -> Kinds]]
    /\ \A b \in Briefs : \* a brief has one connected system at most
           Cardinality({k \in Keys : Kind[b][k] = "external"}) <= 1
    /\ Secret \in [Briefs -> SUBSET Keys]
    /\ Uses \in [Briefs -> [Routines -> SUBSET Keys]]
    /\ Timed \in [Briefs -> SUBSET Keys]
    /\ Cron \in [Briefs -> SUBSET Routines]
    /\ {MaxConnections, MaxChanges} \subseteq Nat

VARIABLES live,     \* AIAgent.enabled
          spec,     \* the stored build
          answers,  \* setup_answers
          plan,     \* its delivery: the statuses provisioning found
          owner,    \* owner_permissions
          pending,  \* a revision staged while the employee is live
          version,  \* the last version of the build
          actions,  \* config["actions"] of the tool action_request
          tool,     \* its AgentToolAssignment
          timers,   \* scheduled workflows of requirements
          rows,     \* workflows of routines
          conn,     \* CompanyIntegration
          operated, \* history: an operator changed the actions
          changes

runtime == <<actions, tool, timers, rows>>
counts == <<operated, changes>>
provisioningVars ==
    <<live, spec, plan, answers, owner, pending, version, runtime, conn,
      counts>>

Conns == 1 .. MaxConnections
Modes == {"ask", "automatic", "never"}
Needs == {"off", "input", "connection", "build", "managed"}
\* A contract found may need operations to be chosen, or access; "locked": an
\* API key or an account of the owner.
Found == {"no", "contract", "locked", "resolved"}
Exec  == {"none", "ready", "setup_required", "approval_required", "disabled",
          "permission_denied"}
Given == [Keys -> {"none", "bad", "good"}] \* "bad": cannot be used
NoAnswers == [k \in Keys |-> "none"]
Specs == [brief : Briefs, need : [Keys -> Needs], link : {0} \cup Conns,
          found : Found, inputs : Given] \* customer_inputs
Plans == [exec : [Keys -> Exec],
          trig : [Routines -> {"none", "ready", "setup_required",
                               "disabled"}]]
Actions == [by : {"xvond", "operator"}, on : BOOLEAN, mode : Modes,
            to : {0} \cup Conns,
            set : {"yes", "no", "none"}] \* opening hours of a booking
Unset == [k \in Keys |-> "unset"]
Grants == [Keys -> Modes \cup {"unset"}]
Revisions == [spec : Specs \cup {NoSpec}, answers : Given, onBase : BOOLEAN]
Workflows == [on : BOOLEAN, brief : Briefs]

ASSUME NoneAssumption ==
    /\ NoSpec \notin Specs /\ NoPlan \notin Plans
    /\ NoRevision \notin Revisions
    /\ NoRow \notin Actions /\ NoRow \notin Briefs
    /\ NoRow \notin Workflows

Valid == {c \in Conns : conn[c] = "valid"}
External(b) == {k \in Keys : Kind[b][k] = "external"}

\* The scheduled work of a requirement is its routine's, if that is executed
\* and has a schedule.
OwnTimed(b) == Timed[b] \ UNION {Uses[b][r] : r \in Cron[b]}

\* _permission_mode, _effective_compiled_permissions
Mode(o, k) == IF o[k] = "unset" THEN "ask" ELSE o[k]

ProvisioningInit ==
    /\ live = FALSE /\ spec = NoSpec /\ plan = NoPlan /\ owner = Unset
    /\ answers = NoAnswers /\ pending = NoRevision
    /\ version = [spec |-> NoSpec, answers |-> NoAnswers, owner |-> Unset]
    /\ actions = [k \in Keys |-> NoRow] /\ tool = "none"
    /\ timers = [k \in Keys |-> NoRow]
    /\ rows = [r \in Routines |-> NoRow]
    /\ conn = [c \in Conns |-> "none"]
    /\ operated = FALSE /\ changes = 0

-----------------------------------------------------------------------------
(* Provisioning.  "had" is what there is, with the connected systems that  *)
(* are enabled and validated; a routine's workflow is found by its key.    *)

Had == [actions |-> actions, tool |-> tool, timers |-> timers, rows |-> rows,
        valid |-> Valid]

\* Mutant: only the workflows of routines are retired.
ClearedRoutines ==
    [Had EXCEPT !.rows = [r \in Routines |-> NoRow]]

\* _clear_generated_self_service_build: a retired workflow is disabled.
Cleared ==
    [actions |-> [k \in Keys |->
                     IF actions[k] # NoRow /\ actions[k].by = "operator"
                     THEN actions[k] ELSE NoRow],
     tool |-> tool,
     timers |-> [k \in Keys |-> NoRow],
     rows |-> [r \in Routines |-> NoRow],
     valid |-> Valid]

\* Requirements that wait for nobody.
Built(s) == {k \in Keys : s.need[k] \in {"build", "managed"}}

\* build_external_integration_action_config: the requirement's system
Destination(s, k) == IF k \in External(s.brief) THEN s.link ELSE 0

\* build_internal_booking_action_config: days, hours and slots were given in
\* a form that could be read.
SetUp(s, k) == IF Kind[s.brief][k] # "input" THEN "none"
               ELSE IF s.inputs[k] = "good" THEN "yes" ELSE "no"

\* build_managed_action_config
NewAction(s, o, k) ==
    [by |-> "xvond", on |-> TRUE, mode |-> Mode(o, k),
     to |-> Destination(s, k), set |-> SetUp(s, k)]

\* An action that exists is kept: only the permission of a generated one
\* follows the owner.
Action(s, o, had, k) ==
    LET row == had.actions[k] IN
    IF k \notin Built(s) THEN row
    ELSE IF row = NoRow THEN NewAction(s, o, k)
    ELSE IF row.by = "xvond" THEN [row EXCEPT !.mode = Mode(o, k)] ELSE row

\* execution_status of an action
Status(row, had) ==
    IF row.by = "xvond" /\ row.mode = "never" THEN "permission_denied"
    ELSE IF ~row.on \/ had.tool = "off" THEN "disabled"
    ELSE IF row.set = "no" \/ (row.to # 0 /\ row.to \notin had.valid)
    THEN "setup_required"
    ELSE "ready"

\* _provision_self_service_schedule: a schedule needs the owner's grant.
Scheduled(s, row, k) == k \in OwnTimed(s.brief) /\ row.mode = "automatic"
Unscheduled(s, row, k) == k \in OwnTimed(s.brief) /\ row.mode # "automatic"

ExecStatus(s, row, had, k) ==
    IF k \notin Built(s) THEN "none"
    ELSE IF Status(row, had) = "ready" /\ Unscheduled(s, row, k)
    THEN "approval_required" ELSE Status(row, had)

\* Each action of a routine is there, and ready unless the owner denied it.
Runnable(s, acts, exec, r) ==
    \A k \in Uses[s.brief][r] :
        /\ acts[k] # NoRow
        /\ \/ acts[k].by = "xvond" /\ acts[k].mode = "never"
           \/ exec[k] = "ready"

\* _provision_self_service_graph_trigger
TriggerStatus(s, acts, exec, had, r) ==
    IF Uses[s.brief][r] = {} THEN "none"
    ELSE IF ~Runnable(s, acts, exec, r) THEN "setup_required"
    ELSE IF had.rows[r] # NoRow /\ ~had.rows[r].on THEN "disabled"
    ELSE "ready"

\* provision_compiled_capabilities of build s with the owner's grants o
Provisioned(s, o, had) ==
    LET acts == [k \in Keys |-> Action(s, o, had, k)]
        set  == IF had.tool = "none" /\ Built(s) # {} THEN "on" ELSE had.tool
        exec == [k \in Keys |-> ExecStatus(s, acts[k], had, k)]
        trig == [r \in Routines |-> TriggerStatus(s, acts, exec, had, r)]
    IN [spec |-> [s EXCEPT !.need = [k \in Keys |->
                     IF k \in Built(s) THEN "managed" ELSE s.need[k]]],
        plan |-> [exec |-> exec, trig |-> trig],
        actions |-> acts,
        tool |-> set,
        timers |-> [k \in Keys |->
                       IF exec[k] = "ready" /\ Scheduled(s, acts[k], k)
                          /\ had.timers[k] = NoRow
                       THEN s.brief ELSE had.timers[k]],
        rows |-> [r \in Routines |->
                     IF trig[r] = "ready" /\ had.rows[r] = NoRow
                     THEN [on |-> TRUE, brief |-> s.brief] ELSE had.rows[r]]]

\* _auto_bind_single_packaged_integrations, in "usable" systems
AutoBound(s, usable) ==
    LET waits == {k \in External(s.brief) : s.need[k] = "connection"} IN
    IF waits # {} /\ s.link = 0 /\ Cardinality(usable) = 1
    THEN [s EXCEPT !.link = CHOOSE c \in usable : TRUE,
                   !.need = [k \in Keys |-> IF k \in waits THEN "build"
                                            ELSE s.need[k]]]
    ELSE s

\* _store_provisioned_spec: the build keeps all answers, for later revisions.
Stored(s, o, given, had) ==
    LET result == Provisioned(AutoBound(s, Valid), o, had)
    IN IF given = NoAnswers THEN result
       ELSE [result EXCEPT !.spec.inputs = given]

\* The result is stored.
Store(result) ==
    /\ spec' = result.spec /\ plan' = result.plan
    /\ actions' = result.actions /\ tool' = result.tool
    /\ timers' = result.timers /\ rows' = result.rows

\* Nothing is built.
Unbuild(had) ==
    /\ spec' = NoSpec /\ plan' = NoPlan
    /\ actions' = had.actions /\ tool' = had.tool
    /\ timers' = had.timers /\ rows' = had.rows

-----------------------------------------------------------------------------
(* Readiness.                                                              *)

\* _connected_system_setup: the requirement's connected system decides.
Viewed(s, p, k) ==
    IF k \in External(s.brief)
       /\ p.exec[k] \in {"setup_required", "approval_required"}
    THEN "ready" ELSE p.exec[k]

\* Mutant: a routine that is disabled does not count.
TriggersReadyLenient(p) ==
    \A r \in Routines : p.trig[r] # "setup_required"

\* _execution_blockers, of the routines
TriggersReady(p) == \A r \in Routines : p.trig[r] \in {"ready", "none"}

\* _resolved_customer_requirement_keys: an answer counts, whichever build it
\* was given to.
Unanswered(s, given) ==
    {k \in Keys : s.need[k] = "input" /\ given[k] = "none"}

Unconnected(s) == {k \in Keys : s.need[k] = "connection"}

\* _execution_blockers, of the requirements
RequirementsReady(s, p, given) ==
    /\ Unconnected(s) = {} /\ Unanswered(s, given) = {}
    /\ \A k \in Built(s) :
           Viewed(s, p, k) \notin {"setup_required", "approval_required"}

\* self_service_readiness, evaluate_readiness
Ready(s, p, given, valid) ==
    /\ s # NoSpec /\ p # NoPlan
    /\ RequirementsReady(s, p, given)
    /\ External(s.brief) # {} => s.link \in valid
    /\ TriggersReady(p)

-----------------------------------------------------------------------------
(* The journey: what the portal offers the owner of a draft to do next     *)
(* (_self_service_builder_journey).  A launch stands for the previews it   *)
(* needs and the launch.                                                   *)

\* Mutant: a permission that is missing is not asked for.
UnapprovedSilent(s, p) == {}

\* A schedule waits for the owner's grant.
Unapproved(s, p) == {k \in Built(s) : p.exec[k] = "approval_required"}

\* A connected system is to be validated again: _connected_system_setup
Unvalidated(s, valid) ==
    {k \in External(s.brief) : k \in Built(s) /\ s.link \notin valid}

\* The portal says that Xvond has to finish the setup.  It looks at the plan
\* as it is stored, not as the readiness views it.
HeldBack(s, p) ==
    \/ \E k \in Built(s) : p.exec[k] \in {"setup_required", "disabled"}
    \/ ~TriggersReady(p)

\* _self_service_builder_journey has an argument for the access to a found
\* contract that _builder_action does not take: there is no journey.
Raises(s) == Unconnected(s) # {} /\ s.found = "locked"

\* What is left to do, before the employee can be tested.  Nobody is asked
\* for a credential here: the stage only says that something is missing.
Setup(s, p, given, valid) ==
    {<<"input", k>> : k \in Unanswered(s, given) \ Secret[s.brief]}
    \cup {<<"connect", k>> : k \in Unconnected(s)}
    \cup {<<"permit", k>> : k \in Unapproved(s, p)}
    \cup {<<"validate", k>> : k \in Unvalidated(s, valid)}

\* Without a build, whose requirements are the other stages, the owner is to
\* have one made.
Building == {<<"build">>}

\* next_actions: those of the first stage that is not complete
NextSteps(s, p, given, valid) ==
    IF s = NoSpec THEN Building
    ELSE IF Raises(s) THEN {}
    ELSE IF Setup(s, p, given, valid) # {} THEN Setup(s, p, given, valid)
    ELSE IF HeldBack(s, p) \/ ~Ready(s, p, given, valid) THEN {}
    ELSE {<<"launch">>}

-----------------------------------------------------------------------------
(* Builds.                                                                 *)

\* The next row of CompanyIntegration.
Unused == {c \in Conns : conn[c] = "none"
                          /\ \A d \in 1 .. c - 1 : conn[d] # "none"}

\* normalize_compiled_spec: what a requirement of a new build waits for
Need(b, k, c) ==
    CASE Kind[b][k] = "native" -> "build"
      [] Kind[b][k] = "external" -> IF c = 0 THEN "connection" ELSE "build"
      [] OTHER -> Kind[b][k]

\* A new build.  A step of a routine may be of an action that is none of the
\* requirements: it is kept.
Fresh(b, found, c) ==
    [brief |-> b, link |-> c, found |-> found, inputs |-> NoAnswers,
     need |-> [k \in Keys |-> Need(b, k, c)]]

\* _attempt_compiled_capability_discovery: a public API is connected at
\* once; if its operations do not fit, its row is deleted again.
Outcomes(b) ==
    IF External(b) = {} THEN {Fresh(b, "no", 0)}
    ELSE {Fresh(b, f, 0) : f \in Found \ {"resolved"}}
             \cup {Fresh(b, "resolved", c) : c \in Unused}

\* The connected system the compiler made.
Connect(c) == conn' = [d \in Conns |-> IF d = c THEN "valid" ELSE conn[d]]
With(c, had) == [had EXCEPT !.valid = @ \cup ({c} \ {0})]

Snapshot ==
    version' = [spec |-> spec, answers |-> answers, owner |-> owner]

Change == changes < MaxChanges /\ changes' = changes + 1

\* The build has another compiled_at than the revision was staged on.
Rebase == pending' = IF pending = NoRevision THEN pending
                     ELSE [pending EXCEPT !.onBase = FALSE]

\* compile_employee, or a chat test with a subscription: a compiled build is
\* provisioned again.
Compile ==
    /\ \/ /\ spec = NoSpec
          /\ \E b \in Briefs : \E s \in Outcomes(b) :
                /\ Connect(s.link)
                /\ Store(Stored(s, owner, answers, With(s.link, Had)))
       \/ /\ spec # NoSpec
          /\ Store(Stored(spec, owner, answers, Had))
          /\ UNCHANGED conn
    /\ UNCHANGED <<live, answers, owner, pending, version, counts>>

\* revise_self_service_job_brief
Revise ==
    /\ ~live
    /\ Change
    /\ Snapshot
    /\ Unbuild(Cleared)
    /\ answers' = NoAnswers /\ owner' = Unset
    /\ Rebase
    /\ UNCHANGED <<live, conn, operated>>

\* rollback_self_service_employee of a draft: nothing is bound.
Restore ==
    /\ ~live
    /\ Change
    /\ Snapshot
    /\ IF version.spec = NoSpec
       THEN Unbuild(Cleared) /\ owner' = Unset
       ELSE Store(Provisioned(version.spec, version.owner, Cleared))
            /\ owner' = version.owner
    /\ answers' = version.answers
    /\ Rebase
    /\ UNCHANGED <<live, conn, operated>>

\* set_self_service_permission, of a requirement in the action plan
SetPermission(k, mode) ==
    /\ Change
    /\ spec # NoSpec /\ plan.exec[k] # "none"
    /\ ~(live /\ mode = "automatic" /\ Mode(owner, k) # "automatic")
    /\ owner[k] # mode
    /\ Snapshot
    /\ LET granted == [owner EXCEPT ![k] = mode] IN
          owner' = granted /\ Store(Stored(spec, granted, answers, Had))
    /\ Rebase
    /\ UNCHANGED <<live, answers, conn, operated>>

-----------------------------------------------------------------------------
(* A revision of a live employee.                                          *)

\* _carry_forward_requirement_bindings: what the build before was connected
\* to and told.
Carried(s, prev) ==
    IF prev = NoSpec THEN s
    ELSE LET bound == s.link = 0 /\ prev.link # 0 /\ External(s.brief) # {}
                      /\ External(s.brief) = External(prev.brief)
             told == {k \in Keys : Kind[s.brief][k] # "off"
                                     /\ prev.inputs[k] # "none"}
         IN [s EXCEPT
               !.link = IF bound THEN prev.link ELSE @,
               !.need = [k \in Keys |->
                  IF \/ bound /\ s.need[k] = "connection"
                     \/ k \in told /\ s.need[k] = "input"
                  THEN "build" ELSE s.need[k]],
               !.inputs = [k \in Keys |-> IF k \in told THEN prev.inputs[k]
                                          ELSE s.inputs[k]]]

\* _compile_staged_employee_spec, on the revision there is or the live build
Staged(given, onBase) ==
    \E b \in Briefs : \E s \in Outcomes(b) :
       LET prev == IF pending # NoRevision /\ pending.spec # NoSpec
                   THEN pending.spec ELSE spec
       IN /\ Connect(s.link)
          /\ pending' = [spec |-> AutoBound(Carried(s, prev), Valid),
                         answers |-> given, onBase |-> onBase]

\* refine_self_service_employee, build_pending_live_revision: another brief,
\* but the same answers
Stage ==
    /\ live
    /\ Change
    /\ IF pending = NoRevision THEN Staged(answers, TRUE)
       ELSE Staged(IF pending.answers = NoAnswers THEN answers
                   ELSE pending.answers, pending.onBase)
    /\ UNCHANGED <<live, spec, plan, answers, owner, version, runtime,
                   operated>>

\* rollback_self_service_employee of a live employee
StageVersion ==
    /\ live
    /\ Change
    /\ pending' = [spec |-> version.spec, answers |-> version.answers,
                   onBase |-> TRUE]
    /\ UNCHANGED <<live, spec, plan, answers, owner, version, runtime, conn,
                   operated>>

\* discard_pending_live_revision
Discard ==
    /\ pending # NoRevision
    /\ pending' = NoRevision
    /\ UNCHANGED <<live, spec, plan, answers, owner, version, runtime, conn,
                   counts>>

\* apply_pending_live_revision: all or nothing
Apply ==
    /\ pending # NoRevision /\ pending.spec # NoSpec /\ pending.onBase
    /\ answers' = pending.answers /\ pending' = NoRevision
    /\ LET result == Stored(pending.spec, owner, pending.answers, Cleared)
       IN /\ Ready(result.spec, result.plan, pending.answers, Valid)
          /\ Store(result)
    /\ Snapshot
    /\ UNCHANGED <<live, owner, conn, counts>>

\* launch_self_service_employee
Launch ==
    /\ ~live /\ live' = TRUE
    /\ Ready(spec, plan, answers, Valid)
    /\ UNCHANGED <<spec, plan, answers, owner, pending, version, runtime, conn,
                   counts>>

\* deactivate_self_service_employee
Deactivate ==
    /\ live
    /\ live' = FALSE
    /\ UNCHANGED <<spec, plan, answers, owner, pending, version, runtime, conn,
                   counts>>

-----------------------------------------------------------------------------
(* Setup of the draft, or of the revision of a live employee.              *)

Staging == live /\ pending # NoRevision
Target == IF Staging THEN pending.spec ELSE spec
MayAmend == (live => pending # NoRevision) /\ Target # NoSpec

Pend(s) ==
    /\ pending' = [pending EXCEPT !.spec = s]
    /\ UNCHANGED <<spec, plan, runtime>>

\* The amended draft is provisioned; a revision is not.
Amend(s, had) ==
    IF Staging THEN Pend(s)
    ELSE Store(Provisioned(s, owner, had)) /\ UNCHANGED pending

\* The amended draft keeps the plan it had.
Note(s) ==
    IF Staging THEN Pend(s)
    ELSE spec' = s /\ UNCHANGED <<pending, plan, runtime>>

Waiting(s, need) ==
    [s EXCEPT !.need = [k \in Keys |-> IF k \in External(s.brief)
                                       THEN need ELSE s.need[k]]]

\* The requirement is connected, and each step of a routine that uses it is
\* an operation of the connected system.
Linked(s, c) == [Waiting(s, "build") EXCEPT !.link = c]

Needed == MayAmend /\ External(Target.brief) # {}

\* discover_self_service_capability: no contract is found, or one that is not
\* connected at once.
Discover ==
    /\ Needed
    /\ \/ Note([Target EXCEPT !.found = "no"])
       \/ \E found \in {"contract", "locked"} :
             Note([Waiting(Target, "connection") EXCEPT !.found = found])
    /\ UNCHANGED <<live, answers, owner, version, conn, counts>>

\* The contract is of a public API, which is connected at once; if its
\* operations do not fit, the connected system stays all the same.
DiscoverPublic ==
    /\ Needed
    /\ \E c \in Unused :
          /\ Connect(c)
          /\ \/ Amend([Linked(Target, c) EXCEPT !.found = "resolved"],
                      With(c, Had))
             \/ Note([Waiting(Target, "connection") EXCEPT
                         !.link = 0, !.found = "contract"])
    /\ UNCHANGED <<live, answers, owner, version, counts>>

\* provide_discovered_capability_access
ProvideAccess ==
    /\ Needed /\ Target.found \in {"contract", "locked"}
    /\ \E c \in Unused :
          /\ Connect(c)
          /\ Amend([Linked(Target, c) EXCEPT !.found = "resolved"],
                   With(c, Had))
    /\ UNCHANGED <<live, answers, owner, version, counts>>

\* auto_resolve_self_service_integrations
AutoResolve ==
    /\ MayAmend
    /\ AutoBound(Target, Valid) # Target
    /\ Amend(AutoBound(Target, Valid), Had)
    /\ UNCHANGED <<live, answers, owner, version, conn, counts>>

\* bind_self_service_integration
Bind(c) ==
    /\ Needed
    /\ \E k \in External(Target.brief) : Target.need[k] = "connection"
    /\ c \in Valid
    /\ Amend(Linked(Target, c), Had)
    /\ UNCHANGED <<live, answers, owner, version, conn, counts>>

\* save_self_service_setup_answer: any text is accepted, once, but to a
\* question for a credential.
Answer(k, text) ==
    /\ MayAmend /\ Target.need[k] = "input"
    /\ k \notin Secret[Target.brief]
    /\ LET s == [Target EXCEPT !.need[k] = "build", !.inputs[k] = text] IN
       IF Staging
       THEN /\ pending' = [pending EXCEPT !.spec = s, !.answers[k] = text]
            /\ UNCHANGED <<spec, plan, answers, runtime>>
       ELSE /\ Store(Provisioned(s, owner, Had))
            /\ answers' = [answers EXCEPT ![k] = text]
            /\ UNCHANGED pending
    /\ UNCHANGED <<live, owner, version, conn, counts>>

-----------------------------------------------------------------------------
(* Routines, connected systems and the operator.                           *)

\* _sync_routine_delivery_state: whatever the status was
Synced(p, r, on) ==
    IF p = NoPlan THEN p
    ELSE [p EXCEPT !.trig[r] = IF on THEN "ready" ELSE "disabled"]

\* customer_employee_set_routine_state
SetRoutine(r, on) ==
    /\ rows[r] # NoRow
    /\ rows' = [rows EXCEPT ![r].on = on]
    /\ plan' = Synced(plan, r, on)
    /\ UNCHANGED <<live, spec, answers, owner, pending, version, actions, tool,
                   timers, conn, counts>>

\* customer_integration_create and _validate
CreateConnection ==
    /\ \E c \in Unused : Connect(c)
    /\ UNCHANGED <<live, spec, plan, answers, owner, pending, version, runtime,
                   counts>>

\* customer_integration_update: not while a live employee uses it.
EditConnection(c) ==
    /\ c \in Valid
    /\ Change
    /\ ~(live /\ (spec.link = c \/ \E k \in Keys :
                                     actions[k] # NoRow /\ actions[k].to = c))
    /\ conn' = [conn EXCEPT ![c] = "stale"]
    /\ UNCHANGED <<live, spec, plan, answers, owner, pending, version, runtime,
                   operated>>

\* customer_integration_validate, once the system has answered as it should
Validate(c) ==
    /\ conn[c] = "stale"
    /\ Connect(c)
    /\ UNCHANGED <<live, spec, plan, answers, owner, pending, version, runtime,
                   counts>>

\* _normalize_action: the marks of provisioning get lost.
Normalized(row, on) ==
    [by |-> "operator", on |-> on,
     mode |-> IF row.mode = "automatic" THEN "automatic" ELSE "ask",
     to |-> row.to, set |-> IF row.set = "none" THEN "none" ELSE "no"]

\* update_actions of an operator, who enables the actions "on"
OperatorEdit(on) ==
    /\ Change
    /\ \E k \in Keys : actions[k] # NoRow
    /\ on \subseteq {k \in Keys : actions[k] # NoRow}
    /\ actions' = [k \in Keys |->
                      IF actions[k] = NoRow THEN NoRow
                      ELSE Normalized(actions[k], k \in on)]
    /\ tool' = IF on # {} THEN "on" ELSE "off"
    /\ operated' = TRUE
    /\ UNCHANGED <<live, spec, plan, answers, owner, pending, version, timers,
                   rows, conn>>

ProvisioningNext ==
    \/ Compile
    \/ Revise
    \/ Restore
    \/ \E k \in Keys, mode \in Modes : SetPermission(k, mode)
    \/ Stage
    \/ StageVersion
    \/ Discard
    \/ Apply
    \/ Launch
    \/ Deactivate
    \/ Discover
    \/ DiscoverPublic
    \/ ProvideAccess
    \/ AutoResolve
    \/ \E c \in Conns : Bind(c)
    \/ \E k \in Keys, text \in {"bad", "good"} : Answer(k, text)
    \/ \E r \in Routines, on \in BOOLEAN : SetRoutine(r, on)
    \/ CreateConnection
    \/ \E c \in Conns : EditConnection(c)
    \/ \E c \in Conns : Validate(c)
    \/ \E on \in SUBSET Keys : OperatorEdit(on)

ProvisioningSpec == ProvisioningInit /\ [][ProvisioningNext]_provisioningVars

-----------------------------------------------------------------------------
(* Properties.                                                             *)

\* The variables have the types of the rows and settings they stand for.
ProvisioningTypeOK ==
    /\ live \in BOOLEAN
    /\ spec \in Specs \cup {NoSpec}
    /\ plan \in Plans \cup {NoPlan}
    /\ owner \in Grants
    /\ answers \in Given
    /\ pending \in Revisions \cup {NoRevision}
    /\ version \in [spec : Specs \cup {NoSpec}, answers : Given,
                     owner : Grants]
    /\ actions \in [Keys -> Actions \cup {NoRow}]
    /\ tool \in {"none", "on", "off"}
    /\ timers \in [Keys -> Briefs \cup {NoRow}]
    /\ rows \in [Routines -> Workflows \cup {NoRow}]
    /\ conn \in [Conns -> {"none", "valid", "stale"}]
    /\ operated \in BOOLEAN
    /\ changes \in 0 .. MaxChanges

\* A generated action, scheduled workflow or routine that can run belongs to
\* the stored build, whatever was built, restored or applied before it.
OfTheBuild ==
    /\ \A k \in Keys :
          /\ timers[k] # NoRow =>
                 /\ spec # NoSpec /\ timers[k] = spec.brief
                 /\ k \in OwnTimed(spec.brief)
          /\ actions[k] # NoRow =>
                 \/ actions[k].by = "operator"
                 \/ spec # NoSpec /\ Kind[spec.brief][k] # "off"
    /\ \A r \in Routines : rows[r] # NoRow =>
          spec # NoSpec /\ rows[r].brief = spec.brief

\* A live employee does without asking what its owner granted, and nothing
\* that its owner denied.
AsPermitted ==
    live => \A k \in Keys :
        actions[k] # NoRow /\ actions[k].by = "xvond" =>
            actions[k].mode = Mode(owner, k)

\* What runs is the stored build with the permissions of its owner.
OnlyTheBuildRuns == OfTheBuild /\ AsPermitted

\* Everything the build is to do has what it runs with.  Two cases are
\* excepted: a requirement of a connected system with a schedule of its own
\* (once the system is validated the readiness forgets that the schedule has
\* no workflow), and a question that this build never asked, as a build
\* before it did (the readiness takes the old answer, provisioning does not).
HasWork ==
    /\ \A k \in Keys : spec.need[k] \notin {"off", "input"} =>
          /\ actions[k] # NoRow /\ actions[k].on /\ tool = "on"
          /\ \/ actions[k].mode = "never"
             \/ k \notin OwnTimed(spec.brief) \ External(spec.brief)
             \/ timers[k] # NoRow
    /\ \A r \in Routines : Uses[spec.brief][r] # {} =>
          rows[r] # NoRow /\ rows[r].on

\* An employee goes live, or gets a new build, only with all of its actions,
\* scheduled workflows and routines in place and enabled (unless an operator
\* has changed them).  "Readiness requires the exact runtime path for every
\* requirement to be provisioned."
LaunchHasWork ==
    [][(Launch \/ Apply) => operated \/ HasWork']_provisioningVars

\* Where the journey does end: it fails over a found contract that needs the
\* owner's access, a credential is not asked for, an answer that cannot be
\* read is accepted and not asked for again, a system that is valid again does
\* not show in the stored plan, a routine the owner has paused is to be
\* resumed elsewhere, and a step of an action that no requirement stands for
\* is never set up.
DeadEnd ==
    \/ \E k \in Unconnected(spec) : spec.found = "locked"
    \/ \E k \in Secret[spec.brief] : spec.need[k] = "input"
    \/ \E k \in Built(spec) :
          \/ SetUp(spec, k) = "no"
          \/ k \in External(spec.brief) /\ spec.link \in Valid
                /\ plan.exec[k] = "setup_required"
    \/ \E r \in Routines :
          \/ plan.trig[r] = "disabled"
          \/ \E k \in Uses[spec.brief][r] : spec.need[k] = "off"

\* The owner of a draft always sees a next step: what is still to set up, or
\* a launch that will be accepted.  "The customer portal never has to parse
\* human blocker strings to decide what the customer should do next."
NextStepIsShown ==
    ~live /\ ~operated =>
        \/ NextSteps(spec, plan, answers, Valid) # {}
        \/ DeadEnd
=============================================================================
