--------------------------- MODULE EmployeeBuilder ---------------------------
(***************************************************************************)
(* The lifecycle of a self-service employee                                *)
(* (api/customer_employee_builder.py, the connected systems of             *)
(* api/customer_management.py, the readiness of self_service_policy.py).   *)
(*                                                                         *)
(* The settings of the employee's configuration row hold the stored build  *)
(* ("builder"), a revision staged while the employee is live ("pending")   *)
(* and older versions.  A build is previewed before it is launched or      *)
(* applied; the evidence of a preview names the compiled_at of the build   *)
(* it was made with.  Most endpoints lock the row: each is one step.  The  *)
(* free chat test, the changes of connected systems and the callback of an *)
(* OAuth authorization do not: they read the settings, and later write     *)
(* back what they read with their own change.                              *)
(*                                                                         *)
(* A build is what one compilation made of the Job Brief, the connected    *)
(* system and the setup answer it was completed with, and whether its      *)
(* action runs without asking.  What it asks the owner for is answered     *)
(* once if the requirement has an after_input_status, and any number of    *)
(* times if not (employee_context); a build that a revision carries an     *)
(* answer over to takes none.  compiled_at is a counter: no two builds     *)
(* are made in the same second.                                            *)
(***************************************************************************)
EXTENDS Integers, FiniteSets, Sequences

CONSTANTS Routines,     \* executable routines a compiled build may have
          Answers,      \* of the owner, to what a build asks for
          NoAnswer, NoSpec, NoRevision, Idle,
          HistoryLimit, \* BUILDER_HISTORY_LIMIT
          MaxConnections, \* bound: connected systems ever made
          MaxStamps,    \* bound: values of compiled_at
          MaxEdits,     \* bound: changes of a connected system
          MaxRequests   \* bound: endpoints that end without the lock

ASSUME BuilderAssumption ==
    /\ "chat" \notin Routines /\ NoAnswer \notin Answers
    /\ HistoryLimit \in Nat \ {0}
    /\ {MaxConnections, MaxStamps, MaxEdits, MaxRequests} \subseteq Nat

VARIABLES needs,    \* what the Job Brief needs to be ready
          routines, \* those of the compiled builds
          enabled,  \* AIAgent.enabled: the employee is live
          builder,  \* settings["employee_builder"]
          pending,  \* its pending_revision
          versions, \* its versions
          running,  \* what the tools and workflows were provisioned with
          conn,     \* rows of CompanyIntegration
          now,      \* the last compiled_at
          desk,     \* an endpoint that has read the settings unlocked
          previewed, \* history: trials made, with the build they ran
          waived,   \* history: builds a shortcut of the code put live
          raced,    \* history: such an endpoint ended with stale settings
          edits, requests

settings == <<builder, pending, versions>>
history  == <<previewed, waived, raced>>
vars == <<needs, routines, enabled, settings, running, conn, now, desk,
          history, edits, requests>>

Conns  == 1 .. MaxConnections
Stamps == 0 .. MaxStamps       \* 0: no compiled_at
Owners == {"none", "ask", "automatic"}
Given  == Answers \cup {NoAnswer}
\* open: the requirement is customer_input_required.
Specs  == [id : Stamps, link : {0} \cup Conns, answer : Given,
           open : BOOLEAN, auto : BOOLEAN]
Bases  == [id : Stamps, answer : Given, open : BOOLEAN, auto : BOOLEAN]
Evidence == [Routines -> Stamps]
NoEvidence == [r \in Routines |-> 0]
Builds == [spec : Specs \cup {NoSpec}, at : Stamps, tested : Stamps,
           evidence : Evidence, owner : Owners]
Revisions == [spec : Specs \cup {NoSpec}, at : Stamps, tested : Stamps,
              evidence : Evidence, base : Stamps,
              of : Bases \cup {NoSpec}]
Versions == [spec : Specs \cup {NoSpec}, owner : Owners]

ASSUME NoneAssumption ==
    NoSpec \notin Specs \cup Bases /\ NoRevision \notin Builds \cup Revisions

\* What a build is apart from the permission of its action.
Body(spec) == [id |-> spec.id, link |-> spec.link, answer |-> spec.answer]

\* What a revision is staged on.
Base(spec) ==
    IF spec = NoSpec THEN NoSpec \* a stale write took the build away
    ELSE [id |-> spec.id, answer |-> spec.answer, open |-> spec.open,
          auto |-> spec.auto]

Trials == IF routines = {} THEN {"chat"} ELSE routines

Edition(spec) == IF spec.link = 0 THEN 0 ELSE conn[spec.link].edition

Trial(spec, t) == <<Body(spec), Edition(spec), t>>

\* Builds that may yet be launched or applied.
Known ==
    LET stored == {builder.spec, running}
                      \cup {versions[i].spec : i \in DOMAIN versions}
                      \cup (IF pending = NoRevision THEN {}
                            ELSE {pending.spec})
    IN {Body(spec) : spec \in stored \ {NoSpec}}
\* A trial is remembered as long as its build may go live.
Tried(spec, t) ==
    previewed' =
        IF spec = NoSpec \/ t \notin Trials THEN previewed
        ELSE {p \in previewed : p[1] \in Known} \cup {Trial(spec, t)}

\* create_employee: a draft with a Job Brief, not compiled yet.
Init ==
    /\ needs \in {{"connection"}, {"answer"}, {"context"}}
    /\ routines \in {{}, Routines}
    /\ enabled = FALSE
    /\ builder = [spec |-> NoSpec, at |-> 0, tested |-> 0,
                  evidence |-> NoEvidence, owner |-> "none"]
    /\ pending = NoRevision /\ versions = <<>> /\ running = NoSpec
    /\ conn = [c \in Conns |-> [state |-> "none", edition |-> 0]]
    /\ now = 0 /\ desk = Idle
    /\ previewed = {} /\ waived = {} /\ raced = FALSE
    /\ edits = 0 /\ requests = 0

-----------------------------------------------------------------------------
(* Evidence and versions.                                                  *)

\* Mutant: the evidence of the routines stays.
ClearedPartly(b) == [b EXCEPT !.tested = 0]

\* _invalidate_preview_evidence
Cleared(b) == [b EXCEPT !.tested = 0, !.evidence = NoEvidence]

\* _clear_current_build_evidence: the evidence of the routines stays.
Uncompiled(b) == [b EXCEPT !.spec = NoSpec, !.at = 0, !.tested = 0]

\* Mutant: the history grows without limit.
SnapshotAll ==
    versions' = Append(versions, [spec |-> builder.spec,
                                  owner |-> builder.owner])

\* _snapshot_builder_version
Snapshot ==
    LET all == Append(versions, [spec |-> builder.spec,
                                 owner |-> builder.owner])
    IN versions' = IF Len(all) > HistoryLimit THEN Tail(all) ELSE all

\* _routine_preview_evidence
Complete(b) == \A r \in routines : b.evidence[r] = b.at
Recorded(b, r) ==
    LET seen == [b EXCEPT !.evidence[r] = b.at]
    IN IF Complete(seen) THEN [seen EXCEPT !.tested = b.at] ELSE seen

\* What a chat test records: it is the trial of a build without routines.
Chatted(b) ==
    IF b.spec = NoSpec \/ routines = {} THEN [b EXCEPT !.tested = b.at]
    ELSE IF Complete(b) THEN b ELSE [b EXCEPT !.tested = 0]

-----------------------------------------------------------------------------
(* Builds.                                                                 *)

Valid == {c \in Conns : conn[c].state = "valid"}

\* _auto_bind_single_packaged_integrations
AutoBound(spec) ==
    IF "connection" \in needs /\ spec.link = 0 /\ Cardinality(Valid) = 1
    THEN [spec EXCEPT !.link = CHOOSE c \in Valid : TRUE]
    ELSE spec

\* Mutant: the compiler's suggestion counts.
EffectiveSuggested(spec, b) ==
    [spec EXCEPT !.auto = b.owner = "automatic" \/ spec.auto]

\* _effective_compiled_permissions: only the owner grants automatic.
Effective(spec, b) == [spec EXCEPT !.auto = b.owner = "automatic"]

\* _store_provisioned_spec: the result is stored and provisioned.
Stored(b, spec) ==
    LET bound == AutoBound(spec)
    IN [IF bound # spec THEN Cleared(b) ELSE b
        EXCEPT !.spec = Effective(bound, b)]

\* provision_compiled_capabilities keeps the action it made before, with the
\* connected system it was made for, also when the requirement has another.
Provision(b) ==
    /\ builder' = b
    /\ running' = IF running = NoSpec \/ b.spec = NoSpec \/ running.link = 0
                  THEN b.spec
                  ELSE [b.spec EXCEPT !.link = running.link]

\* _clear_generated_self_service_build comes first.
Replace(b) == builder' = b /\ running' = b.spec

\* What the owner is asked for.
Asks == needs \cap {"answer", "context"} # {}

\* A compiled build; "auto" is what the compiler suggests.
NewSpec(id, prev, auto) ==
    LET answer == IF prev = NoSpec THEN NoAnswer ELSE prev.answer
    IN [id |-> id, auto |-> auto,
        link |-> IF prev = NoSpec THEN 0 ELSE prev.link,
        answer |-> answer, open |-> Asks /\ answer = NoAnswer]

\* _compile_staged_employee_spec: bindings and answers are carried forward.
Staged(id, prev, auto) == AutoBound(NewSpec(id, prev, auto))

Previous ==
    IF pending # NoRevision /\ pending.spec # NoSpec THEN pending.spec
    ELSE builder.spec

\* A new value of compiled_at.
Stamp == now < MaxStamps /\ now' = now + 1

\* _compile_employee_spec: a compiled build is provisioned again.
Compiled ==
    IF builder.spec # NoSpec THEN Stored(builder, builder.spec)
    ELSE Stored([builder EXCEPT !.at = now + 1],
                NewSpec(now + 1, NoSpec, FALSE))

StampNew == IF builder.spec # NoSpec THEN UNCHANGED now ELSE Stamp

Compile ==
    /\ StampNew
    /\ Provision(Compiled)
    /\ UNCHANGED <<needs, routines, enabled, pending, versions, conn, desk,
                   history, edits, requests>>

\* revise_self_service_job_brief, also behind a refinement of a draft.
Revise ==
    /\ ~enabled
    /\ Snapshot
    /\ Replace([Uncompiled(builder) EXCEPT !.owner = "none"])
    /\ UNCHANGED <<needs, routines, enabled, pending, conn, now, desk,
                   history, edits, requests>>

\* rollback of a draft
Restore(v) ==
    LET b == [Uncompiled(builder) EXCEPT !.owner = v.owner]
    IN /\ ~enabled
       /\ Snapshot
       /\ IF v.spec # NoSpec
          THEN Stamp /\ Replace([b EXCEPT !.spec = Effective(v.spec, b),
                                            !.at = now + 1])
          ELSE Replace([b EXCEPT !.owner = "none"]) /\ UNCHANGED now
       /\ UNCHANGED <<needs, routines, enabled, pending, conn, desk, history,
                      edits, requests>>

\* set_self_service_permission
SetPermission(mode) ==
    /\ builder.spec # NoSpec
    /\ ~(enabled /\ mode = "automatic" /\ ~builder.spec.auto)
    /\ ~(builder.owner = mode /\ builder.spec.auto = (mode = "automatic"))
    /\ Stamp
    /\ Snapshot
    /\ Provision(Stored(Cleared([builder EXCEPT !.owner = mode,
                                                !.at = now + 1]),
                        builder.spec))
    /\ UNCHANGED <<needs, routines, enabled, pending, conn, desk, history,
                   edits, requests>>

-----------------------------------------------------------------------------
(* A revision of a live employee.                                          *)

Revision(spec, at, base, of) ==
    [spec |-> spec, at |-> at, tested |-> 0, evidence |-> NoEvidence,
     base |-> base, of |-> of]

\* Mutant: a further refinement starts from the build that is live now.
StageRebased ==
    /\ enabled
    /\ Stamp
    /\ \E auto \in BOOLEAN :
           pending' = Revision(Staged(now + 1, Previous, auto), now + 1,
                               builder.at, IF pending # NoRevision
                                           THEN pending.of
                                           ELSE Base(builder.spec))
    /\ UNCHANGED <<needs, routines, enabled, builder, versions, running, conn,
                   desk, history, edits, requests>>

\* refine_self_service_employee of a live employee; "of" is a history of what
\* base_compiled_at stands for.
Stage ==
    /\ enabled
    /\ Stamp
    /\ \E auto \in BOOLEAN : LET first == pending = NoRevision
       IN pending' = Revision(Staged(now + 1, Previous, auto), now + 1,
                       IF first THEN builder.at ELSE pending.base,
                       IF first THEN Base(builder.spec) ELSE pending.of)
    /\ UNCHANGED <<needs, routines, enabled, builder, versions, running, conn,
                   desk, history, edits, requests>>

\* rollback of a live employee: the version is staged.
StageVersion(v) ==
    /\ enabled
    /\ \/ /\ Stamp
          /\ \E auto \in BOOLEAN :
                pending' = Revision(IF v.spec # NoSpec THEN v.spec
                                    ELSE Staged(now + 1, builder.spec, auto),
                                    now + 1, builder.at, Base(builder.spec))
       \/ /\ v.spec = NoSpec \* no entitlement to compile it
          /\ pending' = Revision(NoSpec, 0, builder.at, Base(builder.spec))
          /\ UNCHANGED now
    /\ UNCHANGED <<needs, routines, enabled, builder, versions, running, conn,
                   desk, history, edits, requests>>

\* build_pending_live_revision.  It looks whether the employee is live before
\* it waits for the lock, and a revision is staged only while it is.
Rebuild ==
    /\ pending # NoRevision
    /\ Stamp
    /\ \E auto \in BOOLEAN :
           pending' = [Cleared(pending) EXCEPT
                           !.spec = Staged(now + 1, Previous, auto),
                           !.at = now + 1]
    /\ UNCHANGED <<needs, routines, enabled, builder, versions, running, conn,
                   desk, history, edits, requests>>

\* discard_pending_live_revision
Discard ==
    /\ pending # NoRevision
    /\ pending' = NoRevision
    /\ UNCHANGED <<needs, routines, enabled, builder, versions, running, conn,
                   now, desk, history, edits, requests>>

\* self_service_readiness: nothing is left to set up, and the connected
\* system is there, enabled and validated.
Ready(spec) ==
    /\ spec # NoSpec
    /\ spec.open => "context" \in needs /\ spec.answer # NoAnswer
    /\ "connection" \in needs => spec.link \in Valid

Tested(b) == b.spec # NoSpec /\ b.at # 0 /\ b.tested = b.at

\* launch_self_service_employee
Launch ==
    /\ Tested(builder)
    /\ Ready(builder.spec)
    /\ enabled' = TRUE
    /\ UNCHANGED <<needs, routines, settings, running, conn, now, desk,
                   history, edits, requests>>

\* deactivate: the settings keep a staged revision.
Deactivate ==
    /\ enabled
    /\ enabled' = FALSE
    /\ UNCHANGED <<needs, routines, settings, running, conn, now, desk,
                   history, edits, requests>>

OnItsBase == pending.base = builder.at

\* apply_pending_live_revision, which looks whether the employee is live
\* before it waits for the lock.  The evidence of the routines is not taken
\* over; a connected system bound by the way goes live without a preview.
Apply ==
    /\ pending # NoRevision
    /\ Tested(pending)
    /\ OnItsBase
    /\ LET b == Stored([builder EXCEPT !.at = pending.at,
                                       !.tested = pending.tested],
                       pending.spec)
       IN /\ Ready(b.spec)
          /\ Replace(b)
          /\ waived' = waived \cup ({Body(b.spec)} \ {Body(pending.spec)})
    /\ Snapshot
    /\ pending' = NoRevision
    /\ UNCHANGED <<needs, routines, enabled, conn, now, desk, previewed, raced,
                   edits, requests>>

-----------------------------------------------------------------------------
(* Trials and setup, of the revision of a live employee if there is one.   *)

Staging == enabled /\ pending # NoRevision
Target == IF Staging THEN pending ELSE builder

\* The target with its new contents, and what is provisioned.
Save(b) ==
    IF Staging THEN pending' = b /\ UNCHANGED <<builder, running>>
    ELSE builder' = b /\ UNCHANGED <<pending, running>>

Amend(spec) ==
    IF Staging
    THEN pending' = [Cleared(pending) EXCEPT !.spec = spec]
         /\ UNCHANGED <<builder, running>>
    ELSE Provision([Cleared(builder) EXCEPT !.spec = spec])
         /\ UNCHANGED pending

\* preview_employee_routine
Preview(r) ==
    /\ r \in routines
    /\ Target.spec # NoSpec
    /\ Save(Recorded(Target, r))
    /\ Tried(Target.spec, r)
    /\ UNCHANGED <<needs, routines, enabled, versions, conn, now, desk, waived,
                   raced, edits, requests>>

\* test_draft_employee of a revision, or with a subscription: the stored
\* build is compiled or provisioned again first; or of a live employee
\* without a subscription, which also holds the lock.
Chat ==
    /\ \/ /\ Staging /\ pending.spec # NoSpec
          /\ pending' = Chatted(pending)
          /\ Tried(pending.spec, "chat")
          /\ UNCHANGED <<builder, running, now>>
       \/ /\ ~(Staging /\ pending.spec # NoSpec)
          /\ StampNew
          /\ Provision(Chatted(Compiled))
          /\ Tried(builder'.spec, "chat")
          /\ UNCHANGED pending
       \/ /\ enabled /\ ~(Staging /\ pending.spec # NoSpec)
          /\ builder' = Chatted(builder)
          /\ Tried(builder.spec, "chat")
          /\ UNCHANGED <<pending, running, now>>
    /\ UNCHANGED <<needs, routines, enabled, versions, conn, desk, waived,
                   raced, edits, requests>>

\* Setup and connections of a live employee need a staged revision.
MayAmend == (enabled => pending # NoRevision) /\ Target.spec # NoSpec

\* save_self_service_setup_answer: a requirement without an
\* after_input_status stays open, and may be answered again.
SaveAnswer(answer) ==
    /\ MayAmend /\ Target.spec.open
    /\ Amend([Target.spec EXCEPT !.answer = answer,
                                 !.open = "context" \in needs])
    /\ UNCHANGED <<needs, routines, enabled, versions, conn, now, desk,
                   history, edits, requests>>

\* bind_self_service_integration, auto_resolve_self_service_integrations
Bind(c) ==
    /\ "connection" \in needs
    /\ MayAmend /\ Target.spec.link = 0
    /\ c \in Valid
    /\ Amend([Target.spec EXCEPT !.link = c])
    /\ UNCHANGED <<needs, routines, enabled, versions, conn, now, desk,
                   history, edits, requests>>

\* The next row of CompanyIntegration.
Unused(c) ==
    conn[c].state = "none" /\ \A d \in 1 .. c - 1 : conn[d].state # "none"

\* provide_discovered_capability_access: a new connected system, validated
\* on the spot, replaces the one the requirement had.
ProvideAccess(c) ==
    /\ "connection" \in needs
    /\ MayAmend
    /\ Unused(c)
    /\ conn' = [conn EXCEPT ![c].state = "valid"]
    /\ Amend([Target.spec EXCEPT !.link = c])
    /\ UNCHANGED <<needs, routines, enabled, versions, now, desk, history,
                   edits, requests>>

-----------------------------------------------------------------------------
(* Connected systems: their endpoints read the settings without the lock.  *)

\* customer_integration_create
CreateConnection(c) ==
    /\ "connection" \in needs
    /\ Unused(c)
    /\ conn' = [conn EXCEPT ![c].state = "added"]
    /\ UNCHANGED <<needs, routines, enabled, settings, running, now, desk,
                   history, edits, requests>>

\* customer_integration_validate
Validate(c) ==
    /\ conn[c].state = "added"
    /\ conn' = [conn EXCEPT ![c].state = "valid"]
    /\ UNCHANGED <<needs, routines, enabled, settings, running, now, desk,
                   history, edits, requests>>

\* start_discovered_oauth_authorization: a disabled row; one that an earlier
\* authorization left is deleted.
Authorize(c) ==
    /\ "connection" \in needs
    /\ MayAmend
    /\ Unused(c)
    /\ conn' = [d \in Conns |->
                   IF d = c THEN [conn[d] EXCEPT !.state = "open"]
                   ELSE IF conn[d].state = "open"
                        THEN [conn[d] EXCEPT !.state = "gone"] ELSE conn[d]]
    /\ UNCHANGED <<needs, routines, enabled, settings, running, now, desk,
                   history, edits, requests>>

Uses(b, c) == b.spec # NoSpec /\ b.spec.link = c
LiveUses(c) == Uses(builder, c) \/ (running # NoSpec /\ running.link = c)
PendingUses(c) == pending # NoRevision /\ Uses(pending, c)

\* An endpoint reads the settings.
Read(kind, c) ==
    /\ desk = Idle
    /\ requests < MaxRequests
    /\ desk' = [kind |-> kind, conn |-> c, builder |-> builder,
                pending |-> pending, enabled |-> enabled]
    /\ UNCHANGED <<needs, routines, enabled, settings, running, conn, now,
                   history, edits, requests>>

\* Mutant: a connected system of a live employee may be changed.
MayEditAny(c) == TRUE

\* customer_integration_update, _store_openapi_contract
MayEdit(c) == ~(enabled /\ LiveUses(c))

BeginEdit(c) ==
    /\ conn[c].state \in {"added", "valid"}
    /\ edits < MaxEdits
    /\ MayEdit(c)
    /\ Read("edit", c)

\* customer_integration_delete
BeginDelete(c) ==
    /\ conn[c].state \in {"added", "valid", "open"}
    /\ ~LiveUses(c) /\ ~PendingUses(c)
    /\ Read("delete", c)

\* finish_discovered_oauth_authorization, after its calls of the provider
BeginCallback(c) ==
    /\ conn[c].state = "open"
    /\ Target.spec # NoSpec
    /\ Read("callback", c)

\* The free test of a draft, before its call of the model
BeginFreeTest == ~enabled /\ Read("chat", 0)

\* The settings have changed since the endpoint read them.
Overtaken ==
    /\ desk # Idle
    /\ \/ desk.builder # builder
       \/ desk.pending # pending
       \/ desk.enabled # enabled

\* The endpoint ends.
Ends ==
    /\ desk' = Idle
    /\ requests' = requests + 1
    /\ raced' = (raced \/ Overtaken)
    /\ UNCHANGED <<needs, routines, enabled, versions, now>>

\* _invalidate_bound_integration_previews: only if the settings it read held
\* evidence is there something to write.
Untested(b, c) ==
    IF b # NoRevision /\ Uses(b, c) THEN [b EXCEPT !.tested = 0] ELSE b

CommitEdit ==
    /\ desk # Idle /\ desk.kind = "edit"
    /\ LET b == Untested(desk.builder, desk.conn)
           p == Untested(desk.pending, desk.conn)
       IN IF b # desk.builder \/ p # desk.pending
          THEN builder' = b /\ pending' = p
          ELSE UNCHANGED <<builder, pending>>
    /\ conn' = [conn EXCEPT ![desk.conn] =
                   [state |-> "added", edition |-> @.edition + 1]]
    /\ edits' = edits + 1
    /\ Ends
    /\ UNCHANGED <<running, previewed, waived>>

CommitDelete ==
    /\ desk # Idle /\ desk.kind = "delete"
    /\ conn' = [conn EXCEPT ![desk.conn].state = "gone"]
    /\ Ends
    /\ UNCHANGED <<builder, pending, running, previewed, waived, edits>>

\* The callback does not ask whether a revision is staged: without one it
\* changes the build of a live employee.
CommitCallback ==
    /\ desk # Idle /\ desk.kind = "callback"
    /\ conn[desk.conn].state = "open"
    /\ conn' = [conn EXCEPT ![desk.conn].state = "valid"]
    /\ IF desk.enabled /\ desk.pending # NoRevision
       THEN /\ pending' = [Cleared(desk.pending) EXCEPT
                               !.spec.link = desk.conn]
            /\ builder' = desk.builder
            /\ UNCHANGED <<running, waived>>
       ELSE /\ Provision([Cleared(desk.builder) EXCEPT
                              !.spec.link = desk.conn])
            /\ pending' = desk.pending
            /\ waived' = IF enabled THEN waived \cup {Body(builder'.spec)}
                          ELSE waived
    /\ Ends
    /\ UNCHANGED <<previewed, edits>>

CommitFreeTest ==
    /\ desk # Idle /\ desk.kind = "chat"
    /\ builder' = Chatted(desk.builder)
    /\ pending' = desk.pending
    /\ Tried(builder.spec, "chat")
    /\ Ends
    /\ UNCHANGED <<running, conn, waived, edits>>

\* The endpoint refuses or fails.
GiveUp ==
    /\ desk # Idle
    /\ desk' = Idle
    /\ UNCHANGED <<needs, routines, enabled, settings, running, conn, now,
                   history, edits, requests>>

Next ==
    \/ Compile \/ Revise \/ Chat
    \/ \E i \in DOMAIN versions : Restore(versions[i])
                                 \/ StageVersion(versions[i])
    \/ \E mode \in {"ask", "automatic"} : SetPermission(mode)
    \/ Stage \/ Rebuild \/ Discard \/ Launch \/ Deactivate \/ Apply
    \/ \E r \in Routines : Preview(r)
    \/ \E answer \in Answers : SaveAnswer(answer)
    \/ \E c \in Conns : Bind(c) \/ ProvideAccess(c) \/ CreateConnection(c)
                            \/ Validate(c) \/ Authorize(c)
    \/ \E c \in Conns : BeginEdit(c) \/ BeginDelete(c) \/ BeginCallback(c)
    \/ BeginFreeTest
    \/ CommitEdit \/ CommitDelete \/ CommitCallback \/ CommitFreeTest
    \/ GiveUp

Spec == Init /\ [][Next]_vars

-----------------------------------------------------------------------------
(* Properties.                                                             *)

\* Types of the settings and of the other rows.
TypeOK ==
    /\ needs \subseteq {"connection", "answer", "context"}
    /\ routines \subseteq Routines
    /\ {enabled, raced} \subseteq BOOLEAN
    /\ builder \in Builds
    /\ pending \in {NoRevision} \cup Revisions
    /\ versions \in Seq(Versions)
    /\ Len(versions) <= HistoryLimit
    /\ running \in Specs \cup {NoSpec}
    /\ conn \in [Conns -> [state : {"none", "open", "added", "valid", "gone"},
                           edition : Nat]]
    /\ {now, edits, requests} \subseteq Nat

\* Every routine of a live build was previewed with that build, at least one
\* of them since its connected system changed last - unless Apply bound the
\* system by the way, a callback changed the live build, or an endpoint
\* without the lock wrote back stale settings.
LiveIsTested ==
    enabled /\ ~raced /\ Body(builder.spec) \notin waived =>
        /\ \A t \in Trials : \E e \in 0 .. MaxEdits :
               <<Body(builder.spec), e, t>> \in previewed
        /\ \E t \in Trials : Trial(builder.spec, t) \in previewed

\* The connected system that a live build names is there and validated,
\* whatever is edited, deleted, rolled back or applied.  (What it runs may be
\* an earlier one: see Provision.)
LiveIsConnected ==
    enabled /\ ~raced /\ builder.spec.link # 0 => builder.spec.link \in Valid

\* No step of a live employee lets its action run without asking: an owner
\* who grants that must pause the employee and preview the build first.
NoLiveEscalation ==
    [][ enabled /\ enabled' /\ ~raced' /\ running'.auto => running.auto ]_vars

\* The build has another answer than the one a revision was staged on, to
\* what it may be told again.
Reanswered(of, spec) ==
    /\ "context" \in needs /\ of # NoSpec
    /\ spec # NoSpec /\ spec.open
    /\ Base(spec) = [of EXCEPT !.answer = spec.answer]

\* A revision replaces the build it was staged on, and not one that was
\* compiled, restored or permitted something since - nor one that was told
\* something since, unless it is what a build may be told again and again:
\* that leaves compiled_at as it is, and the revision overwrites it.
ReplacesItsBase ==
    [][ Apply /\ ~raced => \/ pending.of = Base(builder.spec)
                           \/ Reanswered(pending.of, builder.spec) ]_vars
=============================================================================
