---------------------------- MODULE ServiceBilling ----------------------------
(***************************************************************************)
(* One company's "ai_agents" subscription paid through Tap: the checkout a *)
(* customer requests, the recurring charges of the scheduler               *)
(* (modules/billing/renewal.py), the verified webhooks that alone extend   *)
(* the paid period (api/billing_webhooks.py), the administrator's changes  *)
(* (api/admin_service_billing.py) and the expiry noticed by the limits     *)
(* (modules/billing/service_limits.py).                                    *)
(*                                                                         *)
(* Rows are read and written as SQLAlchemy does it: a transaction writes   *)
(* only the columns it changed against what it read, and PostgreSQL's      *)
(* READ COMMITTED lets another transaction commit in between.              *)
(*                                                                         *)
(* Tap itself (charge, posts) is external: a charge has one identity per   *)
(* idempotency reference, settles in its own time, and its webhooks are    *)
(* posted in any order and repeated.                                       *)
(***************************************************************************)
EXTENDS Integers, FiniteSets

CONSTANTS Schedulers, \* processes that run the renewal cycle
          Handlers,   \* concurrent requests to the webhook endpoint
          Plans, Free, \* service plans, and those with the price zero
          None,       \* no subscription, no snapshot
          Outcomes,   \* how Tap may settle a charge
          Month,      \* a billing period in clock ticks
          Lead,       \* TAP_RENEWAL_LEAD_HOURS in clock ticks
          MaxTime,    \* bound: the clock
          MaxKey,     \* bound: the last period end that is renewed
          MaxCharges, \* bound: with this many charges no other is begun
          MaxFaults,  \* bound: crashes and calls without a clear outcome
          MaxChanges    \* bound: customer's and administrator's acts

ASSUME BillingAssumption ==
    /\ Month \in Nat \ {0} /\ Lead \in 0 .. Month
    /\ {MaxTime, MaxKey, MaxCharges, MaxFaults, MaxChanges} \subseteq Nat
    /\ Free \subseteq Plans /\ None \notin Plans \cup Handlers
    /\ IsFiniteSet(Schedulers)
    /\ Plans \cap Int = {}
    /\ Outcomes \subseteq {"CAPTURED", "UNKNOWN", "FAILED"}

VARIABLES now,
          sub,      \* the committed subscription row, or None
          profile,  \* status of the stored payment profile
          attempt,  \* status of the renewal attempt of each period end
          checkout, \* status of the checkout row of each charge
          events,   \* recorded ServicePaymentEvent rows
          lock,     \* handler that holds the rows of a charge
          job, hook, \* where each scheduler and each webhook request is
          expiring, \* the limits saw the period over and will write it
          charge,   \* Tap: the state of each charge
          posts,    \* Tap: webhooks that may be delivered
          calls,    \* recurring charge requests sent for each period
          months,   \* periods granted for each charge
          acked,    \* captured charges whose webhook was answered 200
          clashes,  \* charges whose checkout row was inserted twice at once
          faults, changes

rows   == <<sub, profile, attempt, checkout, events>>
tap    == <<charge, posts>>
ghosts == <<calls, months, acked, clashes>>
vars   == <<now, rows, lock, job, hook, expiring, tap, ghosts, faults,
            changes>>

\* A renewal is known by the period end it follows, a checkout by its plan.
Keys    == Month .. MaxKey
Charges == Keys \cup Plans

\* ABANDONED, CANCELLED, DECLINED, RESTRICTED, VOID and TIMEDOUT are alike.
Failures == {"FAILED"}

Final == {"captured", "submitted", "unknown", "failed"}

Idle == [at |-> "idle", key |-> Month, seen |-> "none", row |-> FALSE]
NoPost == [charge |-> None, status |-> "none"]

Init ==
    /\ now = Month - Lead
    /\ \/ sub = None /\ profile = "none"
       \/ /\ sub \in [status : {"active"}, plan : Plans \ Free, start : {0},
                      end : {Month}]
          /\ profile = "active"
    /\ attempt = [k \in Keys |-> "none"]
    /\ checkout = [c \in Charges |-> "none"]
    /\ events = {}
    /\ lock = [c \in Charges |-> None]
    /\ job = [s \in Schedulers |-> Idle]
    /\ hook = [h \in Handlers |-> [at |-> "idle", post |-> NoPost,
                                   sub |-> None]]
    /\ expiring = FALSE
    /\ charge = [c \in Charges |-> [status |-> "none", plan |-> None]]
    /\ posts = {}
    /\ calls = [k \in Keys |-> 0] /\ months = [c \in Charges |-> 0]
    /\ acked = {} /\ clashes = {}
    /\ faults = 0 /\ changes = 0

Period(start, s) == [s EXCEPT !.start = start, !.end = start + Month]

\* What an UPDATE leaves in the row: the columns changed since they were read.
Written(row, read, new) ==
    [f \in DOMAIN row |-> IF new[f] # read[f] THEN new[f] ELSE row[f]]

Fault == faults < MaxFaults /\ faults' = faults + 1

-----------------------------------------------------------------------------
(* Tap.                                                                    *)

\* A request with a known reference returns the charge made for it.
CreateCharge(c, p) ==
    IF charge[c].status # "none" THEN UNCHANGED tap ELSE
    /\ charge' = [charge EXCEPT ![c] = [status |-> "INITIATED", plan |-> p]]
    /\ posts' = posts \cup {[charge |-> c, status |-> "INITIATED"]}

Settle(c) ==
    /\ charge[c].status \in {"INITIATED", "UNKNOWN"}
    /\ \E s \in Outcomes \ {charge[c].status} :
          /\ charge' = [charge EXCEPT ![c].status = s]
          /\ posts' = posts \cup {[charge |-> c, status |-> s]}
    /\ UNCHANGED <<now, rows, lock, job, hook, expiring, ghosts, faults,
                   changes>>

-----------------------------------------------------------------------------
(* The customer and the administrator.                                     *)

Room == Cardinality({c \in Charges : charge[c].status # "none"}) < MaxCharges

Change == changes < MaxChanges /\ changes' = changes + 1

\* _pending_checkout: a renewal's open checkout of the same plan counts.
OpenCheckout(p) ==
    \E c \in Charges : checkout[c] = "pending" /\ charge[c].plan = p

\* An open checkout with a payment page is used again.
CreateOnlineCheckout(p) ==
    IF checkout[p] = "pending" THEN UNCHANGED <<tap, checkout>> ELSE
    /\ CreateCharge(p, p)
    /\ checkout' = [checkout EXCEPT ![p] =
                       IF @ # "none" THEN @
                       ELSE IF charge[p].status = "CAPTURED" THEN "completed"
                       ELSE "pending"]

\* An active subscription within its period.
Current(s) == s.status = "active" /\ s.start <= now /\ now < s.end

Request(p) ==
    /\ Change /\ Room
    /\ lock[p] = None
    /\ IF sub # None /\ sub.status = "pending_payment" /\ sub.plan = p
       THEN /\ ~OpenCheckout(p) /\ CreateOnlineCheckout(p)
            /\ UNCHANGED sub
       ELSE /\ sub # None => ~Current(sub)
            /\ sub' = Period(now, [status |-> IF p \in Free THEN "active"
                                              ELSE "pending_payment",
                                   plan |-> p, start |-> now, end |-> now])
            /\ IF p \in Free THEN UNCHANGED <<tap, checkout>>
                             ELSE CreateOnlineCheckout(p)
    /\ UNCHANGED <<now, profile, attempt, events, lock, job, hook, expiring,
                   ghosts, faults>>

\* The gateway's answer is lost: the request rolls back, the charge may live.
RequestFails(p) ==
    /\ p \notin Free
    /\ sub # None => ~Current(sub)
    /\ checkout[p] # "pending"
    /\ Room /\ Fault
    /\ CreateCharge(p, p)
    /\ UNCHANGED <<now, rows, lock, job, hook, expiring, ghosts, changes>>

Admin ==
    /\ Change
    /\ UNCHANGED <<now, profile, attempt, checkout, events, lock, job, hook,
                   expiring, tap, ghosts, faults>>

\* subscribe_service
Subscribe(p, renew) ==
    /\ Admin
    /\ sub' = IF sub = None
              THEN Period(now, [status |-> "active", plan |-> p,
                                start |-> now, end |-> now])
              ELSE LET s == [sub EXCEPT !.plan = p, !.status = "active"]
                   IN IF \/ sub.plan # p \/ renew \/ sub.end <= now
                         \/ sub.status \in {"cancelled", "pending_payment"}
                      THEN Period(now, s) ELSE s

\* renew_service
Renew ==
    /\ sub # None
    /\ Admin
    /\ sub' = Period(now, [sub EXCEPT !.status = "active"])

\* set_service_status
SetStatus(status) ==
    /\ sub # None
    /\ Admin
    /\ sub' = LET s == [sub EXCEPT !.status = status]
              IN IF /\ status = "active"
                    /\ \/ sub.end <= now
                       \/ sub.status \in {"cancelled", "pending_payment"}
                 THEN Period(now, s) ELSE s

\* ServiceLimits.subscription sees an active period that is over ...
SeeExpired ==
    /\ sub # None /\ sub.status = "active" /\ sub.end <= now
    /\ ~expiring
    /\ expiring' = TRUE
    /\ UNCHANGED <<now, rows, lock, job, hook, tap, ghosts, faults, changes>>

\* ... and its caller commits.
CommitExpired ==
    /\ expiring
    /\ expiring' = FALSE
    /\ sub' = [sub EXCEPT !.status = "expired"]
    /\ UNCHANGED <<now, profile, attempt, checkout, events, lock, job, hook,
                   tap, ghosts, faults, changes>>

Tick ==
    /\ now < MaxTime
    /\ now' = now + 1
    /\ UNCHANGED <<rows, lock, job, hook, expiring, tap, ghosts, faults,
                   changes>>

-----------------------------------------------------------------------------
(* The renewal cycle of a scheduler.                                       *)

Goto(s, l) ==
    job' = [job EXCEPT ![s] = IF l = "idle" THEN Idle ELSE [@ EXCEPT !.at = l]]

Due == sub # None /\ sub.status = "active" /\ sub.end <= now + Lead

\* run_due_service_renewals_once reads the due subscriptions.
Poll(s) ==
    /\ job[s].at = "idle"
    /\ Due /\ sub.end \in Keys
    /\ Room \/ attempt[sub.end] # "none"
    /\ job' = [job EXCEPT ![s] = [Idle EXCEPT !.at = "ensure",
                                              !.key = sub.end]]
    /\ UNCHANGED <<now, rows, lock, hook, expiring, tap, ghosts, faults,
                   changes>>

\* The subscription's turn: its plan and profile must allow a charge.  When
\* another one was committed before it, the row is loaded again, and neither
\* its status nor its due date is compared a second time.
Ensure(s) ==
    /\ job[s].at = "ensure"
    /\ IF sub.plan \in Free \/ profile # "active"
       THEN Goto(s, "idle") /\ UNCHANGED attempt
       ELSE \E k \in {job[s].key, sub.end} \cap Keys :
              /\ attempt' = [attempt EXCEPT ![k] =
                                IF @ = "none" THEN "pending" ELSE @]
              /\ job' = [job EXCEPT ![s].at = "check", ![s].key = k]
    /\ UNCHANGED <<now, sub, profile, checkout, events, lock, hook, expiring,
                   tap, ghosts, faults, changes>>

\* Stored references that cannot be read any more.
ProfileBroken(s) ==
    /\ job[s].at = "ensure"
    /\ sub.plan \notin Free /\ profile = "active"
    /\ Fault
    /\ profile' = "incomplete"
    /\ Goto(s, "idle")
    /\ UNCHANGED <<now, sub, attempt, checkout, events, lock, hook, expiring,
                   tap, ghosts, changes>>

\* Mutant: an attempt that was being sent is sent again.
CheckAgain(s) ==
    /\ job[s].at = "check"
    /\ Goto(s, IF attempt[job[s].key] \in {"pending", "sending"} THEN "send"
               ELSE "idle")
    /\ UNCHANGED <<now, rows, lock, hook, expiring, tap, ghosts, faults,
                   changes>>

\* db.refresh: an attempt found "sending" was interrupted.
Check(s) ==
    /\ job[s].at = "check"
    /\ Goto(s, CASE attempt[job[s].key] = "pending" -> "send"
                 [] attempt[job[s].key] = "sending" -> "unknown"
                 [] OTHER -> "idle")
    /\ UNCHANGED <<now, rows, lock, hook, expiring, tap, ghosts, faults,
                   changes>>

\* "sending" is committed before the network call.
Send(s) ==
    /\ job[s].at = "send"
    /\ lock[job[s].key] = None
    /\ attempt' = [attempt EXCEPT ![job[s].key] = "sending"]
    /\ Goto(s, "call")
    /\ UNCHANGED <<now, sub, profile, checkout, events, lock, hook, expiring,
                   tap, ghosts, faults, changes>>

\* create_recurring_charge with a clear answer ...
Call(s) ==
    /\ job[s].at = "call"
    /\ CreateCharge(job[s].key, sub.plan)
    /\ calls' = [calls EXCEPT ![job[s].key] = @ + 1]
    /\ Goto(s, "read back")
    /\ UNCHANGED <<now, rows, lock, hook, expiring, months, acked, clashes,
                   faults, changes>>

\* ... or none: the charge may exist or not.  A token that is refused, or an
\* answer without a charge id, is recorded as a failure.
CallFails(s) ==
    /\ job[s].at = "call"
    /\ Fault
    /\ CreateCharge(job[s].key, sub.plan) \/ UNCHANGED tap
    /\ calls' = [calls EXCEPT ![job[s].key] = @ + 1]
    /\ \E outcome \in {"unknown", "failed"} : Goto(s, outcome)
    /\ UNCHANGED <<now, rows, lock, hook, expiring, months, acked, clashes,
                   changes>>

\* The outcome is written over whatever the row says by now.
WriteOutcome(s) ==
    /\ job[s].at \in {"unknown", "failed"}
    /\ lock[job[s].key] = None
    /\ attempt' = [attempt EXCEPT ![job[s].key] = job[s].at]
    /\ Goto(s, "idle")
    /\ UNCHANGED <<now, sub, profile, checkout, events, lock, hook, expiring,
                   tap, ghosts, faults, changes>>

\* expire_all: attempt and checkout are read again, without a lock ...
ReadBack(s) ==
    /\ job[s].at = "read back"
    /\ job' = [job EXCEPT ![s].at = "record",
                          ![s].seen = attempt[job[s].key],
                          ![s].row = checkout[job[s].key] # "none"]
    /\ UNCHANGED <<now, rows, lock, hook, expiring, tap, ghosts, faults,
                   changes>>

\* ... and written; a checkout row that appeared meanwhile ends the cycle
\* with an error.
Record(s) ==
    /\ job[s].at = "record"
    /\ lock[job[s].key] = None
    /\ LET k == job[s].key IN
       IF ~job[s].row /\ checkout[k] # "none"
       THEN UNCHANGED <<attempt, checkout>>
       ELSE /\ attempt' = [attempt EXCEPT ![k] =
                  IF job[s].seen \in {"captured", "submitted"} THEN @
                                                              ELSE "submitted"]
            /\ checkout' = [checkout EXCEPT ![k] =
                  IF @ = "none" THEN "pending" ELSE @]
    /\ Goto(s, "idle")
    /\ UNCHANGED <<now, sub, profile, events, lock, hook, expiring, tap,
                   ghosts, faults, changes>>

SchedulerCrash(s) ==
    /\ job[s].at # "idle"
    /\ Fault
    /\ Goto(s, "idle")
    /\ UNCHANGED <<now, rows, lock, hook, expiring, tap, ghosts, changes>>

-----------------------------------------------------------------------------
(* The webhook endpoint.                                                   *)

Renewal(c) == c \in Keys

\* The request is answered 200, and Tap forgets the webhook.
Answer200(p) ==
    acked' = IF p.status = "CAPTURED" THEN acked \cup {p.charge} ELSE acked

Leave(h) ==
    /\ hook' = [hook EXCEPT ![h] = [at |-> "idle", post |-> NoPost,
                                    sub |-> None]]
    /\ lock' = [c \in Charges |-> IF lock[c] = h THEN None ELSE lock[c]]

\* Mutant: the identity of an event leaves out the status.
ReceiveAnyStatus(h) ==
    /\ hook[h].at = "idle"
    /\ \E p \in posts :
          IF \E q \in events : q.charge = p.charge
          THEN Answer200(p) /\ UNCHANGED hook
          ELSE /\ hook' = [hook EXCEPT ![h].at = "look up", ![h].post = p]
               /\ UNCHANGED acked
    /\ UNCHANGED <<now, rows, lock, job, expiring, tap, calls, months,
                   clashes, faults, changes>>

\* An event that is recorded already is answered as a duplicate.
Receive(h) ==
    /\ hook[h].at = "idle"
    /\ \E p \in posts :
          IF p \in events
          THEN Answer200(p) /\ UNCHANGED hook
          ELSE /\ hook' = [hook EXCEPT ![h].at = "look up", ![h].post = p]
               /\ UNCHANGED acked
    /\ UNCHANGED <<now, rows, lock, job, expiring, tap, calls, months,
                   clashes, faults, changes>>

\* _tap_checkout_from_charge: the checkout row FOR UPDATE.
LookUp(h) ==
    /\ hook[h].at = "look up"
    /\ LET c == hook[h].post.charge IN
       IF checkout[c] = "none"
       THEN hook' = [hook EXCEPT ![h].at = "insert"] /\ UNCHANGED lock
       ELSE /\ lock[c] = None
            /\ lock' = [lock EXCEPT ![c] = h]
            /\ hook' = [hook EXCEPT ![h].at = "apply", ![h].sub = sub]
    /\ UNCHANGED <<now, rows, job, expiring, tap, ghosts, faults, changes>>

\* No row: a new one, if the charge fits the subscription.  A row inserted
\* meanwhile raises IntegrityError, which is answered as a duplicate too.
Insert(h) ==
    /\ hook[h].at = "insert"
    /\ LET c == hook[h].post.charge IN
       /\ lock[c] = None
       /\ CASE sub = None \/ charge[c].plan # sub.plan ->
                  Leave(h) /\ UNCHANGED <<acked, clashes>>
            [] sub # None /\ charge[c].plan = sub.plan
               /\ checkout[c] # "none" ->
                  /\ Leave(h)
                  /\ Answer200(hook[h].post)
                  /\ clashes' = clashes \cup {c}
            [] OTHER ->
                  /\ lock' = [lock EXCEPT ![c] = h]
                  /\ hook' = [hook EXCEPT ![h].at = "apply", ![h].sub = sub]
                  /\ UNCHANGED <<acked, clashes>>
    /\ UNCHANGED <<now, rows, job, expiring, tap, calls, months, faults,
                   changes>>

\* Mutant: the status of the provider is stored as it is.
SyncAttemptRaw(c, s) ==
    attempt' = IF Renewal(c) /\ attempt[c] # "none"
               THEN [attempt EXCEPT ![c] = s] ELSE attempt

\* _sync_tap_renewal_attempt
SyncAttempt(c, s) ==
    attempt' = IF Renewal(c) /\ attempt[c] # "none"
               THEN [attempt EXCEPT ![c] =
                       CASE s = "CAPTURED" -> "captured"
                         [] s = "UNKNOWN" -> "unknown"
                         [] s \in Failures -> "failed"
                         [] OTHER -> "submitted"]
               ELSE attempt

\* What _process_tap_charge makes of the subscription it read.
Granted(c, s, row) ==
    CASE s = "CAPTURED" ->
           Period(IF Renewal(c) /\ row.end > now THEN row.end ELSE now,
                  [row EXCEPT !.status = "active", !.plan = charge[c].plan])
      [] s \in Failures \cup {"UNKNOWN"} /\ Renewal(c) /\ row.end <= now ->
           [row EXCEPT !.status = "past_due"]
      [] OTHER -> row

\* Mutant: the event is not unique.
ApplyTwice(h) ==
    /\ hook[h].at = "apply"
    /\ LET p == hook[h].post
           c == p.charge
       IN /\ SyncAttempt(c, p.status)
          /\ checkout' = [checkout EXCEPT ![c] = "completed"]
          /\ sub' = Written(sub, hook[h].sub,
                            Granted(c, p.status, hook[h].sub))
          /\ events' = events \cup {p}
          /\ months' = [months EXCEPT ![c] =
                           IF p.status = "CAPTURED" THEN @ + 1 ELSE @]
          /\ Answer200(p)
    /\ Leave(h)
    /\ UNCHANGED <<now, profile, job, expiring, tap, calls, clashes, faults,
                   changes>>

\* _process_tap_charge, the unique event and the commit.
Apply(h) ==
    /\ hook[h].at = "apply"
    /\ LET p == hook[h].post
           c == p.charge
       IN /\ Answer200(p)
          /\ IF p \in events
             THEN UNCHANGED <<rows, months>>
             ELSE /\ SyncAttempt(c, p.status)
                  /\ checkout' = [checkout EXCEPT ![c] =
                        CASE p.status = "CAPTURED" -> "completed"
                          [] p.status = "UNKNOWN" -> "unknown"
                          [] p.status \in Failures -> "failed"
                          [] OTHER -> "pending"]
                  /\ sub' = Written(sub, hook[h].sub,
                                    Granted(c, p.status, hook[h].sub))
                  /\ profile' = IF p.status = "CAPTURED" THEN "active"
                                                          ELSE profile
                  /\ events' = events \cup {p}
                  /\ months' = [months EXCEPT ![c] =
                                   IF p.status = "CAPTURED" THEN @ + 1 ELSE @]
    /\ Leave(h)
    /\ UNCHANGED <<now, job, expiring, tap, calls, clashes, faults, changes>>

HandlerDies(h) ==
    /\ hook[h].at # "idle"
    /\ Fault
    /\ Leave(h)
    /\ UNCHANGED <<now, rows, job, expiring, tap, ghosts, changes>>

-----------------------------------------------------------------------------

Cycle(s) ==
    \/ Poll(s) \/ Ensure(s) \/ Check(s) \/ Send(s) \/ Call(s)
    \/ CallFails(s) \/ WriteOutcome(s) \/ ReadBack(s) \/ Record(s)

Hook(h) == Receive(h) \/ LookUp(h) \/ Insert(h) \/ Apply(h)

Next ==
    \/ Tick \/ SeeExpired \/ CommitExpired \/ Renew
    \/ \E p \in Plans : Request(p) \/ RequestFails(p)
    \/ \E p \in Plans, renew \in BOOLEAN : Subscribe(p, renew)
    \/ \E s \in {"active", "paused", "cancelled"} : SetStatus(s)
    \/ \E c \in Charges : Settle(c)
    \/ \E s \in Schedulers : Cycle(s) \/ ProfileBroken(s)
                              \/ SchedulerCrash(s)
    \/ \E h \in Handlers : Hook(h) \/ HandlerDies(h)

Spec == Init /\ [][Next]_vars

-----------------------------------------------------------------------------
(* Properties.                                                             *)

Statuses == {"pending_payment", "active", "past_due", "expired", "paused",
             "cancelled"}

TypeOK ==
    /\ now \in 0 .. MaxTime
    /\ sub # None => /\ sub.status \in Statuses /\ sub.plan \in Plans
                     /\ sub.start \in Nat /\ sub.end \in Nat
    /\ profile \in {"none", "active", "incomplete"}
    /\ attempt \in [Keys -> Final \cup {"none", "pending", "sending"}]
    /\ \A c \in Charges : lock[c] \in Handlers \cup {None}
    /\ events \subseteq posts /\ acked \subseteq Charges

\* Repeated and concurrent deliveries of a captured charge grant its month
\* once: the event recorded in the same transaction is unique.
OneMonthPerCharge == \A c \in Charges : months[c] <= 1

\* A scheduler asks Tap at most once to charge a period, whatever crashes:
\* an interrupted or ambiguous attempt is never repeated.
CallsBounded == \A k \in Keys : calls[k] <= Cardinality(Schedulers)

\* Tap hears 200 for a captured charge only if its month is granted, except
\* when webhook and scheduler inserted the charge's checkout row at once.
NoPaymentDropped ==
    \A c \in Charges :
        c \in acked => months[c] = 1 \/ c \in clashes

=============================================================================
