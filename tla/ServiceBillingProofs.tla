------------------------- MODULE ServiceBillingProofs -------------------------
(***************************************************************************)
(* Proofs about paid subscriptions, for every set of schedulers, webhook   *)
(* requests and plans, every period, lead and bound, and every way a       *)
(* charge may settle.                                                      *)
(***************************************************************************)
EXTENDS ServiceBilling, FiniteSetTheorems, TLAPS

-----------------------------------------------------------------------------
(* The shape of the state the arguments are about.                         *)

PostStatuses == {"INITIATED"} \cup Outcomes

Posts == [charge : Charges, status : PostStatuses]

Stages == {"ensure", "check", "send", "call", "unknown", "failed",
           "read back", "record"}

AttemptStatuses == Final \cup {"none", "pending", "sending"}

\* What Tap posts and what was recorded of it.
PostsOK == posts \subseteq Posts /\ events \subseteq posts

\* A scheduler that works has a period in hand.
JobsOK ==
    /\ DOMAIN job = Schedulers
    /\ \A s \in Schedulers :
          /\ DOMAIN job[s] = {"at", "key", "seen", "row"}
          /\ job[s].at \in Stages \cup {"idle"}
          /\ job[s].at # "idle" => job[s].key \in Keys

\* A webhook request that works has a post in hand.
HooksOK ==
    /\ DOMAIN hook = Handlers
    /\ \A h \in Handlers :
          /\ DOMAIN hook[h] = {"at", "post", "sub"}
          /\ hook[h].at \in {"idle", "look up", "insert", "apply"}
          /\ hook[h].at # "idle" => hook[h].post \in posts

CountsOK ==
    /\ attempt \in [Keys -> AttemptStatuses]
    /\ months \in [Charges -> Nat] /\ calls \in [Keys -> Nat]
    /\ DOMAIN charge = Charges
    /\ acked \subseteq Charges

Shape == PostsOK /\ JobsOK /\ HooksOK /\ CountsOK

LEMMA ShapeInit == Init => Shape
<1>. SUFFICES ASSUME Init PROVE Shape
  OBVIOUS
<1>1. PostsOK
  BY DEF Init, PostsOK
<1>2. JobsOK
  BY DEF Init, JobsOK, Idle
<1>3. HooksOK
  BY DEF Init, HooksOK
<1>4. CountsOK
  BY DEF Init, CountsOK, AttemptStatuses
<1>. QED
  BY <1>1, <1>2, <1>3, <1>4 DEF Shape

\* A scheduler goes to another stage with the same period, or rests.
LEMMA GotoKeepsJobs ==
    ASSUME JobsOK, NEW s \in Schedulers, NEW l \in Stages \cup {"idle"},
           job[s].at # "idle", Goto(s, l)
    PROVE  JobsOK'
  BY DEF JobsOK, Goto, Idle, Stages

\* Tap makes a charge or settles one: posts only grow.
LEMMA CreateKeepsPosts ==
    ASSUME Shape, NEW c \in Charges, NEW p, CreateCharge(c, p),
           events' = events, hook' = hook
    PROVE  PostsOK' /\ HooksOK' /\ DOMAIN charge' = Charges
<1>. posts' = posts \/ posts' = posts \cup {[charge |-> c,
                                             status |-> "INITIATED"]}
  BY DEF CreateCharge, tap
<1>. DOMAIN charge' = Charges
  BY DEF CreateCharge, tap, Shape, CountsOK
<1>. posts' \subseteq Posts /\ posts \subseteq posts'
  BY DEF Shape, PostsOK, Posts, PostStatuses
<1>. QED
  BY DEF Shape, PostsOK, HooksOK

LEMMA LeaveKeepsHooks ==
    ASSUME HooksOK, NEW h \in Handlers, Leave(h), posts \subseteq posts'
    PROVE  HooksOK'
  BY DEF HooksOK, Leave

LEMMA OneHookMoves ==
    ASSUME HooksOK, posts' = posts, NEW h \in Handlers,
           NEW r, hook' = [hook EXCEPT ![h] = r],
           DOMAIN r = {"at", "post", "sub"},
           r.at \in {"look up", "insert", "apply"}, r.post \in posts
    PROVE  HooksOK'
  BY DEF HooksOK

LEMMA ShapeStep == Shape /\ [Next]_vars => Shape'
<1>. SUFFICES ASSUME Shape, [Next]_vars PROVE Shape'
  OBVIOUS
<1>. USE DEF Shape
<1>1. ASSUME UNCHANGED <<attempt, events, job, hook, posts, calls, months,
                         acked, charge>>
      PROVE Shape'
  BY <1>1 DEF PostsOK, JobsOK, HooksOK, CountsOK
<1>2. CASE Tick \/ SeeExpired \/ CommitExpired \/ Renew
  BY <1>1, <1>2 DEF Tick, SeeExpired, CommitExpired, Renew, Admin, rows, tap,
                    ghosts
<1>3. ASSUME NEW p \in Plans, Request(p) \/ RequestFails(p) PROVE Shape'
  <2>1. p \in Charges
    BY DEF Charges
  <2>2. CreateCharge(p, p) \/ UNCHANGED tap
    BY <1>3 DEF Request, RequestFails, CreateOnlineCheckout
  <2>3. UNCHANGED <<attempt, events, job, hook, ghosts>>
    BY <1>3 DEF Request, RequestFails, rows
  <2>4. CASE UNCHANGED tap
    BY <1>1, <2>3, <2>4 DEF tap, ghosts
  <2>5. CASE CreateCharge(p, p)
    BY <2>1, <2>3, <2>5, CreateKeepsPosts DEF JobsOK, CountsOK, ghosts
  <2>. QED
    BY <2>2, <2>4, <2>5
<1>4. ASSUME NEW p \in Plans, NEW renew \in BOOLEAN, Subscribe(p, renew)
      PROVE Shape'
  <2>. Admin
    BY <1>4 DEF Subscribe
  <2>. QED
    BY <1>1 DEF Admin, tap, ghosts
<1>5. ASSUME NEW s \in {"active", "paused", "cancelled"}, SetStatus(s)
      PROVE Shape'
  <2>. Admin
    BY <1>5 DEF SetStatus
  <2>. QED
    BY <1>1 DEF Admin, tap, ghosts
<1>6. ASSUME NEW c \in Charges, Settle(c) PROVE Shape'
  <2>1. PICK s \in Outcomes : posts' = posts \cup {[charge |-> c,
                                                    status |-> s]}
    BY <1>6 DEF Settle
  <2>2. posts' \subseteq Posts
    BY <2>1 DEF PostsOK, Posts, PostStatuses
  <2>3. UNCHANGED <<attempt, events, job, hook, ghosts>>
    BY <1>6 DEF Settle, rows
  <2>4. DOMAIN charge' = Charges
    BY <1>6 DEF Settle, CountsOK
  <2>. QED
    BY <2>1, <2>2, <2>3, <2>4 DEF PostsOK, JobsOK, HooksOK, CountsOK, ghosts
<1>7. ASSUME NEW s \in Schedulers,
             Cycle(s) \/ ProfileBroken(s) \/ SchedulerCrash(s)
      PROVE Shape'
  <2>1. UNCHANGED <<months, acked, events, hook>>
    BY <1>7 DEF Cycle, ProfileBroken, SchedulerCrash, Poll, Ensure, Check,
                Send, Call, CallFails, WriteOutcome, ReadBack, Record, rows,
                ghosts
  <2>2. ASSUME UNCHANGED <<calls, tap>>, JobsOK',
               attempt' \in [Keys -> AttemptStatuses]
        PROVE Shape'
    BY <2>1, <2>2 DEF PostsOK, HooksOK, CountsOK, tap
  <2>3. CASE Poll(s)
    BY <2>2, <2>3 DEF Poll, JobsOK, CountsOK, rows, ghosts, Idle, Stages
  <2>4. CASE Ensure(s)
    <3>1. CASE Goto(s, "idle") /\ UNCHANGED attempt
      BY <2>2, <2>4, <3>1, GotoKeepsJobs DEF Ensure, CountsOK, ghosts
    <3>2. ASSUME NEW k \in Keys,
                 attempt' = [attempt EXCEPT ![k] =
                               IF @ = "none" THEN "pending" ELSE @],
                 job' = [job EXCEPT ![s].at = "check", ![s].key = k]
          PROVE Shape'
      <4>1. JobsOK'
        BY <3>2 DEF JobsOK, Stages
      <4>2. attempt' \in [Keys -> AttemptStatuses]
        BY <3>2 DEF CountsOK, AttemptStatuses
      <4>. QED
        BY <2>2, <2>4, <4>1, <4>2 DEF Ensure, ghosts
    <3>. QED
      BY <2>4, <3>1, <3>2 DEF Ensure
  <2>5. CASE Check(s)
    <3>1. PICK l \in {"send", "unknown", "idle"} : Goto(s, l)
      BY <2>5 DEF Check
    <3>. QED
      BY <2>2, <2>5, <3>1, GotoKeepsJobs
         DEF Check, CountsOK, rows, ghosts, Stages
  <2>6. CASE Send(s)
    <3>1. job[s].key \in Keys
      BY <2>6 DEF Send, JobsOK
    <3>. QED
      BY <2>2, <2>6, <3>1, GotoKeepsJobs
         DEF Send, CountsOK, AttemptStatuses, ghosts, Stages
  <2>7. CASE Call(s) \/ CallFails(s)
    <3>1. job[s].at = "call" /\ job[s].key \in Keys
          /\ job[s].key \in Charges
      BY <2>7 DEF Call, CallFails, JobsOK, Charges
    <3>2. CreateCharge(job[s].key, sub.plan) \/ UNCHANGED tap
      BY <2>7 DEF Call, CallFails
    <3>3. PostsOK' /\ HooksOK' /\ DOMAIN charge' = Charges
      BY <2>1, <3>1, <3>2, CreateKeepsPosts
         DEF tap, PostsOK, HooksOK, CountsOK
    <3>4. \E l \in Stages \cup {"idle"} : Goto(s, l)
      BY <2>7 DEF Call, CallFails, Stages
    <3>5. JobsOK'
      BY <3>1, <3>4, GotoKeepsJobs
    <3>6. CountsOK'
      <4>1. calls' = [calls EXCEPT ![job[s].key] = @ + 1]
            /\ UNCHANGED attempt
        BY <2>7 DEF Call, CallFails, rows
      <4>. QED
        BY <2>1, <3>1, <3>3, <4>1 DEF CountsOK
    <3>. QED
      BY <3>3, <3>5, <3>6
  <2>8. CASE WriteOutcome(s)
    <3>1. job[s].key \in Keys
      BY <2>8 DEF WriteOutcome, JobsOK
    <3>. QED
      BY <2>2, <2>8, <3>1, GotoKeepsJobs
         DEF WriteOutcome, CountsOK, AttemptStatuses, Final, ghosts
  <2>9. CASE ReadBack(s)
    BY <2>2, <2>9 DEF ReadBack, JobsOK, CountsOK, rows, ghosts, Stages
  <2>10. CASE Record(s)
    <3>1. job[s].key \in Keys
      BY <2>10 DEF Record, JobsOK
    <3>2. attempt' \in [Keys -> AttemptStatuses]
      BY <2>10, <3>1 DEF Record, CountsOK, AttemptStatuses, Final
    <3>. QED
      BY <2>2, <2>10, <3>2, GotoKeepsJobs DEF Record, ghosts
  <2>11. CASE ProfileBroken(s) \/ SchedulerCrash(s)
    BY <2>2, <2>11, GotoKeepsJobs
       DEF ProfileBroken, SchedulerCrash, CountsOK, rows, ghosts
  <2>. QED
    BY <1>7, <2>3, <2>4, <2>5, <2>6, <2>7, <2>8, <2>9, <2>10, <2>11
       DEF Cycle
<1>8. ASSUME NEW h \in Handlers, Hook(h) \/ HandlerDies(h) PROVE Shape'
  <2>1. UNCHANGED <<job, posts, charge, calls>>
    BY <1>8 DEF Hook, HandlerDies, Receive, LookUp, Insert, Apply, tap,
                ghosts
  <2>2. ASSUME UNCHANGED <<attempt, events, months>>, acked' \subseteq Charges,
               HooksOK'
        PROVE Shape'
    BY <2>1, <2>2 DEF PostsOK, JobsOK, CountsOK
  <2>3. ASSUME NEW p \in posts, Answer200(p) PROVE acked' \subseteq Charges
    BY <2>3 DEF Answer200, PostsOK, Posts, CountsOK
  <2>4. CASE Receive(h)
    <3>1. PICK p \in posts :
             IF p \in events
             THEN Answer200(p) /\ UNCHANGED hook
             ELSE /\ hook' = [hook EXCEPT ![h].at = "look up", ![h].post = p]
                  /\ UNCHANGED acked
      BY <2>4 DEF Receive
    <3>2. HooksOK'
      <4>1. CASE UNCHANGED hook
        BY <2>1, <4>1 DEF HooksOK
      <4>2. CASE hook' = [hook EXCEPT ![h].at = "look up", ![h].post = p]
        <5>. DEFINE r == [hook[h] EXCEPT !.at = "look up", !.post = p]
        <5>1. hook' = [hook EXCEPT ![h] = r]
          BY <4>2 DEF HooksOK
        <5>2. DOMAIN r = {"at", "post", "sub"} /\ r.at = "look up"
              /\ r.post = p
          BY DEF HooksOK
        <5>. QED
          BY <2>1, <5>1, <5>2, OneHookMoves
      <4>. QED
        BY <3>1, <4>1, <4>2
    <3>3. acked' \subseteq Charges
      BY <2>3, <3>1 DEF CountsOK
    <3>. QED
      BY <2>2, <2>4, <3>2, <3>3 DEF Receive, rows
  <2>5. CASE LookUp(h)
    <3>1. PICK r \in {[hook[h] EXCEPT !.at = "insert"],
                      [hook[h] EXCEPT !.at = "apply", !.sub = sub]} :
             hook' = [hook EXCEPT ![h] = r]
      BY <2>5 DEF LookUp, HooksOK
    <3>2. /\ DOMAIN r = {"at", "post", "sub"}
          /\ r.at \in {"insert", "apply"} /\ r.post \in posts
      BY <2>5 DEF LookUp, HooksOK
    <3>3. HooksOK'
      BY <2>1, <3>1, <3>2, OneHookMoves
    <3>. QED
      BY <2>2, <2>5, <3>3 DEF LookUp, CountsOK, rows, ghosts
  <2>6. CASE Insert(h)
    <3>1. hook[h].post \in posts
      BY <2>6 DEF Insert, HooksOK
    <3>2. \/ Leave(h)
          \/ hook' = [hook EXCEPT ![h].at = "apply", ![h].sub = sub]
      BY <2>6 DEF Insert
    <3>4. HooksOK'
      <4>1. CASE Leave(h)
        BY <2>1, <4>1, LeaveKeepsHooks
      <4>2. CASE hook' = [hook EXCEPT ![h].at = "apply", ![h].sub = sub]
        BY <2>1, <2>6, <4>2 DEF Insert, HooksOK
      <4>. QED
        BY <3>2, <4>1, <4>2
    <3>3. acked' \subseteq Charges
      BY <2>3, <2>6, <3>1 DEF Insert, CountsOK
    <3>. QED
      BY <2>2, <2>6, <3>3, <3>4 DEF Insert, rows
  <2>7. CASE Apply(h)
    <3>. DEFINE p == hook[h].post
    <3>1. p \in posts /\ p.charge \in Charges
      BY <2>7 DEF Apply, HooksOK, PostsOK, Posts
    <3>2. HooksOK'
      BY <2>1, <2>7, LeaveKeepsHooks DEF Apply
    <3>3. acked' \subseteq Charges
      BY <2>3, <2>7, <3>1 DEF Apply
    <3>4. CASE p \in events
      BY <2>2, <2>7, <3>2, <3>3, <3>4 DEF Apply, rows
    <3>5. CASE p \notin events
      <4>1. events' \subseteq posts'
        BY <2>1, <2>7, <3>1, <3>5 DEF Apply, PostsOK
      <4>2. attempt' \in [Keys -> AttemptStatuses]
        BY <2>7, <3>1, <3>5
           DEF Apply, SyncAttempt, Renewal, CountsOK, AttemptStatuses, Final
      <4>3. months' \in [Charges -> Nat]
        BY <2>7, <3>1, <3>5 DEF Apply, CountsOK
      <4>. QED
        BY <2>1, <3>2, <3>3, <4>1, <4>2, <4>3 DEF PostsOK, JobsOK, CountsOK
    <3>. QED
      BY <3>4, <3>5
  <2>8. CASE HandlerDies(h)
    BY <2>1, <2>2, <2>8, LeaveKeepsHooks
       DEF HandlerDies, CountsOK, rows, ghosts
  <2>. QED
    BY <1>8, <2>4, <2>5, <2>6, <2>7, <2>8 DEF Hook
<1>9. CASE UNCHANGED vars
  BY <1>1, <1>9 DEF vars, rows, tap, ghosts
<1>. QED
  BY <1>2, <1>3, <1>4, <1>5, <1>6, <1>7, <1>8, <1>9 DEF Next

LEMMA ShapeInvariant == Spec => []Shape
  BY ShapeInit, ShapeStep, PTL DEF Spec

-----------------------------------------------------------------------------
(* One month for each captured charge.                                     *)

Captured(c) == [charge |-> c, status |-> "CAPTURED"]

\* A month was granted exactly if the capture is recorded, and Tap heard 200
\* only then, or when the charge's row was inserted twice at once.
MonthInv ==
    /\ \A c \in Charges :
          months[c] = IF Captured(c) \in events THEN 1 ELSE 0
    /\ \A c \in acked : Captured(c) \in events \/ c \in clashes

LEMMA MonthInit == Init => MonthInv
  BY DEF Init, MonthInv

\* What is recorded or granted changes in Apply alone.
LEMMA OnlyApplyGrants ==
    ASSUME Shape, [Next]_vars,
           ~ \E h \in Handlers : Receive(h) \/ Insert(h) \/ Apply(h)
    PROVE  UNCHANGED <<events, months, acked, clashes>>
  BY DEF Next, Cycle, Hook, vars, Tick, SeeExpired, CommitExpired, Renew,
         Admin, Request, RequestFails, Subscribe, SetStatus, Settle, Poll,
         Ensure, Check, Send, Call, CallFails, WriteOutcome, ReadBack, Record,
         ProfileBroken, SchedulerCrash, LookUp, HandlerDies, rows, ghosts

LEMMA MonthStep == Shape /\ MonthInv /\ [Next]_vars => MonthInv'
<1>. SUFFICES ASSUME Shape, MonthInv, [Next]_vars PROVE MonthInv'
  OBVIOUS
<1>1. CASE ~ \E h \in Handlers : Receive(h) \/ Insert(h) \/ Apply(h)
  BY <1>1, OnlyApplyGrants DEF MonthInv, Captured
<1>2. ASSUME NEW p \in Posts, p.status = "CAPTURED"
      PROVE p = Captured(p.charge)
  BY <1>2 DEF Posts, Captured
<1>3. ASSUME NEW h \in Handlers, Receive(h) PROVE MonthInv'
  <2>1. PICK p \in posts : (p \in events /\ Answer200(p)) \/ UNCHANGED acked
    BY <1>3 DEF Receive
  <2>2. UNCHANGED <<events, months, clashes>>
    BY <1>3 DEF Receive, rows
  <2>3. acked' \subseteq acked \cup {c \in Charges : Captured(c) \in events}
    BY <1>2, <2>1 DEF Answer200, Shape, PostsOK, Posts
  <2>. QED
    BY <2>2, <2>3 DEF MonthInv, Captured
<1>4. ASSUME NEW h \in Handlers, Insert(h) PROVE MonthInv'
  <2>1. UNCHANGED <<events, months>>
    BY <1>4 DEF Insert, rows
  <2>2. \/ UNCHANGED <<acked, clashes>>
        \/ /\ acked' \subseteq acked \cup {hook[h].post.charge}
           /\ clashes' = clashes \cup {hook[h].post.charge}
    BY <1>4 DEF Insert, Answer200
  <2>. QED
    BY <2>1, <2>2 DEF MonthInv, Captured
<1>5. ASSUME NEW h \in Handlers, Apply(h) PROVE MonthInv'
  <2>. DEFINE p == hook[h].post
  <2>1. p \in Posts /\ p.charge \in Charges
    BY <1>5 DEF Apply, Shape, HooksOK, PostsOK, Posts
  <2>2. Answer200(p) /\ UNCHANGED clashes
    BY <1>5 DEF Apply
  <2>3. CASE p \in events
    <3>1. UNCHANGED <<events, months>>
      BY <1>5, <2>3 DEF Apply, rows
    <3>. QED
      BY <1>2, <2>1, <2>2, <2>3, <3>1 DEF MonthInv, Answer200, Captured
  <2>4. CASE p \notin events
    <3>1. /\ events' = events \cup {p}
          /\ months' = [months EXCEPT ![p.charge] =
                           IF p.status = "CAPTURED" THEN @ + 1 ELSE @]
      BY <1>5, <2>4 DEF Apply
    <3>2. ASSUME NEW c \in Charges
          PROVE months'[c] = IF Captured(c) \in events' THEN 1 ELSE 0
      <4>1. CASE p = Captured(c)
        BY <2>1, <2>4, <3>1, <4>1
           DEF MonthInv, Captured, Shape, CountsOK
      <4>2. CASE p # Captured(c)
        <5>1. ~ (p.charge = c /\ p.status = "CAPTURED")
          BY <1>2, <2>1, <4>2
        <5>2. months'[c] = months[c]
          BY <2>1, <3>1, <5>1 DEF Shape, CountsOK
        <5>. QED
          BY <3>1, <4>2, <5>2 DEF MonthInv
      <4>. QED
        BY <4>1, <4>2
    <3>3. ASSUME NEW c \in acked'
          PROVE Captured(c) \in events' \/ c \in clashes'
      <4>1. CASE c \in acked
        BY <2>2, <3>1, <4>1 DEF MonthInv
      <4>2. CASE c \notin acked
        BY <1>2, <2>1, <2>2, <3>1, <3>3, <4>2 DEF Answer200
      <4>. QED
        BY <4>1, <4>2
    <3>. QED
      BY <3>2, <3>3 DEF MonthInv, Captured
  <2>. QED
    BY <2>3, <2>4
<1>. QED
  BY <1>1, <1>3, <1>4, <1>5

LEMMA MonthInvariant == Spec => []MonthInv
<1>1. Shape /\ MonthInv /\ [Next]_vars => Shape' /\ MonthInv'
  BY ShapeStep, MonthStep
<1>. QED
  BY <1>1, ShapeInit, MonthInit, PTL DEF Spec

\* However often and in whatever order Tap delivers the webhooks of a
\* captured charge, and whoever dies while handling one, it grants one month
\* (api/billing_webhooks.py).
THEOREM CapturedChargeGrantsOneMonth == Spec => []OneMonthPerCharge
<1>1. MonthInv => OneMonthPerCharge
  BY DEF MonthInv, OneMonthPerCharge
<1>. QED
  BY <1>1, MonthInvariant, PTL

\* Tap, who repeats a webhook until it is answered 200, hears 200 only after
\* the month was granted, but for the charges whose checkout row webhook and
\* scheduler inserted at once (api/billing_webhooks.py).
THEOREM NoCapturedPaymentIsDropped == Spec => []NoPaymentDropped
<1>1. MonthInv => NoPaymentDropped
  BY DEF MonthInv, NoPaymentDropped
<1>. QED
  BY <1>1, MonthInvariant, PTL

-----------------------------------------------------------------------------
(* At most one call of each scheduler for a period.                        *)

\* The schedulers that found the attempt pending and have not called yet.
Senders(k) == {s \in Schedulers : job[s].at \in {"send", "call"}
                                  /\ job[s].key = k}

Fresh(k) == attempt[k] \in {"none", "pending"}

\* An attempt that once left "pending" never returns to it: nobody called
\* while it was pending, and no scheduler joins the senders afterwards.
CallInv ==
    \A k \in Keys :
        /\ Fresh(k) => /\ calls[k] = 0
                       /\ \A s \in Senders(k) : job[s].at = "send"
        /\ calls[k] + Cardinality(Senders(k)) <= Cardinality(Schedulers)

LEMMA SendersFinite ==
    ASSUME NEW k
    PROVE  /\ Senders(k) \subseteq Schedulers /\ IsFiniteSet(Senders(k))
           /\ Cardinality(Senders(k)) \in Nat
           /\ Cardinality(Schedulers) \in Nat
           /\ Cardinality(Senders(k)) <= Cardinality(Schedulers)
<1>1. Senders(k) \subseteq Schedulers /\ IsFiniteSet(Schedulers)
  BY BillingAssumption DEF Senders
<1>. QED
  BY <1>1, FS_Subset, FS_CardinalityType

LEMMA CallInit == Init => CallInv
<1>. SUFFICES ASSUME Init, NEW k \in Keys
              PROVE  /\ calls[k] = 0 /\ Senders(k) = {}
  BY SendersFinite, FS_EmptySet DEF CallInv
<1>. QED
  BY DEF Init, Idle, Senders

\* A step that lets nobody join the senders of k, and calls only in exchange
\* for a sender, keeps the bound.
LEMMA FewerSenders ==
    ASSUME Shape, CallInv, NEW k \in Keys,
           Senders(k)' \subseteq Senders(k), calls'[k] = calls[k]
    PROVE  calls'[k] + Cardinality(Senders(k)') <= Cardinality(Schedulers)
<1>1. Cardinality(Senders(k)') <= Cardinality(Senders(k))
      /\ Cardinality(Senders(k)') \in Nat
  BY SendersFinite, FS_Subset, FS_CardinalityType
<1>2. calls[k] \in Nat
  BY DEF Shape, CountsOK
<1>. QED
  BY <1>1, <1>2, SendersFinite DEF CallInv

\* Nobody leaves "pending" for "none" or returns to either.
LEMMA FreshOnlyEnds ==
    ASSUME Shape, [Next]_vars, NEW k \in Keys, Fresh(k)'
    PROVE  Fresh(k)
<1>1. CASE UNCHANGED attempt
  BY <1>1 DEF Fresh
<1>2. ASSUME NEW s \in Schedulers, Ensure(s) PROVE Fresh(k)
  BY <1>2 DEF Ensure, Fresh, Shape, CountsOK
<1>3. ASSUME NEW s \in Schedulers, Send(s) \/ WriteOutcome(s) \/ Record(s)
      PROVE Fresh(k)
  <2>1. PICK a : /\ attempt' = [attempt EXCEPT ![job[s].key] = a]
                 /\ a \in {"sending", "unknown", "failed", "submitted",
                           attempt[job[s].key]}
    BY <1>3 DEF Send, WriteOutcome, Record, Shape, CountsOK
  <2>. QED
    BY <2>1 DEF Fresh, Shape, CountsOK
<1>4. ASSUME NEW h \in Handlers, Apply(h), ~ UNCHANGED attempt PROVE Fresh(k)
  BY <1>4 DEF Apply, SyncAttempt, Fresh, Shape, CountsOK, rows
<1>5. \/ UNCHANGED attempt
      \/ \E s \in Schedulers : Ensure(s) \/ Send(s) \/ WriteOutcome(s)
                                 \/ Record(s)
      \/ \E h \in Handlers : Apply(h)
  BY DEF Next, Cycle, Hook, vars, Tick, SeeExpired, CommitExpired, Renew,
         Admin, Request, RequestFails, Subscribe, SetStatus, Settle, Poll,
         Check, Call, CallFails, ReadBack, ProfileBroken, SchedulerCrash,
         Receive, LookUp, Insert, HandlerDies, rows
<1>. QED
  BY <1>1, <1>2, <1>3, <1>4, <1>5

LEMMA CallStep == Shape /\ CallInv /\ [Next]_vars => CallInv'
<1>. SUFFICES ASSUME Shape, CallInv, [Next]_vars, NEW k \in Keys
              PROVE  /\ Fresh(k)' =>
                          /\ calls'[k] = 0
                          /\ \A s \in Senders(k)' : job'[s].at = "send"
                     /\ calls'[k] + Cardinality(Senders(k)')
                          <= Cardinality(Schedulers)
  BY DEF CallInv
<1>. DEFINE Goal ==
              /\ Fresh(k)' => /\ calls'[k] = 0
                              /\ \A s \in Senders(k)' : job'[s].at = "send"
              /\ calls'[k] + Cardinality(Senders(k)')
                   <= Cardinality(Schedulers)
<1>1. ASSUME Senders(k)' \subseteq Senders(k), calls'[k] = calls[k],
             \A s \in Senders(k)' : job'[s].at = job[s].at
      PROVE  Goal
  BY <1>1, FewerSenders, FreshOnlyEnds DEF CallInv
<1>2. CASE UNCHANGED <<job, calls>>
  BY <1>1, <1>2 DEF Senders
<1>3. ASSUME NEW s \in Schedulers, UNCHANGED calls,
             NEW l \in (Stages \cup {"idle"}) \ {"send", "call"},
             job'[s].at = l, \A t \in Schedulers \ {s} : job'[t] = job[t]
      PROVE Goal
  BY <1>1, <1>3 DEF Senders
<1>4. ASSUME NEW s \in Schedulers, Check(s) PROVE Goal
  <2>1. CASE attempt[job[s].key] # "pending"
    <3>1. \E l \in {"unknown", "idle"} : Goto(s, l)
      BY <1>4, <2>1 DEF Check
    <3>2. UNCHANGED calls
      BY <1>4 DEF Check, ghosts
    <3>3. PICK l \in {"unknown", "idle"} : Goto(s, l)
      BY <3>1
    <3>4. job'[s].at = l /\ \A t \in Schedulers \ {s} : job'[t] = job[t]
      BY <3>3 DEF Goto, Idle, Shape, JobsOK
    <3>. QED
      BY <1>3, <3>2, <3>4 DEF Stages
  <2>2. CASE attempt[job[s].key] = "pending" /\ job[s].key # k
    <3>1. Senders(k)' = Senders(k) /\ UNCHANGED calls
      BY <1>4, <2>2 DEF Check, Goto, Senders, Shape, JobsOK, ghosts
    <3>2. \A t \in Senders(k)' : job'[t].at = job[t].at
      BY <1>4, <2>2 DEF Check, Goto, Senders, Shape, JobsOK
    <3>. QED
      BY <1>1, <3>1, <3>2
  <2>3. CASE attempt[job[s].key] = "pending" /\ job[s].key = k
    <3>1. Fresh(k) /\ UNCHANGED calls /\ Goto(s, "send")
      BY <1>4, <2>3 DEF Fresh, Check, ghosts
    <3>2. calls'[k] = 0
      BY <3>1 DEF CallInv
    <3>3. \A t \in Senders(k)' : job'[t].at = "send"
      BY <3>1 DEF CallInv, Goto, Senders, Shape, JobsOK
    <3>4. Cardinality(Senders(k)') <= Cardinality(Schedulers)
          /\ Cardinality(Senders(k)') \in Nat
      <4>1. Senders(k)' \subseteq Schedulers
        BY DEF Senders
      <4>. QED
        BY <4>1, BillingAssumption, FS_Subset, FS_CardinalityType
    <3>. QED
      BY <3>2, <3>3, <3>4
  <2>. QED
    BY <2>1, <2>2, <2>3
<1>5. ASSUME NEW s \in Schedulers, Send(s) PROVE Goal
  <2>1. Goto(s, "call") /\ UNCHANGED calls /\ job[s].at = "send"
        /\ job[s].key \in Keys
        /\ attempt' = [attempt EXCEPT ![job[s].key] = "sending"]
    BY <1>5 DEF Send, ghosts, Shape, JobsOK
  <2>2. Senders(k)' = Senders(k)
    BY <2>1 DEF Goto, Senders, Shape, JobsOK
  <2>3. Fresh(k)' => job[s].key # k
    BY <2>1 DEF Fresh, Shape, CountsOK
  <2>4. job[s].key # k => \A t \in Senders(k)' : job'[t].at = job[t].at
    BY <2>1 DEF Goto, Senders, Shape, JobsOK
  <2>. QED
    BY <2>1, <2>2, <2>3, <2>4, FewerSenders, FreshOnlyEnds DEF CallInv
<1>6. ASSUME NEW s \in Schedulers, Call(s) \/ CallFails(s) PROVE Goal
  <2>1. /\ job[s].at = "call" /\ job[s].key \in Keys
        /\ calls' = [calls EXCEPT ![job[s].key] = @ + 1]
        /\ UNCHANGED attempt
        /\ \E l \in {"read back", "unknown", "failed"} : Goto(s, l)
    BY <1>6 DEF Call, CallFails, Shape, JobsOK, rows
  <2>2. Senders(k)' = Senders(k) \ {s}
        /\ \A t \in Senders(k)' : job'[t].at = job[t].at
    BY <2>1 DEF Goto, Senders, Shape, JobsOK
  <2>3. CASE job[s].key # k
    BY <1>1, <2>1, <2>2, <2>3 DEF Shape, CountsOK
  <2>4. CASE job[s].key = k
    <3>1. s \in Senders(k)
      BY <2>1, <2>4 DEF Senders
    <3>2. ~ Fresh(k)'
      BY <2>1, <3>1, FreshOnlyEnds DEF CallInv
    <3>3. Cardinality(Senders(k)') = Cardinality(Senders(k)) - 1
      BY <2>2, <3>1, SendersFinite, FS_RemoveElement
    <3>4. calls'[k] = calls[k] + 1 /\ calls[k] \in Nat
      BY <2>1, <2>4 DEF Shape, CountsOK
    <3>. QED
      BY <3>2, <3>3, <3>4, SendersFinite DEF CallInv
  <2>. QED
    BY <2>3, <2>4
<1>7. ASSUME NEW s \in Schedulers,
             \/ Poll(s) \/ Ensure(s) \/ WriteOutcome(s) \/ ReadBack(s)
             \/ Record(s) \/ ProfileBroken(s) \/ SchedulerCrash(s)
      PROVE Goal
  <2>1. UNCHANGED calls
    BY <1>7 DEF Poll, Ensure, WriteOutcome, ReadBack, Record, ProfileBroken,
                SchedulerCrash, ghosts
  <2>2. job'[s].at \in {"idle", "ensure", "check", "record"}
    <3>1. CASE Goto(s, "idle")
      BY <3>1 DEF Goto, Idle, Shape, JobsOK
    <3>2. CASE Poll(s) \/ ReadBack(s)
      BY <3>2 DEF Poll, ReadBack, Shape, JobsOK, Idle
    <3>3. CASE Ensure(s) /\ ~ Goto(s, "idle")
      BY <3>3 DEF Ensure, Shape, JobsOK
    <3>. QED
      BY <1>7, <3>1, <3>2, <3>3 DEF WriteOutcome, Record, ProfileBroken,
                                    SchedulerCrash
  <2>3. ASSUME NEW t \in Schedulers \ {s} PROVE job'[t] = job[t]
    BY <1>7 DEF Poll, Ensure, WriteOutcome, ReadBack, Record, ProfileBroken,
                SchedulerCrash, Goto, Idle, Shape, JobsOK
  <2>. QED
    BY <1>3, <2>1, <2>2, <2>3 DEF Stages
<1>8. \/ UNCHANGED <<job, calls>>
      \/ \E s \in Schedulers : Cycle(s) \/ ProfileBroken(s)
                                 \/ SchedulerCrash(s)
  BY DEF Next, Hook, vars, Tick, SeeExpired, CommitExpired, Renew,
         Admin, Request, RequestFails, Subscribe, SetStatus, Settle,
         Receive, LookUp, Insert, Apply, HandlerDies, ghosts
<1>. QED
  BY <1>2, <1>4, <1>5, <1>6, <1>7, <1>8 DEF Cycle

\* However the schedulers crash or lose Tap's answer, each asks at most once
\* to charge a period (modules/billing/renewal.py).
THEOREM CallsAreBounded == Spec => []CallsBounded
<1>1. Shape /\ CallInv /\ [Next]_vars => Shape' /\ CallInv'
  BY ShapeStep, CallStep
<1>2. Shape /\ CallInv => CallsBounded
  BY SendersFinite DEF CallInv, CallsBounded, Shape, CountsOK
<1>. QED
  BY <1>1, <1>2, ShapeInit, CallInit, PTL DEF Spec
=============================================================================
