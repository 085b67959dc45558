----------------------------- MODULE GatewayTurn -----------------------------
(***************************************************************************)
(* One contact's conversation on a channel that Xvond runs through the     *)
(* workflow plane: the messages the workflow posts, the AI's turns, the    *)
(* replies of a colleague in the Inbox, and the delivery of both           *)
(* (api/internal_channel_gateway.py, core/agent_runtime.py,                *)
(* api/customer_inbox.py, modules/channels/managed_delivery.py,            *)
(* api/admin_operations.py).                                               *)
(*                                                                         *)
(* A message has no claim of its own, as WhatsApp's have: a post looks for *)
(* the message's row, takes the next row of the conversation for its       *)
(* answer, and otherwise runs a turn.  A turn locks the conversation's row *)
(* until it commits; a tool that commits gives the lock up in the middle.  *)
(* A delivery's row is locked too, but what its transaction decides on is  *)
(* the copy that it loaded before it waited for the lock, and a write      *)
(* sends the columns that differ from that copy.                           *)
(* A row's place in the log is its id, which PostgreSQL gives on insertion *)
(* and not on commit.                                                      *)
(*                                                                         *)
(* The workflow may post a message any number of times, and a post of a    *)
(* message that a human is to answer, and is stored, changes nothing.      *)
(* Contents are identities: a second post has the text of the first.       *)
(***************************************************************************)
EXTENDS Naturals, Sequences, FiniteSets

CONSTANTS Messages,    \* of the customer
          Replies,     \* of a colleague, by client_message_id
          Requests,    \* concurrent HTTP requests
          Nobody, NoRow,
          MaxBegun,    \* bound: requests ever begun
          MaxControls, \* bound: takeovers
          MaxCrashes   \* bound: requests that die

ASSUME GatewayAssumption ==
    /\ Messages \cap Replies = {}
    /\ Nobody \notin Requests
    /\ {MaxBegun, MaxControls, MaxCrashes} \subseteq Nat

Keys == Messages \cup Replies \* each has one idempotency key

VARIABLES log,       \* AIMessage rows by id; by: who has not committed it
          lock,      \* AIConversation FOR UPDATE
          handoff,   \* there is an active HumanHandoff
          req,       \* what each request does, for which key, with which row
          delivery,  \* ManagedChannelOutboundDelivery, by key
          flying,    \* calls nobody waits for that may still be carried out
          copies,    \* messages the provider sent the customer
          verified,  \* customer_roundtrip_verified_at
          apart,     \* history: messages not stored together with an answer
          misjudged, \* history: keys a person reconciled wrongly or too soon
          outdated,  \* history: keys an attempt thought not begun, although
                     \* another had begun them
          begun, controls, crashes

bounds == <<begun, controls, crashes>>
vars == <<log, lock, handoff, req, delivery, flying, copies, verified, apart,
          misjudged, outdated, bounds>>

Statuses == {"pending", "sending", "accepted", "unknown", "failed"}

\* seen: the status in the copy of the delivery row that the request loaded.
NewRequest(pc, k, id) ==
    [pc |-> pc, key |-> k, id |-> id, sent |-> FALSE, seen |-> "none"]
Idle == NewRequest("idle", Nobody, 0)

ASSUME NoRowAssumption == NoRow \notin [status : Statuses, id : Nat]

\* FOR UPDATE waits for the lock; so does the foreign key of a new message.
Free(r) == lock \in {r, Nobody}

\* The committed rows.
Rows == {i \in DOMAIN log : log[i].role # "gone" /\ log[i].by = Nobody}

\* The row of a message or reply, by its source_key.
Sources(role, k) == {i \in Rows : log[i].role = role /\ log[i].of = k}

Later(i) == {j \in Rows : j > i}

\* Mutant: the next answer, behind whatever the customer said in between.
NextAnswer(m) ==
    {j \in DOMAIN log : \E i \in Sources("user", m) :
        /\ j \in Later(i) /\ log[j].role = "assistant"
        /\ \A l \in Later(i) : log[l].role = "assistant" => j <= l}

\* _existing_reply: the next row, if it is an answer.
ExistingReply(m) ==
    {j \in DOMAIN log : \E i \in Sources("user", m) :
        /\ j \in Later(i) /\ log[j].role = "assistant"
        /\ \A l \in Later(i) : j <= l}

Init ==
    /\ log = <<>> /\ lock = Nobody /\ handoff = FALSE
    /\ req = [r \in Requests |-> Idle]
    /\ delivery = [k \in Keys |-> NoRow]
    /\ flying = [k \in Keys |-> 0] /\ copies = [k \in Keys |-> 0]
    /\ verified = FALSE /\ apart = {} /\ misjudged = {} /\ outdated = {}
    /\ begun = 0 /\ controls = 0 /\ crashes = 0

-----------------------------------------------------------------------------
(* Steps of requests.                                                      *)

Goes(r, pc) == req' = [req EXCEPT ![r].pc = pc]
Ends(r) == req' = [req EXCEPT ![r] = Idle]

Begins(r, pc, k, id) ==
    /\ req[r].pc = "idle"
    /\ begun < MaxBegun /\ begun' = begun + 1
    /\ req' = [req EXCEPT ![r] = NewRequest(pc, k, id)]

Row(role, k, r) == [role |-> role, of |-> k, by |-> r]
Committed(rows, r) ==
    [i \in DOMAIN rows |->
        IF rows[i].by = r THEN [rows[i] EXCEPT !.by = Nobody] ELSE rows[i]]
RolledBack(rows, r) ==
    [i \in DOMAIN rows |->
        IF rows[i].by = r THEN Row("gone", Nobody, Nobody) ELSE rows[i]]
Released(r) == IF lock = r THEN Nobody ELSE lock

\* The request fails: its transaction is undone.
Undo(r) ==
    /\ log' = RolledBack(log, r)
    /\ lock' = Released(r)
    /\ Ends(r)

-----------------------------------------------------------------------------
(* The customer's message.                                                 *)

\* receive_channel_message, up to the turn: the same row's answer, a human's
\* conversation, or the AI's.
Post(r, m) ==
    /\ \/ \E j \in ExistingReply(m) : Begins(r, "deliver", m, j)
       \/ /\ Sources("user", m) = {} /\ handoff
          /\ Begins(r, "store", m, 0)
       \/ /\ ExistingReply(m) = {} /\ ~handoff
          /\ Begins(r, "chat", m, 0)
    /\ UNCHANGED <<log, lock, handoff, delivery, flying, copies, verified,
                   apart, misjudged, outdated, controls, crashes>>

\* The message is stored for the human; its source_key is unique.
StoreForHuman(r) ==
    /\ req[r].pc = "store" /\ lock = Nobody
    /\ log' = IF Sources("user", req[r].key) = {}
              THEN Append(log, Row("user", req[r].key, Nobody)) ELSE log
    /\ Ends(r)
    /\ UNCHANGED <<lock, handoff, delivery, flying, copies, verified, apart,
                   misjudged, outdated, bounds>>

\* AgentRuntime.chat, up to the first call of the model; the conversation is
\* locked by bind_conversation_source.
BeginChat(r) ==
    /\ req[r].pc = "chat" /\ lock = Nobody
    /\ lock' = r
    /\ IF Sources("user", req[r].key) = {}
       THEN /\ log' = Append(log, Row("user", req[r].key, r))
            /\ UNCHANGED apart
       ELSE /\ apart' = apart \cup {req[r].key}
            /\ UNCHANGED log
    /\ Goes(r, "turn")
    /\ UNCHANGED <<handoff, delivery, flying, copies, verified, misjudged,
                   outdated, bounds>>

\* A tool of the turn commits (a business action that calls out, say).
ToolCommits(r) ==
    /\ req[r].pc = "turn" /\ lock = r
    /\ log' = Committed(log, r)
    /\ lock' = Nobody
    /\ apart' = apart \cup {req[r].key}
    /\ UNCHANGED <<handoff, req, delivery, flying, copies, verified, misjudged,
                   outdated, bounds>>

\* No access, no model, a failing provider, too many rounds, a token limit:
\* what is not committed is undone.
ChatFails(r) ==
    /\ req[r].pc \in {"chat", "turn"}
    /\ Undo(r)
    /\ UNCHANGED <<handoff, delivery, flying, copies, verified, apart,
                   misjudged, outdated, bounds>>

\* The answer and the turn are committed.
Answer(r) ==
    /\ req[r].pc = "turn" /\ Free(r)
    /\ log' = Append(Committed(log, r), Row("assistant", req[r].key, Nobody))
    /\ lock' = Nobody
    /\ req' = [req EXCEPT ![r] =
                  NewRequest("deliver", @.key, Len(log) + 1)]
    /\ UNCHANGED <<handoff, delivery, flying, copies, verified, apart,
                   misjudged, outdated, bounds>>

-----------------------------------------------------------------------------
(* The human.                                                              *)

\* take_over_conversation
TakeOver ==
    /\ ~handoff /\ lock = Nobody
    /\ controls < MaxControls /\ controls' = controls + 1
    /\ handoff' = TRUE
    /\ UNCHANGED <<log, lock, req, delivery, flying, copies, verified, apart,
                   misjudged, outdated, begun, crashes>>

\* return_conversation_to_ai
ReturnAi ==
    /\ handoff /\ lock = Nobody
    /\ handoff' = FALSE
    /\ UNCHANGED <<log, lock, req, delivery, flying, copies, verified, apart,
                   misjudged, outdated, bounds>>

\* send_human_reply on a managed channel: message and delivery row in one
\* transaction under the conversation's lock; a repeated reply has both.
SendHumanReply(r, h) ==
    /\ handoff /\ lock = Nobody
    /\ IF Sources("human", h) = {}
       THEN /\ log' = Append(log, Row("human", h, Nobody))
            /\ delivery' = [delivery EXCEPT ![h] =
                               [status |-> "pending", id |-> Len(log) + 1]]
       ELSE UNCHANGED <<log, delivery>>
    /\ Begins(r, "attempt", h, 0)
    /\ UNCHANGED <<lock, handoff, flying, copies, verified, apart, misjudged,
                   outdated, controls, crashes>>

-----------------------------------------------------------------------------
(* Delivery.                                                               *)

\* ensure_delivery: a row for another message is a conflict.
EnsureLooks(r) ==
    /\ req[r].pc = "deliver"
    /\ LET row == delivery[req[r].key] IN
       \/ row = NoRow /\ Goes(r, "insert")
       \/ row # NoRow /\ row.id = req[r].id /\ Goes(r, "attempt")
       \/ row # NoRow /\ row.id # req[r].id /\ Ends(r)
    /\ UNCHANGED <<log, lock, handoff, delivery, flying, copies, verified,
                   apart, misjudged, outdated, bounds>>

\* Who loses the race for the unique key takes the other's row.
EnsureInserts(r) ==
    /\ req[r].pc = "insert"
    /\ delivery' = [delivery EXCEPT ![req[r].key] =
                       IF @ = NoRow
                       THEN [status |-> "pending", id |-> req[r].id] ELSE @]
    /\ Goes(r, "attempt")
    /\ UNCHANGED <<log, lock, handoff, flying, copies, verified, apart,
                   misjudged, outdated, bounds>>

\* A copy of the row is loaded again after each commit, without a lock:
\* before an attempt waits for the row, and before it calls the workflow.
Load(r, pc) ==
    req' = [req EXCEPT ![r].pc = pc,
                       ![r].seen = delivery[req[r].key].status]

LoadRow(r) ==
    /\ \/ req[r].pc = "attempt" /\ Load(r, "loaded")
       \/ req[r].pc = "begun" /\ Load(r, "calling")
    /\ UNCHANGED <<log, lock, handoff, delivery, flying, copies, verified,
                   apart, misjudged, outdated, bounds>>

SetStatus(k, status) == delivery' = [delivery EXCEPT ![k].status = status]

\* A write over whatever others have written since the copy was loaded.
Store(r, status) ==
    IF status = req[r].seen THEN UNCHANGED delivery
                            ELSE SetStatus(req[r].key, status)

Sendable(status) == status \in {"pending", "failed"}

\* The copy says not begun, and the row does not.
Outdated(r) ==
    Sendable(req[r].seen) /\ ~Sendable(delivery[req[r].key].status)

\* attempt_delivery, the first transaction: done, in doubt, not ready, or
\* begun.
AttemptBegins(r) ==
    /\ req[r].pc = "loaded"
    /\ LET seen == req[r].seen
       IN \/ /\ seen \in {"accepted", "unknown"}
             /\ Ends(r) /\ UNCHANGED delivery
          \/ /\ seen = "sending"
             /\ Ends(r) /\ Store(r, "unknown")
          \/ /\ Sendable(seen)
             /\ Ends(r) /\ Store(r, "failed")
          \/ /\ Sendable(seen)
             /\ Goes(r, "begun") /\ Store(r, "sending")
    /\ outdated' = IF Outdated(r) THEN outdated \cup {req[r].key}
                                  ELSE outdated
    /\ UNCHANGED <<log, lock, handoff, flying, copies, verified, apart,
                   misjudged, bounds>>

\* The workflow has the provider send it: for a request, or for a call nobody
\* waits for any more.
Sends(r) ==
    /\ req[r].pc = "calling" /\ ~req[r].sent
    /\ req' = [req EXCEPT ![r].sent = TRUE]
    /\ copies' = [copies EXCEPT ![req[r].key] = @ + 1]
    /\ UNCHANGED <<log, lock, handoff, delivery, flying, verified, apart,
                   misjudged, outdated, bounds>>

LateSends(k) ==
    /\ flying[k] > 0
    /\ flying' = [flying EXCEPT ![k] = @ - 1]
    /\ copies' = [copies EXCEPT ![k] = @ + 1]
    /\ UNCHANGED <<log, lock, handoff, req, delivery, verified, apart,
                   misjudged, outdated, bounds>>

\* A call that is not carried out gets lost for good.
LateDrops(k) ==
    /\ flying[k] > 0
    /\ flying' = [flying EXCEPT ![k] = @ - 1]
    /\ UNCHANGED <<log, lock, handoff, req, delivery, copies, verified, apart,
                   misjudged, outdated, bounds>>

\* The call that nobody waits for.
Abandoned(r) ==
    IF req[r].pc = "calling" /\ ~req[r].sent
    THEN [flying EXCEPT ![req[r].key] = @ + 1] ELSE flying

\* Mutant: no answer is taken for a refusal.
EndsHopeful(r) ==
    \/ /\ req[r].sent /\ Store(r, "accepted")
       /\ verified' = TRUE /\ UNCHANGED flying
    \/ ~req[r].sent /\ Store(r, "failed")
       /\ UNCHANGED <<flying, verified>>
    \/ Store(r, "failed") /\ flying' = Abandoned(r)
       /\ UNCHANGED verified

\* attempt_delivery, the second transaction: the provider's message id, a
\* refusal, or no clear answer.
Outcome(r) ==
    \/ /\ req[r].sent /\ Store(r, "accepted")
       /\ verified' = TRUE /\ UNCHANGED flying
    \/ ~req[r].sent /\ Store(r, "failed")
       /\ UNCHANGED <<flying, verified>>
    \/ Store(r, "unknown") /\ flying' = Abandoned(r)
       /\ UNCHANGED verified

AttemptEnds(r) ==
    /\ req[r].pc = "calling"
    /\ Outcome(r)
    /\ Ends(r)
    /\ UNCHANGED <<log, lock, handoff, copies, apart, misjudged, outdated,
                   bounds>>

\* confirm_channel_delivery: the workflow has delivered an answer.
Confirm(m) ==
    /\ copies[m] > 0 /\ ~verified
    /\ verified' = TRUE
    /\ UNCHANGED <<log, lock, handoff, req, delivery, flying, copies, apart,
                   misjudged, outdated, bounds>>

\* retry_managed_channel_delivery
RetryByAdmin(r, k) ==
    /\ delivery[k] # NoRow /\ delivery[k].status = "failed"
    /\ Begins(r, "attempt", k, 0)
    /\ UNCHANGED <<log, lock, handoff, delivery, flying, copies, verified,
                   apart, misjudged, outdated, controls, crashes>>

InFlight(k) ==
    \/ flying[k] > 0
    \/ \E r \in Requests : req[r].pc \in {"begun", "calling"} /\ req[r].key = k

\* reconcile_managed_channel_delivery: what the administrator found out.
Reconcile(k) ==
    /\ delivery[k] # NoRow /\ delivery[k].status = "unknown"
    /\ \/ /\ SetStatus(k, "accepted") /\ verified' = TRUE
          /\ misjudged' = IF copies[k] > 0 THEN misjudged
                          ELSE misjudged \cup {k}
       \/ /\ SetStatus(k, "failed") /\ UNCHANGED verified
          /\ misjudged' = IF copies[k] = 0 /\ ~InFlight(k) THEN misjudged
                          ELSE misjudged \cup {k}
    /\ UNCHANGED <<log, lock, handoff, req, flying, copies, apart, outdated,
                   bounds>>

Crash(r) ==
    /\ req[r].pc # "idle"
    /\ crashes < MaxCrashes /\ crashes' = crashes + 1
    /\ Undo(r)
    /\ flying' = Abandoned(r)
    /\ UNCHANGED <<handoff, delivery, copies, verified, apart, misjudged,
                   outdated, begun, controls>>

-----------------------------------------------------------------------------

Next ==
    \/ \E r \in Requests, m \in Messages : Post(r, m)
    \/ \E r \in Requests, h \in Replies : SendHumanReply(r, h)
    \/ \E r \in Requests, k \in Keys : RetryByAdmin(r, k)
    \/ \E r \in Requests :
          \/ StoreForHuman(r) \/ BeginChat(r) \/ ToolCommits(r)
          \/ ChatFails(r) \/ Answer(r)
          \/ EnsureLooks(r) \/ EnsureInserts(r)
          \/ LoadRow(r) \/ AttemptBegins(r) \/ Sends(r) \/ AttemptEnds(r)
          \/ Crash(r)
    \/ \E k \in Keys : LateSends(k) \/ LateDrops(k) \/ Reconcile(k)
    \/ \E m \in Messages : Confirm(m)
    \/ TakeOver \/ ReturnAi

Spec == Init /\ [][Next]_vars

-----------------------------------------------------------------------------
(* Properties.                                                             *)

\* The variables have the types of the rows and requests they stand for.
TypeOK ==
    /\ log \in Seq([role : {"user", "assistant", "human", "gone"},
                    of : Keys \cup {Nobody},
                    by : Requests \cup {Nobody}])
    /\ lock \in Requests \cup {Nobody}
    /\ {handoff, verified} \subseteq BOOLEAN
    /\ req \in [Requests ->
                  [pc : {"idle", "store", "chat", "turn", "deliver", "insert",
                         "attempt", "loaded", "begun", "calling"},
                   key : Keys \cup {Nobody}, id : Nat, sent : BOOLEAN,
                   seen : Statuses \cup {"none"}]]
    /\ delivery \in [Keys -> [status : Statuses, id : Nat] \cup {NoRow}]
    /\ flying \in [Keys -> Nat] /\ copies \in [Keys -> Nat]
    /\ apart \subseteq Messages
    /\ misjudged \subseteq Keys /\ outdated \subseteq Keys
    /\ begun \in 0 .. MaxBegun /\ controls \in 0 .. MaxControls
    /\ crashes \in 0 .. MaxCrashes

\* However often the workflow posts a message, a colleague repeats a reply or
\* an administrator retries one, the customer gets it once at most, and its
\* delivery row says what happened: an accepted message was sent, one that
\* may be tried again was not and will not be; the channel counts as verified
\* only when a customer got a message.  Not so once a person has reconciled a
\* message wrongly, or before its call was over; nor once an attempt has
\* decided, behind the row's lock, on a copy that it loaded before another one
\* began the message ("one durable managed-channel send without blind network
\* retries" fails there).
StatusIsTrue ==
    /\ \A k \in Keys \ (misjudged \cup outdated) :
          /\ copies[k] <= 1
          /\ delivery[k] = NoRow => copies[k] = 0 /\ ~InFlight(k)
          /\ delivery[k] # NoRow =>
                /\ delivery[k].status = "accepted" => copies[k] = 1
                /\ delivery[k].status \in {"pending", "failed"} =>
                       copies[k] = 0 /\ ~InFlight(k)
    /\ verified => misjudged # {} \/ \E k \in Keys : copies[k] > 0

\* What is delivered under a message's key is an answer of the AI that is
\* stored for good, and the answer to that message - unless the message that it
\* does answer was stored before (by a tool that committed in the middle of
\* the turn, for a human, or by another turn about it): then it can follow the
\* row of another message and be taken for its answer.  Under a reply's key it
\* is the reply.
OwnAnswer ==
    \A k \in Keys : delivery[k] # NoRow =>
        /\ delivery[k].id \in Rows
        /\ LET row == log[delivery[k].id] IN
           IF k \in Messages
           THEN row.role = "assistant" /\ row.of \in {k} \cup apart
           ELSE row.role = "human" /\ row.of = k
=============================================================================
