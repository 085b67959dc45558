----------------------------- MODULE WhatsAppTurn -----------------------------
(***************************************************************************)
(* One inbound WhatsApp message and the executions of                      *)
(* process_webhook_payload that may handle it: the queued job, its replays *)
(* after a crash or a failure, and a second job when Meta posts the same   *)
(* message twice (api/whatsapp_webhook.py).                                *)
(*                                                                         *)
(* An execution claims the message by inserting its row under a unique key *)
(* (or by locking the row), takes the contact's advisory lock and the      *)
(* conversation's row, lets the AI answer, and commits the answer's        *)
(* delivery row together with the claim's terminal status; only then it    *)
(* sends.  A business action inside the turn commits early: the claim      *)
(* becomes durable as "processing", and every lock is gone until the       *)
(* answer, inserted into the conversation, shares its row again.           *)
(*                                                                         *)
(* The call of attempt_delivery is abstracted to its two transactions;     *)
(* WhatsAppDelivery has the detail.                                        *)
(***************************************************************************)
EXTENDS Integers, SequencesExt

CONSTANTS Runs,       \* jobs that carry the message
          NoRun,
          MaxTries,   \* attempts of a job before it is a dead letter (5)
          MaxCrashes, \* bound: executions that die
          MaxSwitches \* bound: human takeovers and returns

ASSUME TurnAssumption ==
    /\ NoRun \notin Runs
    /\ MaxTries \in Nat \ {0} /\ {MaxCrashes, MaxSwitches} \subseteq Nat

\* The suffix of the idempotency key: each names one delivery per message.
Kinds == {"ai-reply", "handoff-ack", "service-fallback"}

VARIABLES claim,  \* committed status of the inbound row, "none" without one
          holder, \* who holds each lock until its transaction ends
          share,  \* transactions with a message inserted in the conversation
          delivery, \* committed status of each delivery row
          made,     \* kinds in the order their rows got an id
          asksHuman, \* requests_human(incoming_text), a fact of the text
          overlap,  \* may two jobs run at once (no Redis, or a stall)?
          human,    \* a human holds the conversation (session or marker)
          at, kind, \* where each execution is, and the delivery it sends
          tries, crashes, switches

locks == <<holder, share>>
runs  == <<at, kind, tries>>
facts == <<asksHuman, overlap>>
turnVars == <<claim, locks, delivery, made, facts, human, runs, crashes,
              switches>>

Idle == {"queued", "ok", "dead"}

\* The inbound row, the contact's advisory lock, the conversation's row and
\* the unique idempotency key of the reply.
Locks == {"row", "contact", "conversation", "key"}

TurnInit ==
    /\ claim = "none"
    /\ holder = [x \in Locks |-> NoRun] /\ share = {}
    /\ delivery = [k \in Kinds |-> "none"]
    /\ made = <<>>
    /\ asksHuman \in BOOLEAN /\ overlap \in BOOLEAN /\ human \in BOOLEAN
    /\ at = [r \in Runs |-> "queued"]
    /\ kind = [r \in Runs |-> "ai-reply"]
    /\ tries = [r \in Runs |-> 0]
    /\ crashes = 0 /\ switches = 0

-----------------------------------------------------------------------------
(* Transactions.                                                           *)

Goto(r, l) == at' = [at EXCEPT ![r] = l]

Free(r, x) ==
    /\ holder[x] \in {NoRun, r}
    /\ x = "conversation" => share \subseteq {r}

Take(r, x) ==
    /\ Free(r, x)
    /\ holder' = [holder EXCEPT ![x] = r]
    /\ UNCHANGED share

\* Commit or rollback: every lock of r's transaction is released.
EndTransaction(r) ==
    /\ holder' = [x \in Locks |-> IF holder[x] = r THEN NoRun ELSE holder[x]]
    /\ share' = share \ {r}

\* complete_message_claim and commit, with a new delivery row or none.
CommitDelivery(r, k) ==
    /\ delivery' = [delivery EXCEPT ![k] = IF @ = "none" THEN "pending" ELSE @]
    /\ claim' = "processed"
    /\ kind' = [kind EXCEPT ![r] = k]
    /\ EndTransaction(r)

\* The execution raises: the session rolls back and the job is retried later
\* or, after MaxTries, dead.
Fail(r) ==
    /\ tries' = [tries EXCEPT ![r] = @ + 1]
    /\ Goto(r, IF tries'[r] >= MaxTries THEN "dead" ELSE "queued")
    /\ EndTransaction(r)

\* The lock r waits for when it is held, and the executions r waits for.
Wanted(r) ==
    CASE at[r] \in {"claim", "fallback claim", "takeover claim", "complete"}
           -> "row"
      [] at[r] \in {"contact", "fallback", "takeover"} -> "contact"
      [] at[r] \in {"bind", "fallback bind", "takeover bind"} -> "conversation"
      [] at[r] = "insert" -> "key"
      [] OTHER -> "none"

WaitsFor(r) ==
    {s \in Runs \ {r} : \/ Wanted(r) \in Locks /\ holder[Wanted(r)] = s
                        \/ Wanted(r) = "conversation" /\ s \in share}

-----------------------------------------------------------------------------
(* The turn.                                                               *)

StartRun(r) ==
    /\ at[r] = "queued"
    /\ overlap \/ \A s \in Runs : at[s] \in Idle
    /\ Goto(r, "claim")
    /\ UNCHANGED <<claim, locks, delivery, made, human, kind, tries, crashes,
                   facts, switches>>

\* Mutant: any existing claim is resumed.
ClaimAgain(r) ==
    /\ at[r] = "claim"
    /\ Take(r, "row")
    /\ Goto(r, "contact")
    /\ UNCHANGED <<claim, delivery, made, human, kind, tries, crashes,
                   facts, switches>>

\* claim_message: a terminal claim sends the job down the duplicate path.
Claim(r) ==
    /\ at[r] = "claim"
    /\ Take(r, "row")
    /\ Goto(r, IF claim = "processed" THEN "duplicate" ELSE "contact")
    /\ UNCHANGED <<claim, delivery, made, human, kind, tries, crashes,
                   facts, switches>>

LockContact(r) ==
    /\ at[r] = "contact"
    /\ Take(r, "contact")
    /\ Goto(r, "bind")
    /\ UNCHANGED <<claim, delivery, made, human, kind, tries, crashes,
                   facts, switches>>

\* bind_conversation_source
Bind(r) ==
    /\ at[r] = "bind"
    /\ Take(r, "conversation")
    /\ Goto(r, "turn")
    /\ UNCHANGED <<claim, delivery, made, human, kind, tries, crashes,
                   facts, switches>>

\* A human is in control: the message is stored for the Inbox.
RouteToHuman(r) ==
    /\ at[r] = "turn"
    /\ human
    /\ claim' = "processed"
    /\ EndTransaction(r)
    /\ Goto(r, "ok")
    /\ UNCHANGED <<delivery, made, human, kind, tries, crashes, facts,
                   switches>>

\* The customer asks for one: handoff, acknowledgement, claim in one commit.
RequestHuman(r) ==
    /\ at[r] = "turn"
    /\ ~human /\ asksHuman
    /\ IF delivery["handoff-ack"] # "none" \* scope conflict in ensure_delivery
       THEN Fail(r) /\ UNCHANGED <<claim, delivery, made, human, kind>>
       ELSE /\ CommitDelivery(r, "handoff-ack")
            /\ made' = Append(made, "handoff-ack")
            /\ human' = TRUE
            /\ Goto(r, "attempt")
            /\ UNCHANGED tries
    /\ UNCHANGED <<crashes, facts, switches>>

BeginChat(r) ==
    /\ at[r] = "turn"
    /\ ~human /\ ~asksHuman
    /\ Goto(r, "chat")
    /\ UNCHANGED <<claim, locks, delivery, made, human, kind, tries, crashes,
                   facts, switches>>

\* A business action commits inside the turn.
ActionCommits(r) ==
    /\ at[r] = "chat"
    /\ claim' = IF holder["row"] = r THEN "processing" ELSE claim
    /\ EndTransaction(r)
    /\ UNCHANGED <<delivery, made, human, runs, crashes, facts, switches>>

\* The answer is inserted into the conversation.
ChatAnswers(r) ==
    /\ at[r] = "chat"
    /\ holder["conversation"] \in {NoRun, r}
    /\ share' = share \cup {r}
    /\ Goto(r, "check")
    /\ UNCHANGED <<claim, holder, delivery, made, human, kind, tries, crashes,
                   facts, switches>>

\* Any exception but a service limit.
ChatFails(r) ==
    /\ at[r] = "chat"
    /\ Fail(r)
    /\ UNCHANGED <<claim, delivery, made, human, kind, crashes, facts,
                   switches>>

\* The AI calls its human_handoff tool: the check after the turn finds the
\* session under human control and rolls the tool's handoff back with the
\* answer.
AgentHandsOff(r) ==
    /\ at[r] = "chat"
    /\ EndTransaction(r)
    /\ Goto(r, "takeover")
    /\ UNCHANGED <<claim, delivery, made, human, kind, tries, crashes,
                   facts, switches>>

\* The answer is ready; was the conversation taken over meanwhile?
CheckTakeover(r) ==
    /\ at[r] = "check"
    /\ IF human
       THEN EndTransaction(r) /\ Goto(r, "takeover")
       ELSE UNCHANGED locks /\ Goto(r, "ensure")
    /\ UNCHANGED <<claim, delivery, made, human, kind, tries, crashes,
                   facts, switches>>

\* ensure_delivery, its SELECT: a committed row carries the message id of
\* another answer, a scope conflict.
LookUpReply(r) ==
    /\ at[r] = "ensure"
    /\ IF delivery["ai-reply"] # "none"
       THEN Fail(r)
       ELSE Goto(r, "insert") /\ UNCHANGED <<locks, tries>>
    /\ UNCHANGED <<claim, delivery, made, human, kind, crashes, facts,
                   switches>>

\* Its INSERT waits for a rival; if the rival commits, its row is returned
\* without the scope comparison.
InsertReply(r) ==
    /\ at[r] = "insert"
    /\ Free(r, "key")
    /\ IF delivery["ai-reply"] # "none"
       THEN UNCHANGED <<locks, made>>
       ELSE Take(r, "key") /\ made' = Append(made, "ai-reply")
    /\ Goto(r, "complete")
    /\ UNCHANGED <<claim, delivery, human, kind, tries, crashes, facts,
                   switches>>

\* complete_message_claim waits for the row, then everything is committed.
CompleteReply(r) ==
    /\ at[r] = "complete"
    /\ Free(r, "row")
    /\ CommitDelivery(r, "ai-reply")
    /\ Goto(r, "attempt")
    /\ UNCHANGED <<made, human, tries, crashes, facts, switches>>

-----------------------------------------------------------------------------
(* The two paths that start over after a rollback.                         *)

ServiceLimit(r) ==
    /\ at[r] = "chat"
    /\ EndTransaction(r)
    /\ Goto(r, "fallback")
    /\ UNCHANGED <<claim, delivery, made, human, kind, tries, crashes,
                   facts, switches>>

\* lock_contact first, then claim_message: the reverse of Claim's order.
Relock(r) ==
    /\ at[r] \in {"fallback", "takeover"}
    /\ Take(r, "contact")
    /\ Goto(r, IF at[r] = "fallback" THEN "fallback claim"
                                     ELSE "takeover claim")
    /\ UNCHANGED <<claim, delivery, made, human, kind, tries, crashes,
                   facts, switches>>

Reclaim(r) ==
    /\ at[r] \in {"fallback claim", "takeover claim"}
    /\ Free(r, "row")
    /\ CASE claim # "processed" ->
              /\ Take(r, "row")
              /\ Goto(r, IF at[r] = "fallback claim" THEN "fallback bind"
                                                     ELSE "takeover bind")
         [] claim = "processed" /\ at[r] = "fallback claim" ->
              Take(r, "row") /\ Goto(r, "duplicate")
         [] OTHER -> EndTransaction(r) /\ Goto(r, "ok")
    /\ UNCHANGED <<claim, delivery, made, human, kind, tries, crashes,
                   facts, switches>>

\* _service_access_fallback: handoff, notice, claim in one commit.
Fallback(r) ==
    /\ at[r] = "fallback bind"
    /\ Free(r, "conversation")
    /\ IF delivery["service-fallback"] # "none"
       THEN Fail(r) /\ UNCHANGED <<claim, delivery, made, human, kind>>
       ELSE /\ CommitDelivery(r, "service-fallback")
            /\ made' = Append(made, "service-fallback")
            /\ human' = TRUE
            /\ Goto(r, "attempt")
            /\ UNCHANGED tries
    /\ UNCHANGED <<crashes, facts, switches>>

\* The takeover won: the message goes to the human, no answer is sent.
Takeover(r) ==
    /\ at[r] = "takeover bind"
    /\ Free(r, "conversation")
    /\ claim' = "processed" /\ human' = TRUE
    /\ EndTransaction(r)
    /\ Goto(r, "ok")
    /\ UNCHANGED <<delivery, made, kind, tries, crashes, facts, switches>>

-----------------------------------------------------------------------------
(* Sending.                                                                *)

Sendable == {"pending", "retryable"}

\* The delivery rows of the message in the order of their ids.
Rows == SelectSeq(made, LAMBDA k : delivery[k] # "none")

\* Mutant: a replayed message is a duplicate, whatever became of its answer.
DuplicateIgnored(r) ==
    /\ at[r] = "duplicate"
    /\ Goto(r, "ok")
    /\ EndTransaction(r)
    /\ UNCHANGED <<claim, delivery, made, human, kind, tries, crashes,
                   facts, switches>>

\* retry_delivery_for_inbound looks at the newest row of the message.
Duplicate(r) ==
    /\ at[r] = "duplicate"
    /\ IF Rows = <<>>
          \/ delivery[Last(Rows)] \in {"accepted", "unknown", "failed"}
       THEN Goto(r, "ok") /\ EndTransaction(r) /\ UNCHANGED kind
       ELSE /\ Goto(r, "attempt")
            /\ kind' = [kind EXCEPT ![r] = Last(Rows)]
            /\ UNCHANGED locks
    /\ UNCHANGED <<claim, delivery, made, human, tries, crashes, facts,
                   switches>>

AttemptBegins(r) ==
    /\ at[r] = "attempt"
    /\ LET k == kind[r] IN
       CASE delivery[k] \in Sendable ->
              /\ delivery' = [delivery EXCEPT ![k] = "sending"]
              /\ Goto(r, "send")
         [] delivery[k] = "sending" ->
              /\ delivery' = [delivery EXCEPT ![k] = "unknown"]
              /\ Goto(r, "ok")
         [] OTHER -> Goto(r, "ok") /\ UNCHANGED delivery
    /\ EndTransaction(r)
    /\ UNCHANGED <<claim, made, human, kind, tries, crashes, facts,
                   switches>>

\* The outcome is recorded; a retryable one fails the job so it is replayed.
AttemptEnds(r) ==
    /\ at[r] = "send"
    /\ \E s \in {"accepted", "unknown", "failed", "retryable"} :
          /\ delivery' = [delivery EXCEPT ![kind[r]] = s]
          /\ IF s = "retryable"
             THEN Fail(r)
             ELSE Goto(r, "ok") /\ UNCHANGED <<locks, tries>>
    /\ UNCHANGED <<claim, made, human, kind, crashes, facts, switches>>

-----------------------------------------------------------------------------
(* The world around the execution.                                         *)

\* A set of executions that wait only for each other: PostgreSQL aborts one.
DeadlockAbort(r) ==
    /\ \E C \in SUBSET Runs :
          /\ r \in C
          /\ \A s \in C : WaitsFor(s) \cap C # {}
    /\ Fail(r)
    /\ UNCHANGED <<claim, delivery, made, human, kind, crashes, facts,
                   switches>>

\* The worker dies; recovery puts the job back as it was.
RunDies(r) ==
    /\ at[r] \notin Idle
    /\ crashes < MaxCrashes
    /\ crashes' = crashes + 1
    /\ EndTransaction(r)
    /\ Goto(r, "queued")
    /\ UNCHANGED <<claim, delivery, made, human, kind, tries, facts,
                   switches>>

\* An operator or the Business App takes over; or AI is resumed.
SwitchControl ==
    /\ switches < MaxSwitches
    /\ switches' = switches + 1
    /\ human' = ~human
    /\ UNCHANGED <<claim, locks, delivery, made, facts, runs, crashes>>

RunStep(r) ==
    \/ StartRun(r) \/ Claim(r) \/ LockContact(r) \/ Bind(r)
    \/ RouteToHuman(r) \/ RequestHuman(r) \/ BeginChat(r)
    \/ ActionCommits(r) \/ ChatAnswers(r) \/ ChatFails(r) \/ ServiceLimit(r)
    \/ AgentHandsOff(r)
    \/ CheckTakeover(r) \/ LookUpReply(r)
    \/ InsertReply(r) \/ CompleteReply(r)
    \/ Relock(r) \/ Reclaim(r) \/ Fallback(r) \/ Takeover(r)
    \/ Duplicate(r) \/ AttemptBegins(r) \/ AttemptEnds(r)
    \/ DeadlockAbort(r)

TurnNext ==
    \/ \E r \in Runs : RunStep(r) \/ RunDies(r)
    \/ SwitchControl

TurnSpec == TurnInit /\ [][TurnNext]_turnVars

\* The queue runs every job, the process keeps executing, and the model call
\* returns: the chat does not commit business actions for ever.
TurnFairness ==
    \A r \in Runs : WF_turnVars(RunStep(r)) /\ SF_turnVars(ChatAnswers(r))

TurnFairSpec == TurnSpec /\ TurnFairness

-----------------------------------------------------------------------------
(* Properties.                                                             *)

TurnTypeOK ==
    /\ claim \in {"none", "processing", "processed"}
    /\ holder \in [Locks -> Runs \cup {NoRun}] /\ share \subseteq Runs
    /\ delivery \in [Kinds -> {"none", "pending", "sending", "accepted",
                               "unknown", "failed", "retryable"}]
    /\ ToSet(made) \subseteq Kinds
    /\ {asksHuman, overlap, human} \subseteq BOOLEAN
    /\ kind \in [Runs -> Kinds] /\ tries \in [Runs -> 0 .. MaxTries]
    /\ crashes \in Nat /\ switches \in Nat

\* "AI sends exactly one reply to the same WhatsApp conversation": one message
\* has at most one answer.
SingleAnswer ==
    \A j, k \in Kinds : delivery[j] # "none" /\ delivery[k] # "none" => j = k

\* Jobs, replays and Meta's re-posts of one message prepare at most one
\* answer for the customer, whatever crashes and early commits happen, as
\* long as jobs do not overlap.
OneAnswer == ~overlap => SingleAnswer

\* No answer stays pending or half sent, unless all jobs of its message became
\* dead letters or overlapping jobs prepared a newer one.
AnswerSettles ==
    \A k \in Kinds :
        delivery[k] \in {"pending", "sending"} ~>
            \/ delivery[k] \notin {"pending", "sending"}
            \/ \A r \in Runs : at[r] = "dead"
            \/ overlap /\ Last(Rows) # k
=============================================================================
