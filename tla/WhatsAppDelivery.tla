--------------------------- MODULE WhatsAppDelivery ---------------------------
(***************************************************************************)
(* One outbound WhatsApp message (modules/channels/whatsapp_delivery.py).  *)
(*                                                                         *)
(* Several observers may call attempt_delivery for the same row: the       *)
(* worker that prepared it, a worker replaying the job, an administrator's *)
(* retry, an operator pressing send again.  Each call commits "sending",   *)
(* posts to Meta outside any transaction, and records the answer in a      *)
(* second transaction; it may die in between.  Meta's delivery reports     *)
(* reach apply_provider_status in any order, any number of times.          *)
(*                                                                         *)
(* Every caller has loaded the row when attempt_delivery locks it, and     *)
(* SQLAlchemy's FOR UPDATE does not refresh a loaded object: the decision  *)
(* is made on the copy the observer has seen, however old it is, and an    *)
(* UPDATE writes the columns that differ from that copy.  A commit expires *)
(* it; to=row.wa_id then loads the row again, just before the post.        *)
(***************************************************************************)
EXTENDS Integers, Sequences, FiniteSets

CONSTANTS Observers,   \* processes that may call attempt_delivery
          NoAnswer,
          MaxAttempts, \* bound: value of the attempts column
          MaxStale,    \* bound: decisions on an outdated copy
          MaxCrashes   \* bound: observers that die mid-call

ASSUME DeliveryAssumption ==
    /\ IsFiniteSet(Observers)
    /\ {MaxAttempts, MaxStale, MaxCrashes} \subseteq Nat

Answers == {"accepted", "conflict", "rejected", "retryable", "unknown"}
SUCCESS_STATES == {"accepted", "delivered", "read"}
Statuses == SUCCESS_STATES \cup {"pending", "sending", "unknown", "failed"}
Fates == {"none", "delivered", "read", "failed"}

ASSUME NoAnswerAssumption == NoAnswer \notin Answers

VARIABLES row,     \* its columns; id stands for provider_message_id: the
                   \* number of the message it names, 0 for NULL
          seen,    \* the row as each observer has loaded it
          pc,      \* "idle", or in the call: "loaded", "begun", "send",
                   \* "record"
          answer,  \* what send_text returned to each observer
          answerId,\* and the message id that came with it
          fate,    \* of each message Meta accepted: what became of it
          crashes,
          stale    \* history: decisions on a status, or a permission to
                   \* retry, that was not the row's any more

call == <<seen, pc, answer, answerId>>
deliveryVars == <<row, call, fate, crashes, stale>>

\* Messages the customer gets.
copies == Len(fate)

NewRow == [status |-> "pending", retryable |-> FALSE, attempts |-> 0,
           id |-> 0]

DeliveryInit ==
    /\ row = NewRow
    /\ seen = [o \in Observers |-> NewRow]
    /\ pc = [o \in Observers |-> "idle"]
    /\ answer = [o \in Observers |-> NoAnswer]
    /\ answerId = [o \in Observers |-> 0]
    /\ fate = <<>> /\ crashes = 0 /\ stale = 0

-----------------------------------------------------------------------------
(* attempt_delivery.                                                       *)

MaySend(r) == r.status = "pending" \/ (r.status = "failed" /\ r.retryable)

\* An UPDATE: the columns that differ from the copy it was made from.
Flush(copy, new) ==
    [c \in DOMAIN row |-> IF new[c] = copy[c] THEN row[c] ELSE new[c]]

\* The caller loads the row (delivery_for_inbound, or .id after a commit).
LoadRow(o) ==
    /\ pc[o] = "idle"
    /\ seen' = [seen EXCEPT ![o] = row]
    /\ pc' = [pc EXCEPT ![o] = "loaded"]
    /\ UNCHANGED <<row, answer, answerId, fate, crashes, stale>>

\* The call returns, or dies: the session forgets what it loaded.
Returns(o) ==
    /\ pc' = [pc EXCEPT ![o] = "idle"]
    /\ seen' = [seen EXCEPT ![o] = NewRow]
    /\ answer' = [answer EXCEPT ![o] = NoAnswer]
    /\ answerId' = [answerId EXCEPT ![o] = 0]

\* A copy that is a success, "unknown" or failed for good is left alone.
Leave(o) ==
    /\ pc[o] = "loaded"
    /\ ~MaySend(seen[o]) /\ seen[o].status # "sending"
    /\ Returns(o)
    /\ UNCHANGED <<row, fate, crashes, stale>>

Outdated(o) == \/ seen[o].status # row.status
               \/ seen[o].retryable # row.retryable

\* A decision under the lock.
Decides(o) ==
    /\ pc[o] = "loaded"
    /\ stale' = IF Outdated(o) THEN stale + 1 ELSE stale
    /\ stale' <= MaxStale

\* Mutant: an interrupted attempt is taken for a refusal.
ObserveRefused(o) ==
    /\ Decides(o)
    /\ seen[o].status = "sending"
    /\ row' = Flush(seen[o], [seen[o] EXCEPT !.status = "failed",
                                            !.retryable = FALSE])
    /\ Returns(o)
    /\ UNCHANGED <<fate, crashes>>

\* "sending" found by anyone is an interrupted attempt: never sent again.
ObserveInterrupted(o) ==
    /\ Decides(o)
    /\ seen[o].status = "sending"
    /\ row' = Flush(seen[o], [seen[o] EXCEPT !.status = "unknown",
                                            !.retryable = FALSE])
    /\ Returns(o)
    /\ UNCHANGED <<fate, crashes>>

Begin(o) ==
    /\ Decides(o)
    /\ MaySend(seen[o])
    /\ seen[o].attempts < MaxAttempts
    /\ row' = Flush(seen[o], [seen[o] EXCEPT !.status = "sending",
                                            !.retryable = FALSE,
                                            !.attempts = @ + 1])
    /\ pc' = [pc EXCEPT ![o] = "begun"]
    /\ UNCHANGED <<seen, answer, answerId, fate, crashes>>

\* to=row.wa_id, the first use of the object after the commit.
Reload(o) ==
    /\ pc[o] = "begun"
    /\ seen' = [seen EXCEPT ![o] = row]
    /\ pc' = [pc EXCEPT ![o] = "send"]
    /\ UNCHANGED <<row, answer, answerId, fate, crashes, stale>>

\* The observer hears a, with message id n, from send_text.
Hears(o, a, n) ==
    /\ pc[o] = "send"
    /\ answer' = [answer EXCEPT ![o] = a]
    /\ answerId' = [answerId EXCEPT ![o] = n]
    /\ pc' = [pc EXCEPT ![o] = "record"]
    /\ UNCHANGED <<row, seen, crashes, stale>>

\* Meta accepts: it answers with a fresh id, with none, with the id of
\* another row, or the answer is lost.
MetaAccepts(o) ==
    /\ \/ Hears(o, "accepted", copies + 1)
       \/ \E a \in {"accepted", "conflict", "unknown"} : Hears(o, a, 0)
    /\ fate' = Append(fate, "none")

\* An HTTP error is taken for a refusal; other errors say nothing.
MetaRefuses(o) ==
    /\ \E a \in {"rejected", "retryable", "unknown"} : Hears(o, a, 0)
    /\ UNCHANGED fate

\* Mutant: a timeout counts as a refusal.
StatusIfTimeoutFails(a) == IF a = "accepted" THEN "accepted" ELSE "failed"

StatusOf(a) == CASE a = "accepted" -> "accepted"
                 [] a \in {"conflict", "unknown"} -> "unknown"
                 [] a \in {"rejected", "retryable"} -> "failed"

\* The second transaction writes what the answer says, whatever the row is.
Record(o) ==
    /\ pc[o] = "record"
    /\ row' = Flush(seen[o],
            [seen[o] EXCEPT
                !.status = StatusOf(answer[o]),
                !.retryable = (answer[o] = "retryable"),
                !.id = IF answer[o] \in {"accepted", "conflict"}
                       THEN answerId[o] ELSE @])
    /\ Returns(o)
    /\ UNCHANGED <<fate, crashes, stale>>

Crash(o) ==
    /\ pc[o] # "idle"
    /\ crashes < MaxCrashes
    /\ crashes' = crashes + 1
    /\ Returns(o)
    /\ UNCHANGED <<row, fate, stale>>

-----------------------------------------------------------------------------
(* Meta and its reports.                                                   *)

\* Meta delivers an accepted message, its user reads it, or it fails.
MetaProgress ==
    /\ \E n \in DOMAIN fate :
          \E f \in CASE fate[n] = "none" -> {"delivered", "failed"}
                    [] fate[n] = "delivered" -> {"read"}
                    [] OTHER -> {} :
              fate' = [fate EXCEPT ![n] = f]
    /\ UNCHANGED <<row, call, crashes, stale>>

\* Reports about message n Meta may have sent, each possibly late or
\* repeated.
Reports(n) ==
    {"sent"}
        \cup (IF fate[n] \in {"delivered", "read"} THEN {"delivered"} ELSE {})
        \cup (IF fate[n] \in {"read", "failed"} THEN {fate[n]} ELSE {})

\* Mutant: the last report wins.
LastReport(r) == IF r = "sent" THEN "accepted" ELSE r

Reported(r) ==
    CASE r = "sent" -> IF row.status \in {"delivered", "read"}
                       THEN row.status ELSE "accepted"
      [] r = "delivered" -> IF row.status = "read" THEN row.status
                                                   ELSE "delivered"
      [] r \in {"read", "failed"} -> r

\* apply_provider_status finds the row by its provider_message_id, and loads
\* it with the lock.
Report ==
    /\ row.id # 0
    /\ \E r \in Reports(row.id) :
          row' = [row EXCEPT !.status = Reported(r), !.retryable = FALSE]
    /\ UNCHANGED <<call, fate, crashes, stale>>

DeliveryNext ==
    \/ \E o \in Observers : \/ LoadRow(o) \/ Leave(o)
                            \/ ObserveInterrupted(o) \/ Begin(o) \/ Reload(o)
                            \/ MetaAccepts(o) \/ MetaRefuses(o)
                            \/ Record(o) \/ Crash(o)
    \/ MetaProgress
    \/ Report

DeliverySpec == DeliveryInit /\ [][DeliveryNext]_deliveryVars

-----------------------------------------------------------------------------
(* Properties.                                                             *)

Rows == [status : Statuses, retryable : BOOLEAN, attempts : Nat, id : Nat]

DeliveryTypeOK ==
    /\ row \in Rows /\ seen \in [Observers -> Rows]
    /\ pc \in [Observers -> {"idle", "loaded", "begun", "send", "record"}]
    /\ answer \in [Observers -> Answers \cup {NoAnswer}]
    /\ answerId \in [Observers -> Nat]
    /\ fate \in Seq(Fates) /\ crashes \in Nat /\ stale \in Nat
    /\ row.id \in 0 .. copies

\* A post that may still leave, or that Meta is known to have refused: what
\* a permission to retry must not be added to.
Open(o) == \/ pc[o] \in {"begun", "send"}
           \/ pc[o] = "record" /\ answer[o] \in {"rejected", "retryable"}

\* The customer gets the message once, and once more for every decision
\* somebody made on an outdated copy: whoever retries, dies between the post
\* and the record, or records late over an observer's "unknown", sends
\* nothing twice (attempt_delivery commits "sending" before the post).
OneCopyPerDecision == copies <= 1 + stale

\* The row never claims success without a copy; it never tells an operator
\* that a retry is safe, nor that the message failed, while a copy has left
\* or may still leave, unless somebody decided on an outdated copy.
HonestStatus ==
    /\ row.status \in SUCCESS_STATES => copies > 0
    /\ MaySend(row) => copies <= stale
    /\ MaySend(row) /\ stale = 0 => \A o \in Observers : ~Open(o)
    /\ row.status = "failed" /\ copies > 0 /\ stale = 0 => fate[1] = "failed"

\* Once Meta confirmed delivery, a late report, a late record or another
\* attempt never moves the row back (apply_provider_status, Record), unless
\* somebody decided on an outdated copy.
ReceiptIsKept ==
    [][stale' = 0 =>
         /\ row.status = "read" => row'.status = "read"
         /\ row.status = "delivered" => row'.status \in {"delivered", "read"}
      ]_deliveryVars

\* The row and the network together implement the one-shot contract, with an
\* outdated decision as its race.
Verdict == CASE row.status \in SUCCESS_STATES -> "sent"
             [] row.status = "failed" -> "refused"
             [] row.status = "unknown" -> "unknown"
             [] row.status \in {"pending", "sending"} -> "open"

OneShot == INSTANCE OneShotSend WITH verdict <- Verdict, races <- stale

OneShotSpec == OneShot!Spec
=============================================================================
