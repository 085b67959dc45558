---------------------------- MODULE WhatsAppQueue ----------------------------
(***************************************************************************)
(* The Redis job queue between the WhatsApp webhook and the WhatsApp       *)
(* worker (modules/channels/whatsapp_queue.py, scripts/whatsapp_worker.py).*)
(*                                                                         *)
(* The webhook LPUSHes a job on "jobs" and answers 200.  One worker at a   *)
(* time is meant to run: it takes a lease (SET NX EX), moves everything a  *)
(* dead predecessor left in "processing" back to "jobs", and then loops:   *)
(* promote the due retries, BRPOPLPUSH jobs -> processing, run the         *)
(* handler, and LREM the job from processing - directly on success, in one *)
(* MULTI with a ZADD to "retry" or an LPUSH to "dead" on failure.          *)
(*                                                                         *)
(* A Redis list is a sequence whose Head is its RIGHT end, the end RPOP    *)
(* takes from; LPUSH is Append.  "retry" is a sorted set: a sequence in    *)
(* score order, of which some prefix is due.                               *)
(***************************************************************************)
EXTENDS Integers, SequencesExt

CONSTANTS Workers,      \* worker processes that may be started
          Jobs,         \* webhook bodies, each enqueued at most once
          NoWorker,     \* the lease key is absent
          NoRaw,        \* a worker holds no reserved job
          MaxAttempts,  \* max_attempts of retry_or_dead_letter (5)
          MaxFailures,  \* bound: handler failures
          MaxStops,     \* bound: crashes, stops and lost leases
          MaxRequeues   \* bound: administrator requeues

ASSUME QueueAssumption ==
    /\ NoWorker \notin Workers
    /\ MaxAttempts \in Nat \ {0}
    /\ {MaxFailures, MaxStops, MaxRequeues} \subseteq Nat

\* A serialised job. The JSON text of two jobs is equal only when all its
\* fields are: "stamp" stands for last_failed_at, 0 in the text the webhook
\* wrote and -1 in the one requeue_dead re-encoded without that field.
Raw == [job : Jobs, attempts : Nat, stamp : Int]

ASSUME NoRawAssumption == NoRaw \notin Raw

VARIABLES queue, processing, retry, dead, \* the four Redis keys
          lock,      \* owner of the worker lease
          pc,        \* where each worker process is
          held,      \* the raw job each worker has reserved
          halt,      \* lost_lease is set, or running is False
          beats,     \* workers whose heartbeat thread runs
          accepted,  \* jobs the webhook has answered 200 for
          done,      \* jobs whose handler has completed at least once
          stamp,     \* failures so far, the clock behind last_failed_at
          frozen,    \* history: workers that froze past their lease and
                     \* have not noticed
          stranded,  \* history: jobs in "processing" that only the next
                     \* worker to start will find
          stops, requeues \* counters of the bounds

redis  == <<queue, processing, retry, dead>>
lease  == <<lock, beats>>
worker == <<pc, held, halt>>
past   == <<frozen, stranded>>
vars   == <<redis, lease, worker, accepted, done, stamp, past, stops,
            requeues>>

Init ==
    /\ queue = <<>> /\ processing = <<>> /\ retry = <<>> /\ dead = <<>>
    /\ lock = NoWorker
    /\ pc   = [w \in Workers |-> "down"]
    /\ held = [w \in Workers |-> NoRaw]
    /\ halt = [w \in Workers |-> FALSE]
    /\ accepted = {} /\ done = {}
    /\ beats = {} /\ frozen = {} /\ stranded = {}
    /\ stamp = 0 /\ stops = 0 /\ requeues = 0

-----------------------------------------------------------------------------
(* Redis commands.                                                         *)

\* LREM s 1 e, as a relation: equal elements are indistinguishable.
IsLrem(s, e, t) ==
    IF e \in ToSet(s)
    THEN \E i \in DOMAIN s : s[i] = e /\ t = RemoveAt(s, i)
    ELSE t = s

\* ZADD of a job due after a delay: its place among the scores is open.
IsZadd(s, e, t) == \E i \in 1 .. Len(s) + 1 : t = InsertAt(s, i, e)

-----------------------------------------------------------------------------
(* The webhook and the administrator.                                      *)

\* Mutant: the body is pushed without its envelope.
EnqueueBare(j) ==
    /\ j \notin accepted
    /\ accepted' = accepted \cup {j}
    /\ queue' = Append(queue, j)
    /\ UNCHANGED <<processing, retry, dead, lease, worker, done, stamp, past,
                   stops, requeues>>

Enqueue(j) ==
    /\ j \notin accepted
    /\ accepted' = accepted \cup {j}
    /\ queue' = Append(queue, [job |-> j, attempts |-> 0, stamp |-> 0])
    /\ UNCHANGED <<processing, retry, dead, lease, worker, done, stamp, past,
                   stops, requeues>>

\* One round of the loop of requeue_dead: an atomic script per job.
RequeueDead ==
    /\ dead # <<>>
    /\ requeues < MaxRequeues
    /\ requeues' = requeues + 1
    /\ dead' = Tail(dead)
    /\ queue' = Append(queue, [job |-> Head(dead).job, attempts |-> 0,
                               stamp |-> -1])
    /\ UNCHANGED <<processing, retry, lease, worker, accepted, done, stamp,
                   past, stops>>

-----------------------------------------------------------------------------
(* The lease.                                                              *)

\* acquire_worker_lock succeeds; a process that finds the key set exits.
Start(w) ==
    /\ pc[w] = "down"
    /\ lock = NoWorker
    /\ lock' = w /\ beats' = beats \cup {w}
    /\ pc' = [pc EXCEPT ![w] = "recover"]
    /\ halt' = [halt EXCEPT ![w] = FALSE]
    /\ UNCHANGED <<redis, held, accepted, done, stamp, past, stops, requeues>>

\* The key expires 30s after its last refresh: its owner is dead, or its
\* heartbeat thread has ended, whatever the main loop is doing.
LeaseExpires ==
    /\ lock # NoWorker /\ lock \notin beats
    /\ lock' = NoWorker
    /\ UNCHANGED <<redis, worker, beats, accepted, done, stamp, past, stops,
                   requeues>>

\* The process stands still, with its heartbeat, until the key has expired.
Freeze ==
    /\ lock \in beats
    /\ stops < MaxStops
    /\ stops' = stops + 1
    /\ lock' = NoWorker
    /\ frozen' = frozen \cup {lock}
    /\ UNCHANGED <<redis, worker, beats, accepted, done, stamp, stranded,
                   requeues>>

\* Mutant: the thread dies of the RedisError and does not tell the main loop.
HeartbeatDies(w) ==
    /\ w \in beats
    /\ stops < MaxStops
    /\ stops' = stops + 1
    /\ beats' = beats \ {w}
    /\ UNCHANGED <<redis, lock, worker, accepted, done, stamp, past, requeues>>

\* _lease_heartbeat ends at the first refresh that finds another owner or
\* meets a RedisError.  The main loop sees lost_lease at its head; until then
\* it goes on with the job it has, or takes the one it is waiting for.
HeartbeatEnds(w) ==
    /\ w \in beats
    /\ \/ lock # w /\ UNCHANGED stops
       \/ stops < MaxStops /\ stops' = stops + 1
    /\ beats' = beats \ {w}
    /\ halt' = [halt EXCEPT ![w] = TRUE]
    /\ frozen' = frozen \ {w}
    /\ UNCHANGED <<redis, lock, pc, held, accepted, done, stamp, stranded,
                   requeues>>

\* A signal clears "running", which the main loop reads at its head.
Halt(w) ==
    /\ pc[w] # "down"
    /\ ~halt[w]
    /\ stops < MaxStops
    /\ stops' = stops + 1
    /\ halt' = [halt EXCEPT ![w] = TRUE]
    /\ UNCHANGED <<redis, lease, pc, held, accepted, done, stamp, past,
                   requeues>>

\* The process is gone, and its heartbeat thread with it.  What it has in
\* "processing" waits for the next start if somebody else has the lease.
Ends(w) ==
    /\ pc' = [pc EXCEPT ![w] = "down"]
    /\ held' = [held EXCEPT ![w] = NoRaw]
    /\ beats' = beats \ {w} /\ frozen' = frozen \ {w}
    /\ stranded' = IF lock \notin {w, NoWorker} /\ held[w] \in ToSet(processing)
                   THEN stranded \cup {held[w].job}
                   ELSE stranded

\* The finally block of main: release_worker_lock deletes its own key only.
Stop(w) ==
    /\ pc[w] = "stop" \/ (pc[w] = "loop" /\ halt[w])
    /\ lock' = IF lock = w THEN NoWorker ELSE lock
    /\ Ends(w)
    /\ UNCHANGED <<redis, halt, accepted, done, stamp, stops, requeues>>

\* The process dies; the lease stays until it expires.
Crash(w) ==
    /\ pc[w] # "down"
    /\ stops < MaxStops
    /\ stops' = stops + 1
    /\ Ends(w)
    /\ UNCHANGED <<redis, lock, halt, accepted, done, stamp, requeues>>

-----------------------------------------------------------------------------
(* The worker's main loop.                                                 *)

\* One RPOPLPUSH of recover_interrupted.
RecoverOne(w) ==
    /\ pc[w] = "recover"
    /\ processing # <<>>
    /\ queue' = Append(queue, Head(processing))
    /\ processing' = Tail(processing)
    /\ stranded' = stranded \ {Head(processing).job}
    /\ UNCHANGED <<retry, dead, lease, worker, accepted, done, stamp, frozen,
                   stops, requeues>>

\* Mutant: recovery stops after a first batch.
RecoverSome(w) ==
    /\ pc[w] = "recover"
    /\ pc' = [pc EXCEPT ![w] = "loop"]
    /\ UNCHANGED <<redis, lease, held, halt, accepted, done, stamp, past,
                   stops, requeues>>

RecoverDone(w) ==
    /\ pc[w] = "recover"
    /\ processing = <<>>
    /\ pc' = [pc EXCEPT ![w] = "loop"]
    /\ UNCHANGED <<redis, lease, held, halt, accepted, done, stamp, past,
                   stops, requeues>>

\* promote_due, the first half of reserve: the due prefix becomes jobs.
PromoteN(w, n) ==
    /\ pc[w] = "loop"
    /\ ~halt[w]
    /\ queue' = queue \o SubSeq(retry, 1, n)
    /\ retry' = SubSeq(retry, n + 1, Len(retry))
    /\ pc' = [pc EXCEPT ![w] = "pop"]
    /\ UNCHANGED <<processing, dead, lease, held, halt, accepted, done, stamp,
                   past, stops, requeues>>

Promote(w) == \E n \in 0 .. Len(retry) : PromoteN(w, n)

\* All delays (at most 600s) are over.
PromoteAll(w) == retry # <<>> /\ PromoteN(w, Len(retry))

\* Mutant: BRPOP, the job is only in the worker's memory.
PopOnly(w) ==
    /\ pc[w] = "pop"
    /\ queue # <<>>
    /\ held' = [held EXCEPT ![w] = Head(queue)]
    /\ queue' = Tail(queue)
    /\ pc' = [pc EXCEPT ![w] = "handle"]
    /\ UNCHANGED <<processing, retry, dead, lease, halt, accepted, done, stamp,
                   past, stops, requeues>>

\* BRPOPLPUSH, the second half of reserve.
Pop(w) ==
    /\ pc[w] = "pop"
    /\ queue # <<>>
    /\ held' = [held EXCEPT ![w] = Head(queue)]
    /\ processing' = Append(processing, Head(queue))
    /\ queue' = Tail(queue)
    /\ pc' = [pc EXCEPT ![w] = "handle"]
    /\ UNCHANGED <<retry, dead, lease, halt, accepted, done, stamp, past,
                   stops, requeues>>

PopTimeout(w) ==
    /\ pc[w] = "pop"
    /\ queue = <<>>
    /\ pc' = [pc EXCEPT ![w] = "loop"]
    /\ UNCHANGED <<redis, lease, held, halt, accepted, done, stamp, past,
                   stops, requeues>>

\* Redis moved the job, the worker got a RedisError: it sleeps and loops.
PopReplyLost(w) ==
    /\ pc[w] = "pop"
    /\ queue # <<>>
    /\ processing' = Append(processing, Head(queue))
    /\ queue' = Tail(queue)
    /\ pc' = [pc EXCEPT ![w] = "loop"]
    /\ stranded' = stranded \cup {Head(queue).job}
    /\ UNCHANGED <<retry, dead, lease, held, halt, accepted, done, stamp,
                   frozen, stops, requeues>>

HandleOk(w) ==
    /\ pc[w] = "handle"
    /\ done' = done \cup {held[w].job}
    /\ pc' = [pc EXCEPT ![w] = "ack"]
    /\ UNCHANGED <<redis, lease, held, halt, accepted, stamp, past, stops,
                   requeues>>

HandleFails(w) ==
    /\ pc[w] = "handle"
    /\ stamp < MaxFailures
    /\ stamp' = stamp + 1
    /\ pc' = [pc EXCEPT ![w] = "nack"]
    /\ UNCHANGED <<redis, lease, held, halt, accepted, done, stops, requeues,
                   past>>

\* The Redis side of acknowledge and of retry_or_dead_letter.
Acknowledge(r) ==
    /\ IsLrem(processing, r, processing')
    /\ UNCHANGED <<queue, retry, dead>>

RetryOrDeadLetter(r) ==
    LET encoded == [job |-> r.job, attempts |-> r.attempts + 1,
                    stamp |-> stamp]
    IN /\ IF encoded.attempts >= MaxAttempts
          THEN dead' = Append(dead, encoded) /\ UNCHANGED retry
          ELSE IsZadd(retry, encoded, retry') /\ UNCHANGED dead
       /\ IsLrem(processing, r, processing')
       /\ UNCHANGED queue

Ack(w) ==
    /\ pc[w] = "ack"
    /\ Acknowledge(held[w])
    /\ pc' = [pc EXCEPT ![w] = "loop"]
    /\ held' = [held EXCEPT ![w] = NoRaw]
    /\ UNCHANGED <<lease, halt, accepted, done, stamp, past, stops, requeues>>

Nack(w) ==
    /\ pc[w] = "nack"
    /\ RetryOrDeadLetter(held[w])
    /\ pc' = [pc EXCEPT ![w] = "loop"]
    /\ held' = [held EXCEPT ![w] = NoRaw]
    /\ UNCHANGED <<lease, halt, accepted, done, stamp, past, stops, requeues>>

\* A RedisError around a command: during recovery, or before or after the
\* LREM or the MULTI took effect. The worker gives up and stops.
RedisFails(w) ==
    /\ pc[w] \in {"recover", "ack", "nack"}
    /\ stops < MaxStops
    /\ stops' = stops + 1
    /\ \/ UNCHANGED redis
       \/ pc[w] = "ack" /\ Acknowledge(held[w])
       \/ pc[w] = "nack" /\ RetryOrDeadLetter(held[w])
    /\ pc' = [pc EXCEPT ![w] = "stop"]
    /\ halt' = [halt EXCEPT ![w] = TRUE]
    /\ UNCHANGED <<lease, held, accepted, done, stamp, past, requeues>>

WorkerStep(w) ==
    \/ Start(w) \/ Stop(w)
    \/ RecoverOne(w) \/ RecoverDone(w)
    \/ Promote(w) \/ Pop(w) \/ PopTimeout(w)
    \/ HandleOk(w) \/ HandleFails(w) \/ Ack(w) \/ Nack(w)

Fault(w) ==
    \/ Halt(w) \/ HeartbeatEnds(w) \/ Crash(w)
    \/ PopReplyLost(w) \/ RedisFails(w)

Next ==
    \/ \E j \in Jobs : Enqueue(j)
    \/ RequeueDead
    \/ LeaseExpires \/ Freeze
    \/ \E w \in Workers : WorkerStep(w) \/ Fault(w)

Spec == Init /\ [][Next]_vars

\* A live process keeps executing, the container runtime restarts a stopped
\* one, Redis expires keys nobody refreshes, and a retry delay ends while the
\* worker polls.
Fairness ==
    /\ WF_vars(LeaseExpires)
    /\ \A w \in Workers : WF_vars(WorkerStep(w)) /\ SF_vars(PromoteAll(w))

FairSpec == Spec /\ Fairness

-----------------------------------------------------------------------------
(* Properties.                                                             *)

JobsIn(s) == {r.job : r \in ToSet(s)}

Pending == JobsIn(queue) \cup JobsIn(processing) \cup JobsIn(retry)

\* Types of the Redis keys and of the worker processes.
TypeOK ==
    /\ {queue, processing, retry, dead} \subseteq Seq(Raw)
    /\ lock \in Workers \cup {NoWorker}
    /\ pc \in [Workers -> {"down", "recover", "loop", "pop", "handle", "ack",
                           "nack", "stop"}]
    /\ held \in [Workers -> Raw \cup {NoRaw}]
    /\ halt \in [Workers -> BOOLEAN]
    /\ accepted \subseteq Jobs /\ done \subseteq Jobs
    /\ beats \subseteq Workers /\ frozen \subseteq Workers
    /\ stranded \subseteq Jobs
    /\ {stamp, stops, requeues} \subseteq Nat

\* A job the webhook accepted and no handler has completed is still in one
\* of the Redis keys, whatever crashes, freezes and lost replies happen
\* between the Redis commands of recovery, reserve, acknowledge and retry.
NoJobLost == \A j \in accepted \ done : j \in Pending \cup JobsIn(dead)

\* A second worker process takes over only from one that is dead, that has
\* been told to stop at the head of its loop - although its handler may still
\* be at work then - or that stood still past its lease and has not noticed.
SingleWorker ==
    \A v, w \in Workers :
        pc[v] # "down" /\ pc[w] # "down" /\ v # w =>
            \E x \in {v, w} : halt[x] \/ x \in frozen

\* Every accepted job is eventually completed or in the dead-letter list for
\* an operator, unless it is left in "processing" while a healthy worker has
\* the lease: by a BRPOPLPUSH whose reply was lost, or by a worker that ended
\* after another one had started.  Only the next start recovers such a job.
EveryJobSettles ==
    \A j \in Jobs : j \in accepted ~>
        j \in done \/ j \in JobsIn(dead) \/ j \in stranded
=============================================================================
