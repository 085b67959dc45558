------------------------ MODULE WhatsAppMessageProofs -------------------------
(***************************************************************************)
(* Proofs about one inbound WhatsApp message: its job in the Redis queue,  *)
(* for every set of workers and jobs and every bound - types, no job is    *)
(* lost, a second worker is up only when the first is about to stop or has *)
(* stood still - and the turn that answers it: at most one answer, for any *)
(* number of jobs, attempts, crashes and takeovers, as long as jobs do not *)
(* run at once.                                                            *)
(***************************************************************************)
EXTENDS WhatsAppQueue, WhatsAppTurn, SequenceTheorems, TLAPS

-----------------------------------------------------------------------------
(* THE QUEUE                                                               *)

-----------------------------------------------------------------------------
(* What the list commands do to the set of elements of a list.             *)

\* Appending (LPUSH) adds exactly the new element.
LEMMA AppendElements ==
    ASSUME NEW S, NEW s \in Seq(S), NEW e \in S
    PROVE  /\ Append(s, e) \in Seq(S)
           /\ ToSet(Append(s, e)) = ToSet(s) \cup {e}
<1>1. Append(s, e) \in Seq(S) /\ Len(Append(s, e)) = Len(s) + 1
  OBVIOUS
<1>2. \A i \in 1 .. Len(s) : Append(s, e)[i] = s[i]
  OBVIOUS
<1>3. Append(s, e)[Len(s) + 1] = e
  OBVIOUS
<1>4. ToSet(Append(s, e)) \subseteq ToSet(s) \cup {e}
  BY <1>1, <1>2, <1>3 DEF ToSet
<1>5. ToSet(s) \subseteq ToSet(Append(s, e))
  BY <1>1, <1>2 DEF ToSet
<1>6. e \in ToSet(Append(s, e))
  <2>1. Len(s) + 1 \in DOMAIN Append(s, e)
    BY <1>1
  <2>. QED
    BY <2>1, <1>3 DEF ToSet
<1>. QED
  BY <1>1, <1>4, <1>5, <1>6

\* Popping (RPOP) splits a non-empty list into its head and the rest.
LEMMA HeadTailElements ==
    ASSUME NEW S, NEW s \in Seq(S), s # <<>>
    PROVE  /\ Head(s) \in S /\ Tail(s) \in Seq(S)
           /\ ToSet(s) = {Head(s)} \cup ToSet(Tail(s))
<1>1. /\ Head(s) \in S /\ Tail(s) \in Seq(S)
      /\ Head(s) = s[1] /\ Len(s) > 0 /\ Len(Tail(s)) = Len(s) - 1
  OBVIOUS
<1>2. \A i \in 1 .. Len(s) - 1 : Tail(s)[i] = s[i + 1]
  OBVIOUS
<1>3. ASSUME NEW i \in DOMAIN s
      PROVE  s[i] \in {Head(s)} \cup ToSet(Tail(s))
  <2>1. CASE i = 1
    BY <2>1, <1>1
  <2>2. CASE i # 1
    <3>1. i - 1 \in DOMAIN Tail(s) /\ Tail(s)[i - 1] = s[i]
      BY <2>2, <1>1, <1>2
    <3>. QED
      BY <3>1 DEF ToSet
  <2>. QED
    BY <2>1, <2>2
<1>4. ASSUME NEW i \in DOMAIN Tail(s)
      PROVE  Tail(s)[i] \in ToSet(s)
  <2>1. i + 1 \in DOMAIN s /\ s[i + 1] = Tail(s)[i]
    BY <1>1, <1>2
  <2>. QED
    BY <2>1 DEF ToSet
<1>5. Head(s) \in ToSet(s)
  BY <1>1 DEF ToSet
<1>. QED
  BY <1>1, <1>3, <1>4, <1>5 DEF ToSet

\* Concatenation unites the elements.
LEMMA ConcatElements ==
    ASSUME NEW S, NEW s \in Seq(S), NEW t \in Seq(S)
    PROVE  /\ s \o t \in Seq(S)
           /\ ToSet(s \o t) = ToSet(s) \cup ToSet(t)
<1>1. s \o t \in Seq(S) /\ Len(s \o t) = Len(s) + Len(t)
  OBVIOUS
<1>2. /\ \A i \in 1 .. Len(s) : (s \o t)[i] = s[i]
      /\ \A i \in Len(s) + 1 .. Len(s) + Len(t) : (s \o t)[i] = t[i - Len(s)]
  OBVIOUS
<1>3. ToSet(s \o t) \subseteq ToSet(s) \cup ToSet(t)
  <2>. SUFFICES ASSUME NEW i \in DOMAIN (s \o t)
                PROVE  (s \o t)[i] \in ToSet(s) \cup ToSet(t)
    BY DEF ToSet
  <2>1. CASE i \in 1 .. Len(s)
    BY <2>1, <1>2 DEF ToSet
  <2>2. CASE i \in Len(s) + 1 .. Len(s) + Len(t)
    <3>1. i - Len(s) \in DOMAIN t
      BY <2>2
    <3>. QED
      BY <3>1, <2>2, <1>2 DEF ToSet
  <2>. QED
    BY <1>1, <2>1, <2>2
<1>4. ToSet(s) \subseteq ToSet(s \o t)
  BY <1>1, <1>2 DEF ToSet
<1>5. ToSet(t) \subseteq ToSet(s \o t)
  <2>. SUFFICES ASSUME NEW i \in DOMAIN t
                PROVE  t[i] \in ToSet(s \o t)
    BY DEF ToSet
  <2>1. /\ Len(s) + i \in DOMAIN (s \o t)
        /\ (s \o t)[Len(s) + i] = t[i]
    BY <1>1, <1>2
  <2>. QED
    BY <2>1 DEF ToSet
<1>. QED
  BY <1>1, <1>3, <1>4, <1>5

\* A contiguous part of a list is a list, and its elements are the ones at
\* its positions.
LEMMA SubSeqElements ==
    ASSUME NEW S, NEW s \in Seq(S),
           NEW m \in 1 .. Len(s) + 1, NEW n \in 0 .. Len(s)
    PROVE  /\ SubSeq(s, m, n) \in Seq(S)
           /\ ToSet(SubSeq(s, m, n)) = {s[i] : i \in m .. n}
<1>1. /\ SubSeq(s, m, n) \in Seq(S)
      /\ Len(SubSeq(s, m, n)) = IF m <= n THEN n - m + 1 ELSE 0
      /\ \A i \in 1 .. n - m + 1 : SubSeq(s, m, n)[i] = s[m + i - 1]
  BY SubSeqProperties
<1>2. DOMAIN SubSeq(s, m, n) = 1 .. n - m + 1
  BY <1>1
<1>3. ASSUME NEW i \in DOMAIN SubSeq(s, m, n)
      PROVE  SubSeq(s, m, n)[i] \in {s[k] : k \in m .. n}
  <2>1. m + i - 1 \in m .. n /\ SubSeq(s, m, n)[i] = s[m + i - 1]
    BY <1>1, <1>2
  <2>. QED
    BY <2>1
<1>4. ASSUME NEW k \in m .. n
      PROVE  s[k] \in ToSet(SubSeq(s, m, n))
  <2>1. k - m + 1 \in DOMAIN SubSeq(s, m, n)
    BY <1>2
  <2>2. SubSeq(s, m, n)[k - m + 1] = s[k]
    BY <1>1, <1>2, <2>1
  <2>. QED
    BY <2>1, <2>2 DEF ToSet
<1>. QED
  BY <1>1, <1>3, <1>4 DEF ToSet

\* Cutting a list in two loses nothing (promotion of the due retries).
LEMMA SplitElements ==
    ASSUME NEW S, NEW s \in Seq(S), NEW n \in 0 .. Len(s)
    PROVE  /\ SubSeq(s, 1, n) \in Seq(S)
           /\ SubSeq(s, n + 1, Len(s)) \in Seq(S)
           /\ ToSet(s) = ToSet(SubSeq(s, 1, n))
                             \cup ToSet(SubSeq(s, n + 1, Len(s)))
<1>1. /\ SubSeq(s, 1, n) \in Seq(S)
      /\ ToSet(SubSeq(s, 1, n)) = {s[i] : i \in 1 .. n}
  BY SubSeqElements
<1>2. n + 1 \in 1 .. Len(s) + 1 /\ Len(s) \in 0 .. Len(s)
  OBVIOUS
<1>3. /\ SubSeq(s, n + 1, Len(s)) \in Seq(S)
      /\ ToSet(SubSeq(s, n + 1, Len(s))) = {s[i] : i \in n + 1 .. Len(s)}
  BY <1>2, SubSeqElements
<1>4. ToSet(s) = {s[i] : i \in 1 .. n} \cup {s[i] : i \in n + 1 .. Len(s)}
  BY DEF ToSet
<1>. QED
  BY <1>1, <1>3, <1>4

\* Removing one position (LREM 1) loses at most the element there.
LEMMA RemoveAtElements ==
    ASSUME NEW S, NEW s \in Seq(S), NEW k \in DOMAIN s
    PROVE  /\ RemoveAt(s, k) \in Seq(S)
           /\ ToSet(RemoveAt(s, k)) \subseteq ToSet(s)
           /\ ToSet(s) \subseteq ToSet(RemoveAt(s, k)) \cup {s[k]}
<1>. DEFINE l == SubSeq(s, 1, k - 1)
            r == SubSeq(s, k + 1, Len(s))
<1>1. k - 1 \in 0 .. Len(s) /\ k + 1 \in 1 .. Len(s) + 1
  OBVIOUS
<1>2. l \in Seq(S) /\ ToSet(l) = {s[i] : i \in 1 .. k - 1}
  BY <1>1, SubSeqElements
<1>3. r \in Seq(S) /\ ToSet(r) = {s[i] : i \in k + 1 .. Len(s)}
  BY <1>1, SubSeqElements
<1>. HIDE DEF l, r
<1>4. l \o r \in Seq(S) /\ ToSet(l \o r) = ToSet(l) \cup ToSet(r)
  BY ONLY <1>2, <1>3, ConcatElements
<1>5. ToSet(s) = {s[i] : i \in 1 .. k - 1} \cup {s[k]}
                     \cup {s[i] : i \in k + 1 .. Len(s)}
  BY DEF ToSet
<1>. QED
  BY <1>2, <1>3, <1>4, <1>5 DEF RemoveAt, l, r

\* Inserting (ZADD of a new member) adds exactly the new element.
LEMMA InsertAtElements ==
    ASSUME NEW S, NEW s \in Seq(S), NEW e \in S, NEW k \in 1 .. Len(s) + 1
    PROVE  /\ InsertAt(s, k, e) \in Seq(S)
           /\ ToSet(InsertAt(s, k, e)) = ToSet(s) \cup {e}
<1>. DEFINE l == SubSeq(s, 1, k - 1)
            r == SubSeq(s, k, Len(s))
            one == <<e>>
<1>1. k - 1 \in 0 .. Len(s) /\ Len(s) \in 0 .. Len(s)
  OBVIOUS
<1>2. l \in Seq(S) /\ ToSet(l) = {s[i] : i \in 1 .. k - 1}
  BY <1>1, SubSeqElements
<1>3. r \in Seq(S) /\ ToSet(r) = {s[i] : i \in k .. Len(s)}
  BY <1>1, SubSeqElements
<1>4. one \in Seq(S) /\ ToSet(one) = {e}
  BY DEF ToSet
<1>. HIDE DEF l, r, one
<1>5. l \o one \in Seq(S) /\ ToSet(l \o one) = ToSet(l) \cup {e}
  BY <1>2, <1>4, ConcatElements
<1>. DEFINE lo == l \o one
<1>. HIDE DEF lo
<1>6. lo \o r \in Seq(S) /\ ToSet(lo \o r) = ToSet(lo) \cup ToSet(r)
  <2>1. lo \in Seq(S)
    BY <1>5 DEF lo
  <2>. QED
    BY <1>3, <2>1, ConcatElements
<1>7. ToSet(s) = {s[i] : i \in 1 .. k - 1} \cup {s[i] : i \in k .. Len(s)}
  BY DEF ToSet
<1>. QED
  BY <1>2, <1>3, <1>5, <1>6, <1>7 DEF InsertAt, lo, l, r, one

\* LREM removes at most the element it names and adds nothing.
LEMMA LremElements ==
    ASSUME NEW s \in Seq(Raw), NEW e, NEW t, IsLrem(s, e, t)
    PROVE  /\ t \in Seq(Raw)
           /\ ToSet(t) \subseteq ToSet(s)
           /\ ToSet(s) \subseteq ToSet(t) \cup {e}
<1>1. CASE e \in ToSet(s)
  <2>1. PICK i \in DOMAIN s : s[i] = e /\ t = RemoveAt(s, i)
    BY <1>1 DEF IsLrem
  <2>. QED
    BY <2>1, RemoveAtElements
<1>2. CASE e \notin ToSet(s)
  BY <1>2 DEF IsLrem
<1>. QED
  BY <1>1, <1>2

\* ZADD of a new member adds exactly that member.
LEMMA ZaddElements ==
    ASSUME NEW s \in Seq(Raw), NEW e \in Raw, NEW t, IsZadd(s, e, t)
    PROVE  t \in Seq(Raw) /\ ToSet(t) = ToSet(s) \cup {e}
<1>1. PICK i \in 1 .. Len(s) + 1 : t = InsertAt(s, i, e)
  BY DEF IsZadd
<1>. QED
  BY <1>1, InsertAtElements

-----------------------------------------------------------------------------
\* What a worker past Pop knows of the job it holds.
HeldIsRaw ==
    \A w \in Workers : pc[w] \in {"handle", "ack", "nack"} => held[w] \in Raw

\* An acknowledged job has been completed.
AckIsDone == \A w \in Workers : pc[w] = "ack" => held[w].job \in done

TypeInv == TypeOK /\ HeldIsRaw

\* The jobs that a Redis key still holds.
Stored == JobsIn(queue) \cup JobsIn(processing) \cup JobsIn(retry)
              \cup JobsIn(dead)

\* acknowledge keeps the types and can drop only the acknowledged job.
LEMMA AcknowledgeKeeps ==
    ASSUME TypeOK, NEW r \in Raw, Acknowledge(r)
    PROVE  /\ {queue, processing, retry, dead}' \subseteq Seq(Raw)
           /\ Stored \subseteq Stored' \cup {r.job}
<1>1. /\ processing' \in Seq(Raw)
      /\ ToSet(processing) \subseteq ToSet(processing') \cup {r}
  BY LremElements DEF TypeOK, Acknowledge
<1>2. UNCHANGED <<queue, retry, dead>>
  BY DEF Acknowledge
<1>. QED
  BY <1>1, <1>2 DEF TypeOK, Stored, JobsIn

\* retry_or_dead_letter keeps the types and drops no job.
LEMMA RetryOrDeadLetterKeeps ==
    ASSUME TypeOK, NEW r \in Raw, RetryOrDeadLetter(r)
    PROVE  /\ {queue, processing, retry, dead}' \subseteq Seq(Raw)
           /\ Stored \subseteq Stored'
<1>. DEFINE encoded == [job |-> r.job, attempts |-> r.attempts + 1,
                        stamp |-> stamp]
<1>1. encoded \in Raw /\ encoded.job = r.job
  BY DEF Raw, TypeOK
<1>2. /\ processing' \in Seq(Raw)
      /\ ToSet(processing) \subseteq ToSet(processing') \cup {r}
  BY LremElements DEF TypeOK, RetryOrDeadLetter
<1>3. UNCHANGED queue
  BY DEF RetryOrDeadLetter
<1>. HIDE DEF encoded
<1>4. CASE encoded.attempts >= MaxAttempts
  <2>1. dead' = Append(dead, encoded) /\ retry' = retry
    BY <1>4 DEF RetryOrDeadLetter, encoded
  <2>2. dead' \in Seq(Raw) /\ ToSet(dead') = ToSet(dead) \cup {encoded}
    BY <2>1, <1>1, AppendElements DEF TypeOK
  <2>. QED
    BY <1>1, <1>2, <1>3, <2>1, <2>2 DEF TypeOK, Stored, JobsIn
<1>5. CASE ~(encoded.attempts >= MaxAttempts)
  <2>1. IsZadd(retry, encoded, retry') /\ dead' = dead
    BY <1>5 DEF RetryOrDeadLetter, encoded
  <2>2. retry' \in Seq(Raw) /\ ToSet(retry') = ToSet(retry) \cup {encoded}
    BY <2>1, <1>1, ZaddElements DEF TypeOK
  <2>. QED
    BY <1>1, <1>2, <1>3, <2>1, <2>2 DEF TypeOK, Stored, JobsIn
<1>. QED
  BY <1>4, <1>5

-----------------------------------------------------------------------------
LEMMA TypeInit == Init => TypeInv
<1>. SUFFICES ASSUME Init PROVE TypeInv
  OBVIOUS
<1>1. <<>> \in Seq(Raw)
  OBVIOUS
<1>. QED
  BY <1>1 DEF Init, TypeInv, TypeOK, HeldIsRaw

\* What a process that ends leaves behind is typed.
LEMMA EndsTyped ==
    ASSUME TypeInv, NEW w \in Workers, Ends(w)
    PROVE  /\ pc' \in [Workers -> {"down", "recover", "loop", "pop", "handle",
                                   "ack", "nack", "stop"}]
           /\ held' \in [Workers -> Raw \cup {NoRaw}]
           /\ beats' \subseteq Workers /\ frozen' \subseteq Workers
           /\ stranded' \subseteq Jobs
           /\ HeldIsRaw'
<1>1. held[w] \in ToSet(processing) => held[w].job \in Jobs
  <2>1. held[w] \in ToSet(processing) => held[w] \in Raw
    BY DEF TypeInv, TypeOK, ToSet
  <2>. QED
    BY <2>1 DEF Raw
<1>. QED
  BY <1>1 DEF Ends, TypeInv, TypeOK, HeldIsRaw

LEMMA TypeStep == TypeInv /\ [Next]_vars => TypeInv'
<1>. SUFFICES ASSUME TypeInv, [Next]_vars PROVE TypeInv'
  OBVIOUS
<1>. USE QueueAssumption, NoRawAssumption
    DEF TypeInv, TypeOK, HeldIsRaw, past, lease
<1>1. ASSUME NEW j \in Jobs, Enqueue(j) PROVE TypeInv'
  <2>1. [job |-> j, attempts |-> 0, stamp |-> 0] \in Raw
    BY DEF Raw
  <2>2. queue' \in Seq(Raw)
    BY <1>1, <2>1, AppendElements DEF Enqueue
  <2>. QED
    BY <1>1, <2>2 DEF Enqueue, worker
<1>2. CASE RequeueDead
  <2>1. Head(dead) \in Raw /\ Tail(dead) \in Seq(Raw)
    BY <1>2, HeadTailElements DEF RequeueDead
  <2> DEFINE fresh == [job |-> Head(dead).job, attempts |-> 0, stamp |-> -1]
  <2>2. fresh \in Raw
    BY <2>1 DEF Raw
  <2>3. queue' \in Seq(Raw)
    <3>1. queue' = Append(queue, fresh)
      BY ONLY <1>2 DEF RequeueDead
    <3>. HIDE DEF fresh
    <3>. QED
      BY ONLY <2>2, <3>1, queue \in Seq(Raw), AppendElements
  <2>4. dead' \in Seq(Raw)
    BY ONLY <1>2, <2>1 DEF RequeueDead
  <2>. HIDE DEF fresh
  <2>5. requeues' \in Nat
    BY <1>2 DEF RequeueDead
  <2>6. UNCHANGED <<processing, retry, lease, worker, accepted, done, stamp,
                    past, stops>>
    BY ONLY <1>2 DEF RequeueDead
  <2>. QED
    BY <2>3, <2>4, <2>5, <2>6 DEF worker
<1>3. CASE LeaseExpires \/ Freeze
  BY <1>3 DEF LeaseExpires, Freeze, redis, worker
<1>4. ASSUME NEW w \in Workers, WorkerStep(w) PROVE TypeInv'
  <2>1. CASE Start(w)
    BY <2>1 DEF Start, redis
  <2>2. CASE Stop(w)
    BY <2>2, EndsTyped DEF Stop, redis
  <2>3. CASE RecoverOne(w)
    <3>1. Head(processing) \in Raw /\ Tail(processing) \in Seq(Raw)
      BY <2>3, HeadTailElements DEF RecoverOne
    <3>2. queue' \in Seq(Raw)
      BY <2>3, <3>1, AppendElements DEF RecoverOne
    <3>. QED
      BY <2>3, <3>1, <3>2 DEF RecoverOne, worker
  <2>4. CASE RecoverDone(w)
    BY <2>4 DEF RecoverDone, redis
  <2>5. CASE Promote(w)
    <3>1. PICK n \in 0 .. Len(retry) : PromoteN(w, n)
      BY <2>5 DEF Promote
    <3>2. /\ SubSeq(retry, 1, n) \in Seq(Raw)
          /\ SubSeq(retry, n + 1, Len(retry)) \in Seq(Raw)
      BY SplitElements
    <3>3. queue' \in Seq(Raw) /\ retry' \in Seq(Raw)
      BY <3>1, <3>2, ConcatElements DEF PromoteN
    <3>. QED
      BY <3>1, <3>3 DEF PromoteN
  <2>6. CASE Pop(w)
    <3>1. Head(queue) \in Raw /\ Tail(queue) \in Seq(Raw)
      BY <2>6, HeadTailElements DEF Pop
    <3>2. processing' \in Seq(Raw)
      BY <2>6, <3>1, AppendElements DEF Pop
    <3>. QED
      BY <2>6, <3>1, <3>2 DEF Pop
  <2>7. CASE PopTimeout(w)
    BY <2>7 DEF PopTimeout, redis
  <2>8. CASE HandleOk(w)
    BY <2>8 DEF HandleOk, redis, Raw
  <2>9. CASE HandleFails(w)
    BY <2>9 DEF HandleFails, redis
  <2>10. CASE Ack(w)
    <3>1. {queue, processing, retry, dead}' \subseteq Seq(Raw)
      BY <2>10, AcknowledgeKeeps DEF Ack
    <3>. QED
      BY <2>10, <3>1 DEF Ack
  <2>11. CASE Nack(w)
    <3>1. {queue, processing, retry, dead}' \subseteq Seq(Raw)
      BY <2>11, RetryOrDeadLetterKeeps DEF Nack
    <3>. QED
      BY <2>11, <3>1 DEF Nack
  <2>. QED
    BY <1>4, <2>1, <2>2, <2>3, <2>4, <2>5, <2>6, <2>7, <2>8, <2>9, <2>10,
       <2>11 DEF WorkerStep
<1>5. ASSUME NEW w \in Workers, Fault(w) PROVE TypeInv'
  <2>1. CASE Halt(w)
    BY <2>1 DEF Halt, redis
  <2>2. CASE Crash(w)
    BY <2>2, EndsTyped DEF Crash, redis
  <2>3. CASE PopReplyLost(w)
    <3>1. Head(queue) \in Raw /\ Tail(queue) \in Seq(Raw)
      BY <2>3, HeadTailElements DEF PopReplyLost
    <3>2. processing' \in Seq(Raw)
      BY <2>3, <3>1, AppendElements DEF PopReplyLost
    <3>3. Head(queue).job \in Jobs
      BY <3>1 DEF Raw
    <3>. QED
      BY <2>3, <3>1, <3>2, <3>3 DEF PopReplyLost
  <2>4. CASE RedisFails(w)
    <3>1. {queue, processing, retry, dead}' \subseteq Seq(Raw)
      <4>1. CASE UNCHANGED redis
        BY <4>1 DEF redis
      <4>2. CASE pc[w] = "ack" /\ Acknowledge(held[w])
        BY <4>2, AcknowledgeKeeps
      <4>3. CASE pc[w] = "nack" /\ RetryOrDeadLetter(held[w])
        BY <4>3, RetryOrDeadLetterKeeps
      <4>. QED
        BY <2>4, <4>1, <4>2, <4>3 DEF RedisFails
    <3>. QED
      BY <2>4, <3>1 DEF RedisFails
  <2>5. CASE HeartbeatEnds(w)
    BY <2>5 DEF HeartbeatEnds, redis
  <2>. QED
    BY <1>5, <2>1, <2>2, <2>3, <2>4, <2>5 DEF Fault
<1>6. CASE UNCHANGED vars
  BY <1>6 DEF vars, redis, worker
<1>. QED
  BY <1>1, <1>2, <1>3, <1>4, <1>5, <1>6 DEF Next

\* Redis keys and worker processes keep their types.
THEOREM TypeCorrect == Spec => []TypeOK
<1>1. TypeInv => TypeOK
  BY DEF TypeInv
<1>. QED
  BY <1>1, TypeInit, TypeStep, PTL DEF Spec

-----------------------------------------------------------------------------
(* No job is lost.  A step drops a job from the keys only when it is the   *)
(* LREM of a job whose handler has completed, which is what AckIsDone says.*)

LossInv == TypeInv /\ AckIsDone /\ NoJobLost

LEMMA StoredIsKept == NoJobLost <=> accepted \ done \subseteq Stored
BY DEF NoJobLost, Stored, Pending, JobsIn

LEMMA LossInit == Init => LossInv
BY TypeInit DEF Init, LossInv, AckIsDone, NoJobLost

\* Every step but an acknowledgement keeps every job in some key.
LEMMA StepKeepsJobs ==
    ASSUME TypeInv, NEW w \in Workers, WorkerStep(w) \/ Fault(w)
    PROVE  \/ Stored \subseteq Stored'
           \/ pc[w] = "ack" /\ Stored \subseteq Stored' \cup {held[w].job}
<1>. USE DEF TypeInv, TypeOK, HeldIsRaw
<1>1. CASE UNCHANGED redis
  BY <1>1 DEF redis, Stored
<1>2. CASE RecoverOne(w)
  <2>1. /\ Head(processing) \in Raw
        /\ ToSet(processing) = {Head(processing)} \cup ToSet(Tail(processing))
    BY <1>2, HeadTailElements DEF RecoverOne
  <2>2. ToSet(queue') = ToSet(queue) \cup {Head(processing)}
    BY <1>2, <2>1, AppendElements DEF RecoverOne
  <2>. QED
    BY <1>2, <2>1, <2>2 DEF RecoverOne, Stored, JobsIn
<1>3. CASE Promote(w)
  <2>1. PICK n \in 0 .. Len(retry) : PromoteN(w, n)
    BY <1>3 DEF Promote
  <2>. DEFINE due == SubSeq(retry, 1, n)
  <2>2. /\ due \in Seq(Raw)
        /\ ToSet(retry) = ToSet(due)
                              \cup ToSet(SubSeq(retry, n + 1, Len(retry)))
    BY SplitElements
  <2>3. /\ queue' = queue \o due
        /\ retry' = SubSeq(retry, n + 1, Len(retry))
        /\ UNCHANGED <<processing, dead>>
    BY <2>1 DEF PromoteN
  <2>4. queue \in Seq(Raw)
    OBVIOUS
  <2>. HIDE DEF due
  <2>5. ToSet(queue \o due) = ToSet(queue) \cup ToSet(due)
    BY ONLY <2>2, <2>4, ConcatElements
  <2>. QED
    BY <2>2, <2>3, <2>5 DEF Stored, JobsIn
<1>4. CASE Pop(w) \/ PopReplyLost(w)
  <2>1. /\ Head(queue) \in Raw
        /\ ToSet(queue) = {Head(queue)} \cup ToSet(Tail(queue))
    BY <1>4, HeadTailElements DEF Pop, PopReplyLost
  <2>2. ToSet(Append(processing, Head(queue)))
            = ToSet(processing) \cup {Head(queue)}
    BY <2>1, AppendElements
  <2>. QED
    BY <1>4, <2>1, <2>2 DEF Pop, PopReplyLost, Stored, JobsIn
<1>5. CASE pc[w] = "ack" /\ Acknowledge(held[w])
  BY <1>5, AcknowledgeKeeps
<1>6. CASE pc[w] = "nack" /\ RetryOrDeadLetter(held[w])
  BY <1>6, RetryOrDeadLetterKeeps
<1>7. WorkerStep(w) => \/ UNCHANGED redis \/ RecoverOne(w) \/ Promote(w)
                       \/ Pop(w)
                       \/ pc[w] = "ack" /\ Acknowledge(held[w])
                       \/ pc[w] = "nack" /\ RetryOrDeadLetter(held[w])
  BY DEF WorkerStep, Start, Stop, RecoverDone, PopTimeout, HandleOk,
         HandleFails, Ack, Nack, Ends
<1>8. Fault(w) => \/ UNCHANGED redis \/ PopReplyLost(w)
                  \/ pc[w] = "ack" /\ Acknowledge(held[w])
                  \/ pc[w] = "nack" /\ RetryOrDeadLetter(held[w])
  BY DEF Fault, Halt, HeartbeatEnds, Crash, RedisFails
<1>. QED
  BY <1>1, <1>2, <1>3, <1>4, <1>5, <1>6, <1>7, <1>8

\* The bookkeeping of a worker's step: nothing new is accepted, what is done
\* stays done, and a worker reaches "ack" only with a completed job.
LEMMA StepKeepsDone ==
    ASSUME TypeInv, AckIsDone, NEW w \in Workers, WorkerStep(w) \/ Fault(w)
    PROVE  /\ accepted' = accepted
           /\ done \subseteq done'
           /\ AckIsDone'
<1>. USE DEF TypeInv, TypeOK, HeldIsRaw, AckIsDone
<1>1. CASE HandleOk(w)
  BY <1>1 DEF HandleOk
<1>2. CASE WorkerStep(w) /\ ~HandleOk(w)
  <2>1. accepted' = accepted /\ done' = done
    BY <1>2 DEF WorkerStep, Start, Stop, RecoverOne, RecoverDone, Promote,
               PromoteN, Pop, PopTimeout, HandleFails, Ack, Nack, worker
  <2>2. \A v \in Workers :
          pc'[v] = "ack" => pc[v] = "ack" /\ held'[v] = held[v]
    BY <1>2 DEF WorkerStep, Start, Stop, RecoverOne, RecoverDone, Promote,
               PromoteN, Pop, PopTimeout, HandleFails, Ack, Nack, worker, Ends
  <2>. QED
    BY <2>1, <2>2
<1>3. CASE Fault(w)
  BY <1>3 DEF Fault, Halt, HeartbeatEnds, Crash, PopReplyLost, RedisFails,
              Ends
<1>. QED
  BY <1>1, <1>2, <1>3

LEMMA LossStep == LossInv /\ [Next]_vars => LossInv'
<1>. SUFFICES ASSUME LossInv, [Next]_vars PROVE LossInv'
  OBVIOUS
<1>. USE DEF LossInv
<1>1. TypeInv'
  BY TypeStep
<1>2. NoJobLost' <=> accepted' \ done' \subseteq Stored'
  BY DEF NoJobLost, Stored, Pending, JobsIn
<1>3. CASE \E j \in Jobs : Enqueue(j)
  <2>1. PICK j \in Jobs : Enqueue(j)
    BY <1>3
  <2>2. [job |-> j, attempts |-> 0, stamp |-> 0] \in Raw
    BY DEF Raw
  <2>3. ToSet(queue') = ToSet(queue)
                            \cup {[job |-> j, attempts |-> 0, stamp |-> 0]}
    BY <2>1, <2>2, AppendElements DEF Enqueue, TypeInv, TypeOK
  <2>4. Stored \cup {j} \subseteq Stored'
    BY <2>1, <2>3 DEF Enqueue, Stored, JobsIn
  <2>5. AckIsDone'
    BY <2>1 DEF Enqueue, AckIsDone, worker
  <2>. QED
    BY <1>1, <1>2, <2>1, <2>4, <2>5, StoredIsKept DEF Enqueue
<1>4. CASE RequeueDead
  <2>1. /\ Head(dead) \in Raw
        /\ ToSet(dead) = {Head(dead)} \cup ToSet(Tail(dead))
    BY <1>4, HeadTailElements DEF RequeueDead, TypeInv, TypeOK
  <2>. DEFINE again == [job |-> Head(dead).job, attempts |-> 0, stamp |-> -1]
  <2>2. again \in Raw /\ again.job = Head(dead).job
    BY <2>1 DEF Raw
  <2>3. ToSet(queue') = ToSet(queue) \cup {again}
    BY <1>4, <2>2, AppendElements DEF RequeueDead, TypeInv, TypeOK
  <2>. HIDE DEF again
  <2>4. Stored \subseteq Stored'
    BY <1>4, <2>1, <2>2, <2>3 DEF RequeueDead, Stored, JobsIn
  <2>5. AckIsDone'
    BY <1>4 DEF RequeueDead, AckIsDone, worker
  <2>. QED
    BY <1>1, <1>2, <1>4, <2>4, <2>5, StoredIsKept DEF RequeueDead
<1>5. CASE LeaseExpires \/ Freeze \/ UNCHANGED vars
  <2>1. UNCHANGED <<redis, worker, accepted, done>>
    BY <1>5 DEF LeaseExpires, Freeze, vars
  <2>. QED
    BY <1>1, <2>1 DEF redis, worker, AckIsDone, NoJobLost, Pending, JobsIn
<1>6. CASE \E w \in Workers : WorkerStep(w) \/ Fault(w)
  <2>1. PICK w \in Workers : WorkerStep(w) \/ Fault(w)
    BY <1>6
  <2>2. accepted' = accepted /\ done \subseteq done' /\ AckIsDone'
    BY <2>1, StepKeepsDone
  <2>3. accepted' \ done' \subseteq Stored'
    <3>1. CASE Stored \subseteq Stored'
      BY <3>1, <2>2, StoredIsKept
    <3>2. CASE pc[w] = "ack" /\ Stored \subseteq Stored' \cup {held[w].job}
      BY <3>2, <2>2, StoredIsKept DEF AckIsDone
    <3>. QED
      BY <2>1, <3>1, <3>2, StepKeepsJobs
  <2>. QED
    BY <1>1, <1>2, <2>2, <2>3
<1>. QED
  BY <1>3, <1>4, <1>5, <1>6 DEF Next

\* Whatever crashes, freezes and lost replies happen, an accepted job that no
\* handler completed is still in one of the Redis keys.
THEOREM NoJobIsLost == Spec => []NoJobLost
<1>1. LossInv => NoJobLost
  BY DEF LossInv
<1>. QED
  BY <1>1, LossInit, LossStep, PTL DEF Spec

-----------------------------------------------------------------------------
(* The lease.  As long as nothing has told a process to stop, its heartbeat *)
(* runs and the lease is its own, or it stood still past it.               *)

LeaseInv ==
    \A w \in Workers : pc[w] # "down" /\ ~halt[w] =>
        w \in beats /\ (lock = w \/ w \in frozen)

\* A process that ends does not change what is known of the others.
LEMMA EndsLease ==
    ASSUME TypeOK, LeaseInv, NEW w \in Workers, Ends(w), halt' = halt,
           lock' = lock \/ lock = w
    PROVE  LeaseInv'
BY DEF TypeOK, LeaseInv, Ends

LEMMA LeaseStep == TypeOK /\ LeaseInv /\ [Next]_vars => LeaseInv'
<1>. SUFFICES ASSUME TypeOK, LeaseInv, [Next]_vars
              PROVE  LeaseInv'
  OBVIOUS
<1>. USE QueueAssumption DEF TypeOK, LeaseInv, past, lease
<1>1. CASE (\E j \in Jobs : Enqueue(j)) \/ RequeueDead \/ UNCHANGED vars
  BY <1>1 DEF Enqueue, RequeueDead, vars, worker
<1>2. CASE LeaseExpires \/ Freeze
  BY <1>2 DEF LeaseExpires, Freeze, worker
<1>3. ASSUME NEW w \in Workers, WorkerStep(w) PROVE LeaseInv'
  <2>1. CASE Start(w)
    BY <2>1 DEF Start
  <2>2. CASE Stop(w)
    BY <2>2, EndsLease DEF Stop
  <2>3. CASE ~Start(w) /\ ~Stop(w)
    <3>1. UNCHANGED <<lock, beats, frozen, halt>>
      BY <1>3, <2>3 DEF WorkerStep, RecoverOne, RecoverDone, Promote,
           PromoteN, Pop, PopTimeout, HandleOk, HandleFails, Ack, Nack, worker
    <3>2. \A v \in Workers : pc'[v] # "down" => pc[v] # "down"
      BY <1>3, <2>3 DEF WorkerStep, RecoverOne, RecoverDone, Promote,
           PromoteN, Pop, PopTimeout, HandleOk, HandleFails, Ack, Nack, worker
    <3>. QED
      BY <3>1, <3>2
  <2>. QED
    BY <2>1, <2>2, <2>3
<1>4. ASSUME NEW w \in Workers, Fault(w) PROVE LeaseInv'
  <2>1. CASE Crash(w)
    BY <2>1, EndsLease DEF Crash
  <2>2. CASE Fault(w) /\ ~Crash(w)
    BY <2>2 DEF Fault, Halt, HeartbeatEnds, PopReplyLost, RedisFails
  <2>. QED
    BY <1>4, <2>1, <2>2
<1>. QED
  BY <1>1, <1>2, <1>3, <1>4 DEF Next

\* Of two worker processes that are up, one is to stop at the head of its
\* loop, or stood still past its lease and has not noticed.
THEOREM AtMostOneWorker == Spec => []SingleWorker
<1>1. Init => LeaseInv
  BY DEF Init, LeaseInv
<1>2. TypeOK /\ LeaseInv /\ [Next]_vars => LeaseInv'
  BY LeaseStep
<1>3. LeaseInv => SingleWorker
  BY DEF LeaseInv, SingleWorker
<1>. QED
  BY <1>1, <1>2, <1>3, TypeCorrect, PTL DEF Spec

-----------------------------------------------------------------------------
(* THE TURN                                                                *)

\* Where an execution has read that the message is not handled yet and has
\* prepared nothing for it.
Before == {"contact", "bind", "turn", "chat", "check", "ensure", "insert",
           "complete", "fallback", "fallback claim", "fallback bind",
           "takeover", "takeover claim", "takeover bind"}

Labels == Idle \cup Before \cup {"claim", "duplicate", "attempt", "send"}

Shape ==
    /\ at \in [Runs -> Labels]
    /\ DOMAIN kind = Runs
    /\ DOMAIN delivery = Kinds

\* Jobs do not overlap: one execution is under way.
Solo == \A r, s \in Runs : at[r] \notin Idle /\ at[s] \notin Idle => r = s

\* What an execution has read of the claim is still so.
Fresh == (\E r \in Runs : at[r] \in Before) => claim # "processed"

\* An answer is committed together with the terminal claim.
Recorded ==
    claim # "processed" => \A k \in Kinds : delivery[k] = "none"

\* What is being sent has a row.
Sent ==
    \A r \in Runs : at[r] = "send" /\ kind[r] \in Kinds =>
        delivery[kind[r]] # "none"

\* The inductive invariant of OneAnswer.
TurnInv ==
    /\ Shape
    /\ ~overlap => Solo /\ Fresh /\ Recorded /\ SingleAnswer /\ Sent

-----------------------------------------------------------------------------
(* The steps by what they do to the claim and the deliveries.              *)

\* r goes on, and to a place before the answer only if it was there already
\* or the claim is open.
Moves(r, l) ==
    /\ Goto(r, l)
    /\ at[r] \in Idle /\ ~overlap => \A s \in Runs : at[s] \in Idle
    /\ l \in Before => at[r] \in Before \/ claim # "processed"
    /\ l \in Labels \ {"send"}
    /\ UNCHANGED <<claim, delivery, overlap>>

\* r prepares an answer.
Commits(r) ==
    /\ at[r] \in Before
    /\ \E k \in Kinds : CommitDelivery(r, k)
    /\ Goto(r, "attempt")
    /\ UNCHANGED overlap

\* r handles the message without an answer.
Closes(r) ==
    /\ at[r] \in Before
    /\ claim' = "processed"
    /\ Goto(r, "ok")
    /\ UNCHANGED <<delivery, overlap, kind>>

LEMMA MovesKeepInv ==
    ASSUME TurnInv, NEW r \in Runs, NEW l, Moves(r, l),
           \/ UNCHANGED kind
           \/ DOMAIN kind' = Runs /\ \A s \in Runs \ {r} : kind'[s] = kind[s]
    PROVE  TurnInv'
<1>1. at' = [at EXCEPT ![r] = l] /\ l \in Labels /\ l # "send"
  BY DEF Moves, Goto
<1>2. Shape'
  BY <1>1 DEF TurnInv, Shape, Moves
<1>3. SUFFICES ASSUME ~overlap
               PROVE  (Solo /\ Fresh /\ Recorded /\ SingleAnswer /\ Sent)'
  BY <1>2 DEF TurnInv, Moves
<1>4. /\ at'[r] = l
      /\ \A s \in Runs \ {r} : at'[s] = at[s]
  BY <1>1 DEF TurnInv, Shape
<1>5. Solo'
  BY <1>3, <1>4 DEF TurnInv, Solo, Moves
<1>6. Fresh'
  BY <1>3, <1>4 DEF TurnInv, Fresh, Moves
<1>7. (Recorded /\ SingleAnswer)'
  BY <1>3 DEF TurnInv, Recorded, SingleAnswer, Moves
<1>8. Sent'
  BY <1>1, <1>3, <1>4 DEF TurnInv, Sent, Moves
<1> QED
  BY <1>5, <1>6, <1>7, <1>8

LEMMA CommitsKeepInv ==
    ASSUME TurnInv, NEW r \in Runs, Commits(r)
    PROVE  TurnInv'
<1>1. PICK k \in Kinds : CommitDelivery(r, k)
  BY DEF Commits
<1>2. /\ at' = [at EXCEPT ![r] = "attempt"]
      /\ claim' = "processed"
      /\ delivery' = [delivery EXCEPT
                        ![k] = IF @ = "none" THEN "pending" ELSE @]
      /\ kind' = [kind EXCEPT ![r] = k]
      /\ UNCHANGED overlap
  BY <1>1 DEF Commits, CommitDelivery, Goto
<1>3. Shape'
  BY <1>2 DEF TurnInv, Shape, Labels
<1>4. SUFFICES ASSUME ~overlap
               PROVE  (Solo /\ Fresh /\ Recorded /\ SingleAnswer /\ Sent)'
  BY <1>2, <1>3 DEF TurnInv
<1>5. \A s \in Runs \ {r} : at[s] \in Idle /\ at'[s] = at[s]
  BY <1>2, <1>4 DEF TurnInv, Shape, Solo, Commits, Before, Idle
<1>6. at'[r] = "attempt"
  BY <1>2 DEF TurnInv, Shape
<1>7. \A j \in Kinds \ {k} : delivery'[j] = "none"
  BY <1>2, <1>4 DEF TurnInv, Shape, Fresh, Recorded, Commits
<1>8. Solo' /\ Fresh' /\ Sent'
  BY <1>5, <1>6 DEF Solo, Fresh, Sent, Idle, Before
<1>9. Recorded' /\ SingleAnswer'
  BY <1>2, <1>7 DEF Recorded, SingleAnswer
<1> QED
  BY <1>8, <1>9

LEMMA ClosesKeepsInv ==
    ASSUME TurnInv, NEW r \in Runs, Closes(r)
    PROVE  TurnInv'
<1>1. /\ at' = [at EXCEPT ![r] = "ok"]
      /\ claim' = "processed"
      /\ UNCHANGED <<delivery, overlap, kind>>
  BY DEF Closes, Goto
<1>2. Shape'
  BY <1>1 DEF TurnInv, Shape, Labels, Idle
<1>3. SUFFICES ASSUME ~overlap
               PROVE  (Solo /\ Fresh /\ Recorded /\ SingleAnswer /\ Sent)'
  BY <1>1, <1>2 DEF TurnInv
<1>4. \A s \in Runs : at'[s] \in Idle
  BY <1>1, <1>3 DEF TurnInv, Shape, Solo, Closes, Before, Idle
<1>5. Solo' /\ Fresh' /\ Sent'
  BY <1>4 DEF Solo, Fresh, Sent, Idle, Before
<1>6. Recorded' /\ SingleAnswer'
  BY <1>1, <1>3 DEF TurnInv, Recorded, SingleAnswer
<1> QED
  BY <1>5, <1>6

-----------------------------------------------------------------------------
(* One step per action.                                                    *)

LEMMA FailMoves ==
    ASSUME TurnInv, NEW r \in Runs, Fail(r), at[r] \notin Idle,
           UNCHANGED <<claim, delivery, overlap, kind>>
    PROVE  TurnInv'
<1>1. PICK l \in {"dead", "queued"} : Goto(r, l)
  BY DEF Fail
<1>2. Moves(r, l)
  BY <1>1 DEF Moves, Labels, Idle, Before
<1> QED
  BY <1>2, MovesKeepInv

LEMMA TurnSteps ==
    ASSUME TurnInv, NEW r \in Runs,
           \/ StartRun(r) \/ Claim(r) \/ LockContact(r) \/ Bind(r)
           \/ RouteToHuman(r) \/ RequestHuman(r) \/ BeginChat(r)
           \/ ChatAnswers(r) \/ ChatFails(r) \/ ServiceLimit(r)
           \/ AgentHandsOff(r) \/ CheckTakeover(r) \/ LookUpReply(r)
           \/ InsertReply(r) \/ CompleteReply(r)
    PROVE  TurnInv'
<1> USE DEF facts, runs, locks
<1>1. CASE StartRun(r)
  <2>1. Moves(r, "claim")
    BY <1>1 DEF StartRun, Moves, Labels, Before
  <2> QED
    BY <1>1, <2>1, MovesKeepInv DEF StartRun
<1>2. CASE Claim(r)
  <2>1. PICK l \in {"duplicate", "contact"} :
           /\ Goto(r, l)
           /\ l = "contact" => claim # "processed"
    BY <1>2 DEF Claim
  <2>2. Moves(r, l)
    BY <1>2, <2>1 DEF Claim, Moves, Labels, Before, Idle
  <2> QED
    BY <1>2, <2>2, MovesKeepInv DEF Claim
<1>3. CASE LockContact(r)
  <2>1. Moves(r, "bind")
    BY <1>3 DEF LockContact, Moves, Labels, Before, Idle
  <2> QED
    BY <1>3, <2>1, MovesKeepInv DEF LockContact
<1>4. CASE Bind(r)
  <2>1. Moves(r, "turn")
    BY <1>4 DEF Bind, Moves, Labels, Before, Idle
  <2> QED
    BY <1>4, <2>1, MovesKeepInv DEF Bind
<1>5. CASE RouteToHuman(r)
  <2>1. Closes(r)
    BY <1>5 DEF RouteToHuman, Closes, Before
  <2> QED
    BY <2>1, ClosesKeepsInv
<1>6. CASE RequestHuman(r)
  <2>1. CASE delivery["handoff-ack"] # "none"
    BY <1>6, <2>1, FailMoves DEF RequestHuman, Idle
  <2>2. CASE delivery["handoff-ack"] = "none"
    <3>1. Commits(r)
      BY <1>6, <2>2 DEF RequestHuman, Commits, Before, Kinds
    <3> QED
      BY <3>1, CommitsKeepInv
  <2> QED
    BY <2>1, <2>2
<1>7. CASE BeginChat(r)
  <2>1. Moves(r, "chat")
    BY <1>7 DEF BeginChat, Moves, Labels, Before, Idle
  <2> QED
    BY <1>7, <2>1, MovesKeepInv DEF BeginChat
<1>8. CASE ChatAnswers(r)
  <2>1. Moves(r, "check")
    BY <1>8 DEF ChatAnswers, Moves, Labels, Before, Idle
  <2> QED
    BY <1>8, <2>1, MovesKeepInv DEF ChatAnswers
<1>9. CASE ChatFails(r)
  BY <1>9, FailMoves DEF ChatFails, Idle
<1>10. CASE ServiceLimit(r)
  <2>1. Moves(r, "fallback")
    BY <1>10 DEF ServiceLimit, Moves, Labels, Before, Idle
  <2> QED
    BY <1>10, <2>1, MovesKeepInv DEF ServiceLimit
<1>11. CASE AgentHandsOff(r)
  <2>1. Moves(r, "takeover")
    BY <1>11 DEF AgentHandsOff, Moves, Labels, Before, Idle
  <2> QED
    BY <1>11, <2>1, MovesKeepInv DEF AgentHandsOff
<1>12. CASE CheckTakeover(r)
  <2>1. PICK l \in {"takeover", "ensure"} : Goto(r, l)
    BY <1>12 DEF CheckTakeover
  <2>2. Moves(r, l)
    BY <1>12, <2>1 DEF CheckTakeover, Moves, Labels, Before, Idle
  <2> QED
    BY <1>12, <2>2, MovesKeepInv DEF CheckTakeover
<1>13. CASE LookUpReply(r)
  <2>1. CASE delivery["ai-reply"] # "none"
    BY <1>13, <2>1, FailMoves DEF LookUpReply, Idle
  <2>2. CASE delivery["ai-reply"] = "none"
    <3>1. Moves(r, "insert")
      BY <1>13, <2>2 DEF LookUpReply, Moves, Labels, Before, Idle
    <3> QED
      BY <1>13, <3>1, MovesKeepInv DEF LookUpReply
  <2> QED
    BY <2>1, <2>2
<1>14. CASE InsertReply(r)
  <2>1. Moves(r, "complete")
    BY <1>14 DEF InsertReply, Moves, Labels, Before, Idle
  <2> QED
    BY <1>14, <2>1, MovesKeepInv DEF InsertReply
<1>15. CASE CompleteReply(r)
  <2>1. Commits(r)
    BY <1>15 DEF CompleteReply, Commits, Before, Kinds
  <2> QED
    BY <2>1, CommitsKeepInv
<1> QED
  BY <1>1, <1>2, <1>3, <1>4, <1>5, <1>6, <1>7, <1>8, <1>9, <1>10, <1>11,
     <1>12, <1>13, <1>14, <1>15

\* A business action commits in mid-turn: the claim stays open.
LEMMA ActionSteps ==
    ASSUME TurnInv, NEW r \in Runs, ActionCommits(r)
    PROVE  TurnInv'
<1>1. /\ at[r] = "chat"
      /\ claim' \in {"processing", claim}
      /\ UNCHANGED <<delivery, at, kind, overlap>>
  BY DEF ActionCommits, runs, facts
<1>2. ~overlap => claim # "processed"
  BY <1>1 DEF TurnInv, Fresh, Before
<1> QED
  BY <1>1, <1>2 DEF TurnInv, Shape, Solo, Fresh, Recorded, SingleAnswer, Sent

LEMMA RestartSteps ==
    ASSUME TurnInv, NEW r \in Runs,
           Relock(r) \/ Reclaim(r) \/ Fallback(r) \/ Takeover(r)
    PROVE  TurnInv'
<1> USE DEF facts, runs, locks
<1>1. CASE Relock(r)
  <2>1. PICK l \in {"fallback claim", "takeover claim"} : Goto(r, l)
    BY <1>1 DEF Relock
  <2>2. Moves(r, l)
    BY <1>1, <2>1 DEF Relock, Moves, Labels, Before, Idle
  <2> QED
    BY <1>1, <2>2, MovesKeepInv DEF Relock
<1>2. CASE Reclaim(r)
  <2>1. PICK l \in {"fallback bind", "takeover bind", "duplicate", "ok"} :
           Goto(r, l)
    BY <1>2 DEF Reclaim
  <2>2. Moves(r, l)
    BY <1>2, <2>1 DEF Reclaim, Moves, Labels, Before, Idle
  <2> QED
    BY <1>2, <2>2, MovesKeepInv DEF Reclaim
<1>3. CASE Fallback(r)
  <2>1. CASE delivery["service-fallback"] # "none"
    BY <1>3, <2>1, FailMoves DEF Fallback, Idle
  <2>2. CASE delivery["service-fallback"] = "none"
    <3>1. Commits(r)
      BY <1>3, <2>2 DEF Fallback, Commits, Before, Kinds
    <3> QED
      BY <3>1, CommitsKeepInv
  <2> QED
    BY <2>1, <2>2
<1>4. CASE Takeover(r)
  <2>1. Closes(r)
    BY <1>4 DEF Takeover, Closes, Before
  <2> QED
    BY <2>1, ClosesKeepsInv
<1> QED
  BY <1>1, <1>2, <1>3, <1>4

LEMMA BeginsKeepsInv ==
    ASSUME TurnInv, NEW r \in Runs, AttemptBegins(r)
    PROVE  TurnInv'
<1>. DEFINE k == kind[r]
<1>1. at[r] = "attempt" /\ UNCHANGED <<claim, kind, overlap>>
  BY DEF AttemptBegins, facts
<1>2. CASE Goto(r, "ok") /\ UNCHANGED delivery
  <2>1. Moves(r, "ok")
    BY <1>1, <1>2 DEF Moves, Labels, Before, Idle
  <2> QED
    BY <1>1, <2>1, MovesKeepInv
<1>3. CASE \E s \in {"sending", "unknown"}, l \in {"send", "ok"} :
              /\ delivery[k] \in Sendable \cup {"sending"}
              /\ delivery' = [delivery EXCEPT ![k] = s]
              /\ Goto(r, l)
  <2>1. PICK s \in {"sending", "unknown"}, l \in {"send", "ok"} :
              /\ delivery[k] \in Sendable \cup {"sending"}
              /\ delivery' = [delivery EXCEPT ![k] = s]
              /\ Goto(r, l)
    BY <1>3
  <2>2. Shape'
    BY <1>1, <2>1 DEF TurnInv, Shape, Goto, Labels, Idle
  <2>3. SUFFICES ASSUME ~overlap
                 PROVE  (Solo /\ Fresh /\ Recorded /\ SingleAnswer
                           /\ Sent)'
    BY <1>1, <2>2 DEF TurnInv
  <2>4. /\ at'[r] = l
        /\ \A q \in Runs \ {r} : at'[q] = at[q] /\ at[q] \in Idle
    BY <1>1, <2>1, <2>3 DEF TurnInv, Shape, Solo, Goto, Idle
  <2>5. \A j \in Kinds : delivery[j] = "none" <=> delivery'[j] = "none"
    BY <2>1 DEF TurnInv, Shape, Sendable
  <2>6. Solo' /\ Fresh'
    BY <2>3, <2>4 DEF Solo, Fresh, Idle, Before
  <2>7. Recorded' /\ SingleAnswer'
    BY <1>1, <2>3, <2>5 DEF TurnInv, Recorded, SingleAnswer
  <2>8. Sent'
    BY <1>1, <2>1, <2>4, <2>5 DEF Sent, Idle, Sendable
  <2> QED
    BY <2>6, <2>7, <2>8
<1>4. \/ Goto(r, "ok") /\ UNCHANGED delivery
      \/ /\ delivery[k] \in Sendable \cup {"sending"}
         /\ \/ delivery' = [delivery EXCEPT ![k] = "sending"]
               /\ Goto(r, "send")
            \/ delivery' = [delivery EXCEPT ![k] = "unknown"]
               /\ Goto(r, "ok")
  <2>1. CASE delivery[k] \in Sendable
    BY <2>1 DEF AttemptBegins, Sendable
  <2>2. CASE delivery[k] = "sending"
    BY <2>2 DEF AttemptBegins, Sendable
  <2>3. CASE delivery[k] \notin Sendable /\ delivery[k] # "sending"
    BY <2>3 DEF AttemptBegins
  <2> QED
    BY <2>1, <2>2, <2>3
<1> QED
  BY <1>2, <1>3, <1>4

LEMMA EndsKeepsInv ==
    ASSUME TurnInv, NEW r \in Runs, AttemptEnds(r)
    PROVE  TurnInv'
<1>. DEFINE k == kind[r]
<1>1. /\ at[r] = "send"
      /\ UNCHANGED <<claim, kind, overlap>>
  BY DEF AttemptEnds, facts
<1>2. PICK s \in {"accepted", "unknown", "failed", "retryable"},
           l \in {"ok", "dead", "queued"} :
              /\ delivery' = [delivery EXCEPT ![k] = s]
              /\ Goto(r, l)
  BY DEF AttemptEnds, Fail
<1>3. Shape'
  BY <1>1, <1>2 DEF TurnInv, Shape, Goto, Labels, Idle
<1>4. SUFFICES ASSUME ~overlap
               PROVE  (Solo /\ Fresh /\ Recorded /\ SingleAnswer /\ Sent)'
  BY <1>1, <1>3 DEF TurnInv
<1>5. \A q \in Runs : at'[q] \in Idle
  BY <1>1, <1>2, <1>4 DEF TurnInv, Shape, Solo, Goto, Idle
<1>6. \A j \in Kinds : delivery[j] = "none" <=> delivery'[j] = "none"
  BY <1>1, <1>2, <1>4 DEF TurnInv, Shape, Sent
<1>7. Solo' /\ Fresh' /\ Sent'
  BY <1>5 DEF Solo, Fresh, Sent, Idle, Before
<1>8. Recorded' /\ SingleAnswer'
  BY <1>1, <1>4, <1>6 DEF TurnInv, Recorded, SingleAnswer
<1> QED
  BY <1>7, <1>8

\* A replayed message: whatever answer it finds, the claim is untouched.
LEMMA DuplicateKeepsInv ==
    ASSUME TurnInv, NEW r \in Runs, Duplicate(r)
    PROVE  TurnInv'
<1> USE DEF facts, locks
<1>1. PICK l \in {"ok", "attempt"} : Goto(r, l)
  BY DEF Duplicate
<1>2. Moves(r, l)
  BY <1>1 DEF Duplicate, Moves, Labels, Before, Idle
<1>3. \/ UNCHANGED kind
      \/ kind' = [kind EXCEPT ![r] = Last(Rows)]
  BY DEF Duplicate
<1>4. \/ UNCHANGED kind
      \/ DOMAIN kind' = Runs /\ \A s \in Runs \ {r} : kind'[s] = kind[s]
  BY <1>3 DEF TurnInv, Shape
<1> QED
  BY <1>2, <1>4, MovesKeepInv

-----------------------------------------------------------------------------
(* The invariant and the theorem.                                          *)

LEMMA InitTurn == TurnInit => TurnInv
  BY DEF TurnInit, TurnInv, Shape, Labels, Idle, Solo, Fresh, Recorded,
         SingleAnswer, Sent, Before

LEMMA NextTurn == TurnInv /\ [TurnNext]_turnVars => TurnInv'
<1> SUFFICES ASSUME TurnInv, [TurnNext]_turnVars
             PROVE  TurnInv'
  OBVIOUS
<1>1. ASSUME NEW r \in Runs, RunStep(r)
      PROVE  TurnInv'
  <2>1. CASE \/ StartRun(r) \/ Claim(r) \/ LockContact(r) \/ Bind(r)
             \/ RouteToHuman(r) \/ RequestHuman(r) \/ BeginChat(r)
             \/ ChatAnswers(r) \/ ChatFails(r) \/ ServiceLimit(r)
             \/ AgentHandsOff(r) \/ CheckTakeover(r) \/ LookUpReply(r)
             \/ InsertReply(r) \/ CompleteReply(r)
    BY <2>1, TurnSteps
  <2>2. CASE ActionCommits(r)
    BY <2>2, ActionSteps
  <2>3. CASE Relock(r) \/ Reclaim(r) \/ Fallback(r) \/ Takeover(r)
    BY <2>3, RestartSteps
  <2>4. CASE Duplicate(r)
    BY <2>4, DuplicateKeepsInv
  <2>5. CASE AttemptBegins(r)
    BY <2>5, BeginsKeepsInv
  <2>6. CASE AttemptEnds(r)
    BY <2>6, EndsKeepsInv
  <2>7. CASE DeadlockAbort(r)
    <3>1. at[r] \notin Idle
      BY <2>7 DEF DeadlockAbort, WaitsFor, Wanted, Idle, Locks
    <3> QED
      BY <2>7, <3>1, FailMoves DEF DeadlockAbort, facts
  <2> QED
    BY <1>1, <2>1, <2>2, <2>3, <2>4, <2>5, <2>6, <2>7 DEF RunStep
<1>2. ASSUME NEW r \in Runs, RunDies(r)
      PROVE  TurnInv'
  <2>1. Moves(r, "queued")
    BY <1>2 DEF RunDies, Moves, Labels, Before, Idle, facts
  <2> QED
    BY <1>2, <2>1, MovesKeepInv DEF RunDies
<1>3. CASE SwitchControl \/ UNCHANGED turnVars
  BY <1>3 DEF SwitchControl, turnVars, runs, facts, TurnInv, Shape, Solo,
              Fresh, Recorded, SingleAnswer, Sent
<1> QED
  BY <1>1, <1>2, <1>3 DEF TurnNext

\* For every number of jobs, attempts, crashes and takeovers: jobs of one
\* message that do not overlap prepare at most one answer for the customer.
THEOREM OneAnswerPerMessage == TurnSpec => []OneAnswer
<1>1. TurnInv => OneAnswer
  BY DEF TurnInv, OneAnswer
<1> QED
  BY InitTurn, NextTurn, <1>1, PTL DEF TurnSpec
=============================================================================
