------------------------- MODULE WhatsAppReplyProofs --------------------------
(***************************************************************************)
(* Proofs about what leaves for a WhatsApp contact: who answers, the AI or *)
(* a human, for every set of replies and commands, every window and bound; *)
(* and how one outbound message is sent, for every set of observers and    *)
(* every bound on attempts and crashes.                                    *)
(***************************************************************************)
EXTENDS WhatsAppHandoff, WhatsAppDelivery, FiniteSetTheorems, TLAPS

-----------------------------------------------------------------------------
(* ONE OUTBOUND MESSAGE                                                    *)

\* What Meta holds, what may still leave and what the row permits are paid
\* for: one message, and one for every decision on an outdated copy.
Flying == {o \in Observers : Open(o)}

Permits == IF row.status = "pending" \/ row.retryable THEN 1 ELSE 0

Counted == copies + Cardinality(Flying) + Permits <= 1 + stale

\* What the observers know, and what the row claims, agrees with what left.
KnownIsTrue ==
    /\ row.status \in SUCCESS_STATES => copies > 0
    /\ \A o \in Observers :
          /\ answerId[o] <= copies
          /\ pc[o] = "record" =>
                /\ answer[o] \in Answers
                /\ answer[o] \in {"accepted", "conflict"} => copies > 0
                /\ answer[o] # "accepted" => answerId[o] = 0

InFlight(o) == pc[o] \in {"begun", "send", "record"}

\* A row whose outcome is open, and that is not permitted to be retried.
IsOpen(r) == r.status \in {"sending", "unknown"} /\ ~r.retryable /\ r.id = 0

\* As long as nobody decided on an outdated copy, at most one observer is
\* between "sending" and its record, and while one is, the row says that the
\* outcome is open.
OneInFlight ==
    stale = 0 =>
        /\ \A o, p \in Observers : InFlight(o) /\ InFlight(p) => o = p
        /\ \A o \in Observers :
              /\ InFlight(o) => IsOpen(row)
              /\ pc[o] \in {"send", "record"} => IsOpen(seen[o])

\* And what the row says agrees with what became of the one message.
RowIsTrue ==
    stale = 0 =>
        /\ row.status = "failed" /\ copies > 0 => fate[1] = "failed"
        /\ row.status = "delivered" => fate[1] \in {"delivered", "read"}
        /\ row.status = "read" => fate[1] = "read"
        /\ row.id # 0 => row.status \in SUCCESS_STATES \cup {"failed"}

IInv == DeliveryTypeOK /\ Counted /\ KnownIsTrue /\ OneInFlight /\ RowIsTrue

-----------------------------------------------------------------------------
(* An UPDATE, column by column.                                            *)

LEMMA FlushColumns ==
    ASSUME row \in Rows, NEW copy \in Rows, NEW new \in Rows,
           row' = Flush(copy, new)
    PROVE  /\ row' \in Rows
           /\ row'.status = IF new.status = copy.status
                            THEN row.status ELSE new.status
           /\ row'.retryable = IF new.retryable = copy.retryable
                               THEN row.retryable ELSE new.retryable
           /\ row'.id = IF new.id = copy.id THEN row.id ELSE new.id
<1>1. DOMAIN row = {"status", "retryable", "attempts", "id"}
  BY DEF Rows
<1>2. row' = [c \in {"status", "retryable", "attempts", "id"} |->
                 IF new[c] = copy[c] THEN row[c] ELSE new[c]]
  BY <1>1 DEF Flush
<1>3. /\ row'.status = IF new.status = copy.status
                       THEN row.status ELSE new.status
      /\ row'.retryable = IF new.retryable = copy.retryable
                          THEN row.retryable ELSE new.retryable
      /\ row'.id = IF new.id = copy.id THEN row.id ELSE new.id
  BY <1>2, Zenon
<1>4. row' \in Rows
  BY <1>2 DEF Rows
<1>. QED
  BY <1>3, <1>4

-----------------------------------------------------------------------------
(* Counting.                                                               *)

LEMMA FlyingIsFinite == IsFiniteSet(Flying) /\ Cardinality(Flying) \in Nat
<1>1. Flying \in SUBSET Observers
  BY DEF Flying
<1>. QED
  BY <1>1, DeliveryAssumption, FS_Subset, FS_CardinalityType

LEMMA FlyingSame ==
    ASSUME \A o \in Observers : Open(o)' <=> Open(o)
    PROVE  Cardinality(Flying)' = Cardinality(Flying)
<1>1. Flying' = Flying
  BY DEF Flying
<1>. QED
  BY <1>1

LEMMA FlyingMore ==
    ASSUME NEW o \in Observers, \A p \in Observers \ {o} : Open(p)' <=> Open(p)
    PROVE  Cardinality(Flying)' <= Cardinality(Flying) + 1
<1>1. Flying' \in SUBSET (Flying \cup {o})
  BY DEF Flying
<1>2. /\ IsFiniteSet(Flying \cup {o})
      /\ Cardinality(Flying \cup {o}) <= Cardinality(Flying) + 1
  BY FlyingIsFinite, FS_AddElement
<1>3. Cardinality(Flying') <= Cardinality(Flying \cup {o})
  BY <1>1, <1>2, FS_Subset
<1>4. Cardinality(Flying') \in Nat /\ Cardinality(Flying \cup {o}) \in Nat
  BY <1>1, <1>2, FS_Subset, FS_CardinalityType
<1>. QED
  BY <1>2, <1>3, <1>4, FlyingIsFinite

LEMMA FlyingLess ==
    ASSUME NEW o \in Observers, ~Open(o)',
           \A p \in Observers \ {o} : Open(p)' <=> Open(p)
    PROVE  /\ Cardinality(Flying)' \in Nat
           /\ Cardinality(Flying)' =
                  Cardinality(Flying) - (IF Open(o) THEN 1 ELSE 0)
<1>1. Flying' = Flying \ {o}
  BY DEF Flying
<1>2. o \in Flying <=> Open(o)
  BY DEF Flying
<1>3. /\ IsFiniteSet(Flying \ {o})
      /\ Cardinality(Flying \ {o}) =
            IF o \in Flying THEN Cardinality(Flying) - 1
                            ELSE Cardinality(Flying)
  BY FlyingIsFinite, FS_RemoveElement
<1>4. Cardinality(Flying \ {o}) \in Nat
  BY <1>3, FS_CardinalityType
<1>. QED
  BY <1>1, <1>2, <1>3, <1>4, FlyingIsFinite

-----------------------------------------------------------------------------
LEMMA InvInit == DeliveryInit => IInv
<1>. SUFFICES ASSUME DeliveryInit PROVE IInv
  OBVIOUS
<1>1. DeliveryTypeOK
  BY DEF DeliveryInit, DeliveryTypeOK, Rows, NewRow, Statuses, SUCCESS_STATES,
         copies
<1>2. Flying = {}
  BY DEF DeliveryInit, Flying, Open
<1>3. Counted
  BY <1>2, FS_EmptySet DEF DeliveryInit, Counted, Permits, copies, NewRow
<1>4. KnownIsTrue /\ OneInFlight /\ RowIsTrue
  BY DEF DeliveryInit, KnownIsTrue, OneInFlight, RowIsTrue, InFlight, NewRow,
         SUCCESS_STATES, copies
<1>. QED
  BY <1>1, <1>3, <1>4 DEF IInv

\* An observer returns: the columns of the call are those of an idle one.
LEMMA ReturnsIs ==
    ASSUME IInv, NEW o \in Observers, Returns(o), UNCHANGED fate
    PROVE  /\ seen' \in [Observers -> Rows]
           /\ pc' \in
                 [Observers -> {"idle", "loaded", "begun", "send", "record"}]
           /\ answer' \in [Observers -> Answers \cup {NoAnswer}]
           /\ answerId' \in [Observers -> Nat]
           /\ pc'[o] = "idle" /\ answerId'[o] = 0
           /\ \A p \in Observers \ {o} :
                 /\ seen'[p] = seen[p] /\ pc'[p] = pc[p]
                 /\ answer'[p] = answer[p] /\ answerId'[p] = answerId[p]
           /\ Cardinality(Flying)' \in Nat
           /\ Cardinality(Flying)' =
                  Cardinality(Flying) - (IF Open(o) THEN 1 ELSE 0)
<1>1. NewRow \in Rows
  BY DEF NewRow, Rows, Statuses
<1>2. /\ seen' \in [Observers -> Rows]
      /\ pc' \in [Observers -> {"idle", "loaded", "begun", "send", "record"}]
      /\ answer' \in [Observers -> Answers \cup {NoAnswer}]
      /\ answerId' \in [Observers -> Nat]
      /\ pc'[o] = "idle" /\ answerId'[o] = 0
      /\ \A p \in Observers \ {o} :
            /\ seen'[p] = seen[p] /\ pc'[p] = pc[p]
            /\ answer'[p] = answer[p] /\ answerId'[p] = answerId[p]
  BY <1>1 DEF Returns, IInv, DeliveryTypeOK
<1>3. ~Open(o)' /\ \A p \in Observers \ {o} : Open(p)' <=> Open(p)
  BY <1>2 DEF Open
<1>. QED
  BY <1>2, <1>3, FlyingLess

LEMMA StaleIs ==
    ASSUME IInv, NEW o \in Observers, Decides(o)
    PROVE  /\ stale' \in Nat
           /\ IF Outdated(o) THEN stale' = stale + 1 ELSE stale' = stale
           /\ stale' = 0 => ~Outdated(o) /\ stale = 0
           /\ pc[o] = "loaded"
BY DEF IInv, DeliveryTypeOK, Decides

LEMMA PermitsLess ==
    ASSUME row'.status # "pending", row'.retryable => row.retryable
    PROVE  Permits' \in 0 .. 1 /\ Permits' <= Permits /\ Permits \in 0 .. 1
<1>1. CASE row'.retryable
  <2>1. Permits' = 1 /\ Permits = 1
    BY <1>1 DEF Permits
  <2>. QED
    BY <2>1
<1>2. CASE ~row'.retryable
  <2>1. Permits' = 0 /\ (Permits = 0 \/ Permits = 1)
    BY <1>2 DEF Permits
  <2>. QED
    BY <2>1
<1>. QED
  BY <1>1, <1>2

\* What an observer writes who finds "sending".
LEMMA InterruptedIs ==
    ASSUME IInv, NEW o \in Observers, ObserveInterrupted(o)
    PROVE  /\ row' \in Rows /\ row'.status = "unknown"
           /\ row'.retryable = (row.retryable /\ ~seen[o].retryable)
           /\ row'.id = row.id
           /\ Returns(o) /\ Decides(o) /\ UNCHANGED <<fate, crashes>>
<1>. DEFINE new == [seen[o] EXCEPT !.status = "unknown", !.retryable = FALSE]
<1>1. /\ row \in Rows /\ seen[o] \in Rows /\ seen[o].status = "sending"
      /\ row' = Flush(seen[o], new) /\ UNCHANGED <<fate, crashes>>
      /\ Returns(o) /\ Decides(o)
  BY DEF ObserveInterrupted, IInv, DeliveryTypeOK
<1>2. /\ new \in Rows /\ new.status = "unknown" /\ new.retryable = FALSE
      /\ new.id = seen[o].id
  BY <1>1 DEF Rows, Statuses
<1>. HIDE DEF new
<1>3. /\ row' \in Rows /\ row'.status = "unknown"
      /\ row'.retryable = (row.retryable /\ ~seen[o].retryable)
      /\ row'.id = row.id
  <2>1. /\ row' \in Rows
        /\ row'.status = IF new.status = seen[o].status
                         THEN row.status ELSE new.status
        /\ row'.retryable = IF new.retryable = seen[o].retryable
                            THEN row.retryable ELSE new.retryable
        /\ row'.id = IF new.id = seen[o].id THEN row.id ELSE new.id
    BY <1>1, <1>2, FlushColumns
  <2>2. row.retryable \in BOOLEAN /\ seen[o].retryable \in BOOLEAN
    BY <1>1 DEF Rows
  <2>. QED
    BY <1>1, <1>2, <2>1, <2>2
<1>. QED
  BY <1>1, <1>3

LEMMA InterruptedStep ==
    ASSUME IInv, NEW o \in Observers, ObserveInterrupted(o)
    PROVE  IInv'
<1>1. Returns(o) /\ Decides(o) /\ UNCHANGED <<fate, crashes>>
  BY InterruptedIs
<1>2. /\ seen[o].status = "sending" /\ seen[o] \in Rows
  BY DEF ObserveInterrupted, IInv, DeliveryTypeOK
<1>3. /\ row' \in Rows /\ row'.status = "unknown"
      /\ row'.retryable = (row.retryable /\ ~seen[o].retryable)
      /\ row'.id = row.id
  BY InterruptedIs
<1>4. copies' = copies /\ copies \in Nat
  BY <1>1 DEF copies, IInv, DeliveryTypeOK
<1>5. DeliveryTypeOK'
  BY <1>1, <1>3, <1>4, ReturnsIs, StaleIs DEF IInv, DeliveryTypeOK
<1>6. Counted'
  <2>1. Permits' \in 0 .. 1 /\ Permits' <= Permits /\ Permits \in 0 .. 1
    BY <1>3, PermitsLess
  <2>2. /\ Cardinality(Flying)' \in Nat /\ Cardinality(Flying) \in Nat
        /\ Cardinality(Flying)' <= Cardinality(Flying)
    BY <1>1, ReturnsIs, FlyingIsFinite
  <2>3. stale \in Nat /\ stale' \in Nat /\ stale' >= stale
    BY <1>1, StaleIs DEF IInv, DeliveryTypeOK
  <2>. QED
    BY <1>4, <2>1, <2>2, <2>3 DEF Counted, IInv
<1>7. KnownIsTrue'
  BY <1>1, <1>3, <1>4, ReturnsIs DEF KnownIsTrue, IInv, SUCCESS_STATES
<1>8. OneInFlight'
  <2>. SUFFICES ASSUME stale' = 0
                PROVE  /\ \A p, q \in Observers :
                             InFlight(p)' /\ InFlight(q)' => p = q
                       /\ \A p \in Observers :
                             /\ InFlight(p)' => IsOpen(row')
                             /\ pc'[p] \in {"send", "record"} =>
                                   IsOpen(seen'[p])
    BY DEF OneInFlight
  <2>1. stale = 0 /\ ~Outdated(o)
    BY <1>1, StaleIs
  <2>2. OneInFlight
    BY DEF IInv
  <2>3. \A p \in Observers : InFlight(p)' => p # o /\ InFlight(p)
    BY <1>1, ReturnsIs DEF InFlight
  <2>4. \A p \in Observers : InFlight(p) => IsOpen(row')
    BY <1>3, <2>1, <2>2 DEF OneInFlight, IsOpen
  <2>5. \A p \in Observers :
           pc'[p] \in {"send", "record"} => IsOpen(seen'[p])
    BY <1>1, <2>1, <2>2, ReturnsIs DEF OneInFlight
  <2>. QED
    BY <2>1, <2>2, <2>3, <2>4, <2>5 DEF OneInFlight
<1>9. RowIsTrue'
  <2>. SUFFICES ASSUME stale' = 0 PROVE row'.id = 0
    BY <1>3 DEF RowIsTrue
  <2>1. stale = 0 /\ row.status = "sending"
    BY <1>1, <1>2, StaleIs DEF Outdated
  <2>. QED
    BY <1>3, <2>1 DEF IInv, RowIsTrue, SUCCESS_STATES
<1>. QED
  BY <1>5, <1>6, <1>7, <1>8, <1>9 DEF IInv

\* What an observer writes who begins an attempt.
LEMMA BeginIs ==
    ASSUME IInv, NEW o \in Observers, Begin(o)
    PROVE  /\ row' \in Rows /\ row'.status = "sending"
           /\ row'.retryable = (row.retryable /\ ~seen[o].retryable)
           /\ row'.id = row.id
<1>. DEFINE new == [seen[o] EXCEPT !.status = "sending", !.retryable = FALSE,
                                   !.attempts = @ + 1]
<1>1. /\ row \in Rows /\ seen[o] \in Rows /\ MaySend(seen[o])
      /\ row' = Flush(seen[o], new)
      /\ pc' = [pc EXCEPT ![o] = "begun"] /\ Decides(o)
      /\ UNCHANGED <<seen, answer, answerId, fate, crashes>>
  BY DEF Begin, IInv, DeliveryTypeOK
<1>2. /\ new \in Rows /\ new.status = "sending" /\ new.retryable = FALSE
      /\ new.id = seen[o].id
  <2>1. "sending" \in Statuses /\ seen[o].attempts + 1 \in Nat
    BY <1>1 DEF Rows, Statuses
  <2>. DEFINE sent == [seen[o] EXCEPT !.status = "sending",
                                     !.retryable = FALSE]
  <2>2. /\ sent \in Rows /\ sent.status = "sending" /\ sent.retryable = FALSE
        /\ sent.id = seen[o].id /\ sent.attempts = seen[o].attempts
    BY <1>1 DEF Rows, Statuses
  <2>3. new = [sent EXCEPT !.attempts = seen[o].attempts + 1]
    BY <1>1 DEF Rows
  <2>. HIDE DEF sent, new
  <2>4. /\ new \in Rows /\ new.status = sent.status
        /\ new.retryable = sent.retryable /\ new.id = sent.id
    BY <2>1, <2>2, <2>3 DEF Rows
  <2>. QED
    BY <2>2, <2>4
<1>. HIDE DEF new
<1>3. /\ row' \in Rows /\ row'.status = "sending"
      /\ row'.retryable = (row.retryable /\ ~seen[o].retryable)
      /\ row'.id = row.id
  <2>1. /\ row' \in Rows
        /\ row'.status = IF new.status = seen[o].status
                         THEN row.status ELSE new.status
        /\ row'.retryable = IF new.retryable = seen[o].retryable
                            THEN row.retryable ELSE new.retryable
        /\ row'.id = IF new.id = seen[o].id THEN row.id ELSE new.id
    BY <1>1, <1>2, FlushColumns
  <2>2. row.retryable \in BOOLEAN /\ seen[o].retryable \in BOOLEAN
    BY <1>1 DEF Rows
  <2>3. seen[o].status # "sending"
    BY <1>1 DEF MaySend
  <2>. QED
    BY <1>1, <1>2, <2>1, <2>2, <2>3
<1>. QED
  BY <1>3

LEMMA BeginStep ==
    ASSUME IInv, NEW o \in Observers, Begin(o)
    PROVE  IInv'
<1>1. /\ row \in Rows /\ seen[o] \in Rows /\ MaySend(seen[o])
      /\ pc' = [pc EXCEPT ![o] = "begun"] /\ Decides(o)
      /\ UNCHANGED <<seen, answer, answerId, fate, crashes>>
  BY DEF Begin, IInv, DeliveryTypeOK
<1>2. /\ row' \in Rows /\ row'.status = "sending"
      /\ row'.retryable = (row.retryable /\ ~seen[o].retryable)
      /\ row'.id = row.id
  BY BeginIs
<1>3. copies' = copies /\ copies \in Nat
  BY <1>1 DEF copies, IInv, DeliveryTypeOK
<1>4. /\ pc' \in [Observers -> {"idle", "loaded", "begun", "send", "record"}]
      /\ pc'[o] = "begun" /\ \A p \in Observers \ {o} : pc'[p] = pc[p]
      /\ ~Open(o)
  BY <1>1, StaleIs DEF IInv, DeliveryTypeOK, Open
<1>5. DeliveryTypeOK'
  BY <1>1, <1>2, <1>3, <1>4, StaleIs DEF IInv, DeliveryTypeOK
<1>6. Counted'
  <2>1. /\ Permits' \in 0 .. 1 /\ Permits' <= Permits /\ Permits \in 0 .. 1
        /\ ~Outdated(o) => Permits = 1 /\ Permits' = 0
    <3>1. Permits' \in 0 .. 1 /\ Permits' <= Permits /\ Permits \in 0 .. 1
      BY <1>2, PermitsLess
    <3>2. ASSUME ~Outdated(o) PROVE MaySend(row) /\ ~row'.retryable
      BY <1>1, <1>2, <3>2 DEF Outdated, MaySend
    <3>3. ~Outdated(o) => Permits = 1 /\ Permits' = 0
      BY <1>2, <3>2 DEF Permits, MaySend
    <3>. QED
      BY <3>1, <3>3
  <2>2. /\ Cardinality(Flying)' \in Nat /\ Cardinality(Flying) \in Nat
        /\ Cardinality(Flying)' <= Cardinality(Flying) + 1
    <3>1. \A p \in Observers \ {o} : Open(p)' <=> Open(p)
      BY <1>1, <1>4 DEF Open
    <3>2. IsFiniteSet(Flying')
      <4>1. Flying' \in SUBSET Observers
        BY DEF Flying
      <4>. QED
        BY <4>1, DeliveryAssumption, FS_Subset
    <3>. QED
      BY <3>1, <3>2, FlyingMore, FlyingIsFinite, FS_CardinalityType
  <2>3. /\ stale \in Nat /\ stale' \in Nat
        /\ IF Outdated(o) THEN stale' = stale + 1 ELSE stale' = stale
    BY <1>1, StaleIs DEF IInv, DeliveryTypeOK
  <2>. QED
    BY <1>3, <2>1, <2>2, <2>3 DEF Counted, IInv
<1>7. KnownIsTrue'
  BY <1>1, <1>2, <1>3, <1>4 DEF KnownIsTrue, IInv, SUCCESS_STATES
<1>8. ASSUME stale' = 0
      PROVE  /\ stale = 0 /\ MaySend(row) /\ IsOpen(row')
             /\ \A p \in Observers : ~InFlight(p)
  <2>1. stale = 0 /\ seen[o].status = row.status
           /\ seen[o].retryable = row.retryable
    BY <1>1, <1>8, StaleIs DEF Outdated
  <2>2. MaySend(row)
    BY <1>1, <2>1 DEF MaySend
  <2>3. copies = 0
    <3>1. Permits = 1
      BY <2>2 DEF Permits, MaySend
    <3>. QED
      BY <1>3, <2>1, <3>1, FlyingIsFinite DEF Counted, IInv
  <2>4. row.id = 0
    BY <1>3, <2>3 DEF IInv, DeliveryTypeOK
  <2>5. \A p \in Observers : ~InFlight(p)
    BY <2>1, <2>2 DEF IInv, OneInFlight, IsOpen, MaySend
  <2>. QED
    BY <1>2, <2>1, <2>2, <2>4, <2>5 DEF IsOpen
<1>9. OneInFlight'
  BY <1>1, <1>4, <1>8 DEF OneInFlight, InFlight
<1>10. RowIsTrue'
  BY <1>2, <1>8 DEF RowIsTrue, IsOpen
<1>. QED
  BY <1>5, <1>6, <1>7, <1>9, <1>10 DEF IInv

LEMMA LoadStep ==
    ASSUME IInv, NEW o \in Observers, LoadRow(o) \/ Reload(o)
    PROVE  IInv'
<1>1. /\ seen' = [seen EXCEPT ![o] = row]
      /\ \/ pc[o] = "idle" /\ pc' = [pc EXCEPT ![o] = "loaded"]
         \/ pc[o] = "begun" /\ pc' = [pc EXCEPT ![o] = "send"]
      /\ UNCHANGED <<row, answer, answerId, fate, crashes, stale>>
  BY DEF LoadRow, Reload
<1>2. DeliveryTypeOK'
  BY <1>1 DEF IInv, DeliveryTypeOK, copies
<1>3. \A p \in Observers : Open(p)' <=> Open(p)
  BY <1>1 DEF IInv, DeliveryTypeOK, Open
<1>4. Cardinality(Flying)' = Cardinality(Flying)
  BY <1>3, FlyingSame
<1>5. Counted'
  BY <1>1, <1>4 DEF IInv, Counted, Permits, copies
<1>6. KnownIsTrue' /\ OneInFlight' /\ RowIsTrue'
  BY <1>1 DEF IInv, DeliveryTypeOK, KnownIsTrue, OneInFlight, RowIsTrue,
              InFlight, copies
<1>. QED
  BY <1>2, <1>5, <1>6 DEF IInv

\* Leaving and dying change nothing but the observer.
LEMMA ReturnStep ==
    ASSUME IInv, NEW o \in Observers, Leave(o) \/ Crash(o)
    PROVE  IInv'
<1>1. /\ Returns(o) /\ UNCHANGED <<row, fate, stale>>
      /\ crashes' \in Nat
  BY DEF Leave, Crash, IInv, DeliveryTypeOK
<1>2. DeliveryTypeOK'
  BY <1>1, ReturnsIs DEF IInv, DeliveryTypeOK, copies
<1>3. Counted'
  <2>1. /\ Cardinality(Flying)' \in Nat /\ Cardinality(Flying) \in Nat
        /\ Cardinality(Flying)' <= Cardinality(Flying)
    BY <1>1, ReturnsIs, FlyingIsFinite
  <2>2. /\ copies' = copies /\ copies \in Nat /\ stale \in Nat
        /\ Permits' = Permits /\ Permits \in Nat
    BY <1>1 DEF IInv, DeliveryTypeOK, copies, Permits
  <2>. QED
    BY <1>1, <2>1, <2>2 DEF IInv, Counted
<1>4. KnownIsTrue'
  BY <1>1, ReturnsIs DEF IInv, KnownIsTrue, copies
<1>5. OneInFlight'
  BY <1>1, ReturnsIs DEF IInv, OneInFlight, InFlight
<1>6. RowIsTrue'
  BY <1>1 DEF IInv, RowIsTrue, copies
<1>. QED
  BY <1>2, <1>3, <1>4, <1>5, <1>6 DEF IInv

\* send_text has returned a, with message id n, to observer o.
AnswerStored(o, a, n) ==
    /\ pc[o] = "send" /\ Open(o)
    /\ answer' \in [Observers -> Answers \cup {NoAnswer}]
    /\ answerId' \in [Observers -> Nat]
    /\ pc' \in [Observers -> {"idle", "loaded", "begun", "send", "record"}]
    /\ answer'[o] = a /\ answerId'[o] = n /\ pc'[o] = "record"
    /\ Open(o)' <=> a \in {"rejected", "retryable"}
    /\ \A p \in Observers \ {o} :
          /\ answer'[p] = answer[p] /\ answerId'[p] = answerId[p]
          /\ pc'[p] = pc[p] /\ (Open(p)' <=> Open(p))
    /\ UNCHANGED <<row, seen, crashes, stale>>

LEMMA AnswerIs ==
    ASSUME IInv, NEW o \in Observers, NEW a \in Answers, NEW n \in Nat,
           Hears(o, a, n)
    PROVE  AnswerStored(o, a, n)
<1>1. /\ pc[o] = "send" /\ UNCHANGED <<row, seen, crashes, stale>>
      /\ answer' \in [Observers -> Answers \cup {NoAnswer}]
      /\ answerId' \in [Observers -> Nat]
      /\ pc' \in [Observers -> {"idle", "loaded", "begun", "send", "record"}]
      /\ answer'[o] = a /\ answerId'[o] = n /\ pc'[o] = "record"
      /\ \A p \in Observers \ {o} :
            /\ answer'[p] = answer[p] /\ answerId'[p] = answerId[p]
            /\ pc'[p] = pc[p]
  BY DEF Hears, IInv, DeliveryTypeOK
<1>2. /\ Open(o) /\ (Open(o)' <=> a \in {"rejected", "retryable"})
      /\ \A p \in Observers \ {o} : Open(p)' <=> Open(p)
  BY <1>1 DEF Open
<1>. QED
  BY <1>1, <1>2 DEF AnswerStored

LEMMA AcceptsStep ==
    ASSUME IInv, NEW o \in Observers, MetaAccepts(o)
    PROVE  IInv'
<1>1. /\ fate \in Seq(Fates) /\ copies \in Nat
      /\ fate' = Append(fate, "none")
  BY DEF MetaAccepts, IInv, DeliveryTypeOK, copies
<1>2. /\ fate' \in Seq(Fates) /\ copies' = copies + 1
  BY <1>1 DEF Fates, copies
<1>3. PICK a \in {"accepted", "conflict", "unknown"}, n \in Nat :
          Hears(o, a, n) /\ n <= copies' /\ (a # "accepted" => n = 0)
  BY <1>1, <1>2 DEF MetaAccepts
<1>4. AnswerStored(o, a, n)
  <2>1. a \in Answers
    BY DEF Answers
  <2>. QED
    BY <1>3, <2>1, AnswerIs
<1>5. ~Open(o)'
  BY <1>4 DEF AnswerStored
<1>6. DeliveryTypeOK'
  BY <1>1, <1>2, <1>3, <1>4 DEF AnswerStored, IInv, DeliveryTypeOK
<1>7. Counted'
  <2>1. Cardinality(Flying)' = Cardinality(Flying) - 1
    BY <1>4, <1>5, FlyingLess DEF AnswerStored
  <2>2. /\ Permits' = Permits /\ Permits \in Nat
        /\ stale' = stale /\ stale \in Nat
    BY <1>3, <1>4 DEF AnswerStored, Permits, IInv, DeliveryTypeOK
  <2>. QED
    BY <1>1, <1>2, <2>1, <2>2, FlyingIsFinite DEF IInv, Counted
<1>8. KnownIsTrue'
  <2>1. row'.status \in SUCCESS_STATES => copies' > 0
    BY <1>1, <1>2, <1>4 DEF AnswerStored, IInv, KnownIsTrue
  <2>2. ASSUME NEW p \in Observers
        PROVE  /\ answerId'[p] <= copies'
               /\ pc'[p] = "record" =>
                     /\ answer'[p] \in Answers
                     /\ answer'[p] \in {"accepted", "conflict"} => copies' > 0
                     /\ answer'[p] # "accepted" => answerId'[p] = 0
    <3>1. CASE p = o
      BY <1>1, <1>2, <1>3, <1>4, <3>1 DEF AnswerStored, Answers
    <3>2. CASE p # o
      <4>1. answerId[p] \in Nat /\ answerId'[p] = answerId[p]
            /\ answer'[p] = answer[p] /\ pc'[p] = pc[p]
        BY <1>4, <3>2 DEF AnswerStored, IInv, DeliveryTypeOK
      <4>. QED
        BY <1>1, <1>2, <4>1 DEF IInv, KnownIsTrue
    <3>. QED
      BY <3>1, <3>2
  <2>. QED
    BY <2>1, <2>2 DEF KnownIsTrue
<1>9. OneInFlight'
  BY <1>3, <1>4 DEF AnswerStored, IInv, OneInFlight, InFlight
<1>10. RowIsTrue'
  BY <1>3, <1>4
     DEF AnswerStored, IInv, OneInFlight, RowIsTrue, InFlight, IsOpen,
         SUCCESS_STATES
<1>. QED
  BY <1>6, <1>7, <1>8, <1>9, <1>10 DEF IInv

LEMMA RefusesStep ==
    ASSUME IInv, NEW o \in Observers, MetaRefuses(o)
    PROVE  IInv'
<1>1. PICK a \in {"rejected", "retryable", "unknown"} : Hears(o, a, 0)
  BY DEF MetaRefuses
<1>2. a \in Answers /\ 0 \in Nat /\ fate' = fate /\ copies' = copies
  BY DEF Answers, MetaRefuses, copies
<1>3. AnswerStored(o, a, 0)
  BY <1>1, <1>2, AnswerIs
<1>4. DeliveryTypeOK'
  BY <1>2, <1>3 DEF AnswerStored, IInv, DeliveryTypeOK
<1>5. Counted'
  <2>1. Cardinality(Flying)' <= Cardinality(Flying)
    <3>1. CASE Open(o)'
      <4>1. \A p \in Observers : Open(p)' <=> Open(p)
        BY <1>3, <3>1 DEF AnswerStored
      <4>. QED
        BY <4>1, FlyingSame, FlyingIsFinite
    <3>2. CASE ~Open(o)'
      BY <1>3, <3>2, FlyingLess, FlyingIsFinite DEF AnswerStored
    <3>. QED
      BY <3>1, <3>2
  <2>2. Cardinality(Flying)' \in Nat
    <3>1. Flying' \in SUBSET Observers
      BY DEF Flying
    <3>. QED
      BY <3>1, DeliveryAssumption, FS_Subset, FS_CardinalityType
  <2>3. /\ Permits' = Permits /\ Permits \in Nat /\ stale' = stale
        /\ stale \in Nat /\ copies \in Nat
    BY <1>2, <1>3 DEF AnswerStored, Permits, IInv, DeliveryTypeOK, copies
  <2>. QED
    BY <1>2, <2>1, <2>2, <2>3, FlyingIsFinite DEF IInv, Counted
<1>6. KnownIsTrue'
  <2>1. copies \in Nat
    BY DEF IInv, DeliveryTypeOK, copies
  <2>2. row'.status \in SUCCESS_STATES => copies' > 0
    BY <1>2, <1>3 DEF AnswerStored, IInv, KnownIsTrue
  <2>3. ASSUME NEW p \in Observers
        PROVE  /\ answerId'[p] <= copies'
               /\ pc'[p] = "record" =>
                     /\ answer'[p] \in Answers
                     /\ answer'[p] \in {"accepted", "conflict"} => copies' > 0
                     /\ answer'[p] # "accepted" => answerId'[p] = 0
    <3>1. CASE p = o
      BY <1>1, <1>2, <1>3, <2>1, <3>1 DEF AnswerStored
    <3>2. CASE p # o
      BY <1>2, <1>3, <3>2 DEF AnswerStored, IInv, KnownIsTrue
    <3>. QED
      BY <3>1, <3>2
  <2>. QED
    BY <2>2, <2>3 DEF KnownIsTrue
<1>7. OneInFlight'
  BY <1>2, <1>3 DEF AnswerStored, IInv, OneInFlight, InFlight
<1>8. RowIsTrue'
  BY <1>2, <1>3 DEF AnswerStored, IInv, RowIsTrue
<1>. QED
  BY <1>4, <1>5, <1>6, <1>7, <1>8 DEF IInv

\* What Record writes.
LEMMA RecordIs ==
    ASSUME IInv, NEW o \in Observers, Record(o)
    PROVE  /\ row' \in Rows
           /\ row'.status = IF StatusOf(answer[o]) = seen[o].status
                            THEN row.status ELSE StatusOf(answer[o])
           /\ row'.retryable = IF (answer[o] = "retryable") = seen[o].retryable
                               THEN row.retryable ELSE answer[o] = "retryable"
           /\ row'.id \in {row.id, answerId[o]}
           /\ answer[o] # "accepted" => row'.id \in {row.id, 0}
           /\ pc[o] = "record" /\ Returns(o)
           /\ UNCHANGED <<fate, crashes, stale>>
<1>. DEFINE b == answer[o] = "retryable"
            i == IF answer[o] \in {"accepted", "conflict"} THEN answerId[o]
                                                           ELSE seen[o].id
            new == [seen[o] EXCEPT !.status = StatusOf(answer[o]),
                                   !.retryable = b, !.id = i]
<1>1. /\ row \in Rows /\ seen[o] \in Rows /\ answer[o] \in Answers
      /\ answerId[o] \in Nat
      /\ pc[o] = "record" /\ Returns(o) /\ UNCHANGED <<fate, crashes, stale>>
  BY DEF Record, IInv, DeliveryTypeOK, KnownIsTrue
<1>2. row' = Flush(seen[o], new)
  BY <1>1 DEF Record, Rows
<1>3. StatusOf(answer[o]) \in Statuses
  BY <1>1 DEF StatusOf, Answers, Statuses, SUCCESS_STATES
<1>4. b \in BOOLEAN
  BY Zenon
<1>5. i \in Nat
  BY <1>1 DEF Rows
<1>. HIDE DEF b, i
<1>6. /\ new \in Rows /\ new.status = StatusOf(answer[o])
      /\ new.retryable = b /\ new.id = i
  BY <1>1, <1>3, <1>4, <1>5 DEF Rows
<1>. HIDE DEF new
<1>7. /\ row' \in Rows
      /\ row'.status = IF new.status = seen[o].status
                       THEN row.status ELSE new.status
      /\ row'.retryable = IF new.retryable = seen[o].retryable
                          THEN row.retryable ELSE new.retryable
      /\ row'.id = IF new.id = seen[o].id THEN row.id ELSE new.id
  BY <1>1, <1>2, <1>6, FlushColumns
<1>8. i \in {seen[o].id, answerId[o]}
  BY DEF i
<1>9. answer[o] # "accepted" => answerId[o] = 0
  BY <1>1 DEF IInv, KnownIsTrue
<1>. QED
  BY <1>1, <1>6, <1>7, <1>8, <1>9 DEF b

LEMMA RecordStep ==
    ASSUME IInv, NEW o \in Observers, Record(o)
    PROVE  IInv'
<1>1. /\ copies' = copies /\ copies \in Nat /\ answer[o] \in Answers
      /\ answerId[o] \in Nat /\ answerId[o] <= copies
      /\ row \in Rows /\ seen[o] \in Rows
  BY RecordIs DEF IInv, DeliveryTypeOK, KnownIsTrue, copies
<1>2. /\ row'.status # "pending" \/ row.status = "pending"
      /\ row'.status \in {row.status, StatusOf(answer[o])}
  BY <1>1, RecordIs DEF StatusOf, Answers
<1>3. row'.retryable => row.retryable \/ answer[o] = "retryable"
  BY RecordIs
<1>4. DeliveryTypeOK'
  BY <1>1, RecordIs, ReturnsIs DEF IInv, DeliveryTypeOK
<1>5. Counted'
  <2>1. Permits \in {0, 1} /\ Permits' \in {0, 1} /\ stale \in Nat
    BY DEF Permits, IInv, DeliveryTypeOK
  <2>2. /\ Cardinality(Flying)' \in Nat /\ Cardinality(Flying) \in Nat
        /\ Cardinality(Flying)' =
               Cardinality(Flying) - (IF Open(o) THEN 1 ELSE 0)
    BY RecordIs, ReturnsIs, FlyingIsFinite
  <2>3. CASE answer[o] = "retryable"
    <3>1. Open(o)
      BY <2>3, RecordIs DEF Open
    <3>. QED
      BY <1>1, <2>1, <2>2, <3>1, RecordIs DEF IInv, Counted
  <2>4. CASE answer[o] # "retryable"
    <3>1. Permits' <= Permits
      <4>1. Permits' = 1 => Permits = 1
        BY <1>2, <1>3, <2>4 DEF Permits
      <4>. QED
        BY <2>1, <4>1
    <3>2. Cardinality(Flying)' <= Cardinality(Flying)
      BY <2>2
    <3>. QED
      BY <1>1, <2>1, <2>2, <3>1, <3>2, RecordIs DEF IInv, Counted
  <2>. QED
    BY <2>3, <2>4
<1>6. KnownIsTrue'
  <2>1. row'.status \in SUCCESS_STATES => copies > 0
    BY <1>1, <1>2, RecordIs DEF IInv, KnownIsTrue, StatusOf, Answers,
                                SUCCESS_STATES
  <2>. QED
    BY <1>1, <2>1, RecordIs, ReturnsIs DEF IInv, KnownIsTrue
<1>7. OneInFlight'
  BY RecordIs, ReturnsIs DEF IInv, OneInFlight, InFlight
<1>8. RowIsTrue'
  <2>. SUFFICES ASSUME stale' = 0 PROVE RowIsTrue'
    BY DEF RowIsTrue
  <2>1. stale = 0 /\ IsOpen(row) /\ IsOpen(seen[o])
    BY RecordIs DEF IInv, OneInFlight, InFlight
  <2>2. answer[o] \in {"rejected", "retryable"} => copies = 0
    <3>1. answer[o] \in {"rejected", "retryable"} => o \in Flying
      BY RecordIs DEF Open, Flying
    <3>2. o \in Flying => Cardinality(Flying) >= 1
      BY FlyingIsFinite, FS_EmptySet
    <3>3. Permits \in {0, 1}
      BY DEF Permits
    <3>. QED
      BY <1>1, <2>1, <3>1, <3>2, <3>3, FlyingIsFinite DEF IInv, Counted
  <2>3. row'.status \in {"sending", "unknown", "accepted", "failed"}
    BY <1>1, <1>2, <2>1 DEF StatusOf, Answers, IsOpen
  <2>4. row'.status = "failed" => copies = 0
    BY <1>1, <1>2, <2>1, <2>2 DEF StatusOf, Answers, IsOpen
  <2>5. row'.id # 0 => row'.status = "accepted"
    <3>1. CASE answer[o] = "accepted"
      BY <1>1, <2>1, <3>1, RecordIs DEF StatusOf, IsOpen
    <3>2. CASE answer[o] # "accepted"
      <4>1. row'.id = 0
        BY <2>1, <3>2, RecordIs DEF IsOpen
      <4>. QED
        BY <4>1
    <3>. QED
      BY <3>1, <3>2
  <2>. QED
    BY <1>1, <2>3, <2>4, <2>5 DEF RowIsTrue, SUCCESS_STATES
<1>. QED
  BY <1>4, <1>5, <1>6, <1>7, <1>8 DEF IInv

\* Meta's progress touches the messages, a report the row.
LEMMA ProgressIs ==
    ASSUME IInv, MetaProgress
    PROVE  /\ fate' \in Seq(Fates) /\ copies' = copies
           /\ UNCHANGED <<row, call, crashes, stale>>
           /\ fate[1] = "failed" => fate'[1] = "failed"
           /\ fate[1] = "read" => fate'[1] = "read"
           /\ fate[1] \in {"delivered", "read"} =>
                  fate'[1] \in {"delivered", "read"}
<1>1. PICK n \in DOMAIN fate, f \in Fates :
          /\ fate' = [fate EXCEPT ![n] = f]
          /\ \/ fate[n] = "none" /\ f \in {"delivered", "failed"}
             \/ fate[n] = "delivered" /\ f = "read"
  BY DEF MetaProgress, Fates
<1>2. /\ fate \in Seq(Fates) /\ UNCHANGED <<row, call, crashes, stale>>
  BY DEF MetaProgress, IInv, DeliveryTypeOK
<1>3. fate' \in Seq(Fates) /\ copies' = copies
  BY <1>1, <1>2 DEF copies
<1>4. /\ fate[1] = "failed" => fate'[1] = "failed"
      /\ fate[1] = "read" => fate'[1] = "read"
      /\ fate[1] \in {"delivered", "read"} =>
            fate'[1] \in {"delivered", "read"}
  BY <1>1, <1>2
<1>. QED
  BY <1>2, <1>3, <1>4

LEMMA ProgressStep == IInv /\ MetaProgress => IInv'
<1>. SUFFICES ASSUME IInv, MetaProgress PROVE IInv'
  OBVIOUS
<1>1. DeliveryTypeOK'
  BY ProgressIs DEF IInv, DeliveryTypeOK, call
<1>2. Cardinality(Flying)' = Cardinality(Flying)
  BY ProgressIs, FlyingSame DEF Open, call
<1>3. Counted' /\ KnownIsTrue' /\ OneInFlight'
  BY <1>2, ProgressIs DEF IInv, Counted, Permits, KnownIsTrue, OneInFlight,
                          InFlight, call
<1>4. RowIsTrue'
  BY ProgressIs DEF IInv, RowIsTrue
<1>. QED
  BY <1>1, <1>3, <1>4 DEF IInv

\* What Report writes.
LEMMA ReportIs ==
    ASSUME IInv, Report
    PROVE  /\ row.id \in 1 .. copies /\ copies \in Nat
           /\ row' \in Rows /\ row'.retryable = FALSE /\ row'.id = row.id
           /\ row'.status \in SUCCESS_STATES \cup {"failed"}
           /\ row'.status = "failed" => fate[row.id] = "failed"
           /\ row'.status = "read" =>
                 row.status = "read" \/ fate[row.id] = "read"
           /\ row'.status = "delivered" =>
                 \/ row.status = "delivered"
                 \/ fate[row.id] \in {"delivered", "read"}
           /\ row.status = "delivered" => row'.status # "accepted"
           /\ row.status = "read" =>
                 row'.status \notin {"accepted", "delivered"}
           /\ UNCHANGED <<call, fate, crashes, stale>>
<1>1. PICK r \in Reports(row.id) :
          row' = [row EXCEPT !.status = Reported(r), !.retryable = FALSE]
  BY DEF Report
<1>2. /\ row.id \in 1 .. copies /\ copies \in Nat /\ row \in Rows
      /\ UNCHANGED <<call, fate, crashes, stale>>
  BY DEF Report, IInv, DeliveryTypeOK, copies, Rows
<1>3. /\ r \in {"sent", "delivered", "read", "failed"}
      /\ r = "delivered" => fate[row.id] \in {"delivered", "read"}
      /\ r \in {"read", "failed"} => fate[row.id] = r
  BY DEF Reports
<1>4. Reported(r) \in SUCCESS_STATES \cup {"failed"}
  BY <1>3 DEF Reported, SUCCESS_STATES
<1>5. /\ row' \in Rows /\ row'.status = Reported(r)
      /\ row'.retryable = FALSE /\ row'.id = row.id
  BY <1>1, <1>2, <1>4 DEF Rows, Statuses
<1>. QED
  BY <1>2, <1>3, <1>4, <1>5 DEF Reported

LEMMA ReportStep == IInv /\ Report => IInv'
<1>. SUFFICES ASSUME IInv, Report PROVE IInv'
  OBVIOUS
<1>1. copies' = copies /\ copies \in Nat /\ copies > 0
  BY ReportIs DEF copies
<1>2. DeliveryTypeOK'
  BY <1>1, ReportIs DEF IInv, DeliveryTypeOK, call
<1>3. Counted'
  <2>1. Cardinality(Flying)' = Cardinality(Flying)
    BY ReportIs, FlyingSame DEF Open, call
  <2>2. Permits' = 0 /\ Permits \in {0, 1}
    BY ReportIs DEF Permits, SUCCESS_STATES
  <2>3. stale' = stale /\ stale \in Nat
    BY ReportIs DEF IInv, DeliveryTypeOK
  <2>. QED
    BY <1>1, <2>1, <2>2, <2>3, FlyingIsFinite DEF IInv, Counted
<1>4. KnownIsTrue'
  BY <1>1, ReportIs DEF IInv, KnownIsTrue, call
<1>5. ASSUME stale = 0
      PROVE  /\ copies = 1 /\ row.id = 1
             /\ \A p \in Observers : ~InFlight(p)
  <2>1. Permits \in {0, 1}
    BY DEF Permits
  <2>2. copies = 1 /\ row.id = 1
    BY <1>1, <1>5, <2>1, ReportIs, FlyingIsFinite DEF IInv, Counted
  <2>. QED
    BY <1>5, <2>2 DEF IInv, OneInFlight, IsOpen
<1>6. OneInFlight'
  BY <1>5, ReportIs DEF IInv, OneInFlight, InFlight, call
<1>7. RowIsTrue'
  BY <1>1, <1>5, ReportIs DEF IInv, RowIsTrue
<1>. QED
  BY <1>2, <1>3, <1>4, <1>6, <1>7 DEF IInv

LEMMA InvStep == IInv /\ [DeliveryNext]_deliveryVars => IInv'
<1>. SUFFICES ASSUME IInv, [DeliveryNext]_deliveryVars PROVE IInv'
  OBVIOUS
<1>1. ASSUME NEW o \in Observers,
             \/ LoadRow(o) \/ Leave(o) \/ ObserveInterrupted(o) \/ Begin(o)
             \/ Reload(o) \/ MetaAccepts(o) \/ MetaRefuses(o) \/ Record(o)
             \/ Crash(o)
      PROVE  IInv'
  BY <1>1, LoadStep, ReturnStep, InterruptedStep, BeginStep, AcceptsStep,
     RefusesStep, RecordStep
<1>2. CASE MetaProgress
  BY <1>2, ProgressStep
<1>3. CASE Report
  BY <1>3, ReportStep
<1>4. CASE UNCHANGED deliveryVars
  <2>1. Cardinality(Flying)' = Cardinality(Flying)
    BY <1>4, FlyingSame DEF deliveryVars, call, Open
  <2>. QED
    BY <1>4, <2>1
       DEF deliveryVars, call, IInv, DeliveryTypeOK, Counted, Permits,
           KnownIsTrue, OneInFlight, RowIsTrue, InFlight, IsOpen, copies
<1>. QED
  BY <1>1, <1>2, <1>3, <1>4 DEF DeliveryNext

LEMMA Invariance == DeliverySpec => []IInv
BY InvInit, InvStep, PTL DEF DeliverySpec

\* The columns of the row and the observers keep their types.
THEOREM DeliveryIsTyped == DeliverySpec => []DeliveryTypeOK
<1>1. IInv => DeliveryTypeOK
  BY DEF IInv
<1>. QED
  BY <1>1, Invariance, PTL

LEMMA CountsAre ==
    ASSUME IInv
    PROVE  /\ copies \in Nat /\ stale \in Nat
           /\ copies + Permits <= 1 + stale
           /\ stale = 0 /\ Permits = 1 => Flying = {}
<1>1. copies \in Nat /\ stale \in Nat /\ Permits \in {0, 1}
  BY DEF IInv, DeliveryTypeOK, copies, Permits
<1>2. copies + Permits <= 1 + stale
  BY <1>1, FlyingIsFinite DEF IInv, Counted
<1>3. stale = 0 /\ Permits = 1 => Cardinality(Flying) = 0
  BY <1>1, FlyingIsFinite DEF IInv, Counted
<1>. QED
  BY <1>1, <1>2, <1>3, FlyingIsFinite, FS_EmptySet

\* No interleaving of observers, crashes and reports sends a copy more than
\* one, and one for every decision on an outdated copy of the row.
THEOREM NoDuplicateMessage == DeliverySpec => []OneCopyPerDecision
<1>1. IInv => OneCopyPerDecision
  <2>1. Permits \in {0, 1}
    BY DEF Permits
  <2>. QED
    BY <2>1, CountsAre DEF OneCopyPerDecision
<1>. QED
  BY <1>1, Invariance, PTL

\* The row never claims an unsent success, and without a decision on an
\* outdated copy it never offers an unsafe retry.
THEOREM RowIsHonest == DeliverySpec => []HonestStatus
<1>1. IInv => HonestStatus
  <2>. SUFFICES ASSUME IInv PROVE HonestStatus
    OBVIOUS
  <2>1. row.status \in SUCCESS_STATES => copies > 0
    BY DEF IInv, KnownIsTrue
  <2>2. MaySend(row) => Permits = 1
    BY DEF MaySend, Permits
  <2>3. MaySend(row) => copies <= stale
    BY <2>2, CountsAre
  <2>4. MaySend(row) /\ stale = 0 => \A o \in Observers : ~Open(o)
    BY <2>2, CountsAre DEF Flying
  <2>5. row.status = "failed" /\ copies > 0 /\ stale = 0 => fate[1] = "failed"
    BY DEF IInv, RowIsTrue
  <2>. QED
    BY <2>1, <2>3, <2>4, <2>5 DEF HonestStatus
<1>. QED
  BY <1>1, Invariance, PTL

\* A confirmed delivery is never taken back, as long as nobody decided on an
\* outdated copy of the row.
THEOREM ReceiptsAreKept == DeliverySpec => ReceiptIsKept
<1>1. IInv /\ [DeliveryNext]_deliveryVars =>
          [stale' = 0 =>
             /\ row.status = "read" => row'.status = "read"
             /\ row.status = "delivered" =>
                   row'.status \in {"delivered", "read"}]_deliveryVars
  <2>. SUFFICES ASSUME IInv, DeliveryNext, stale' = 0,
                       row.status \in {"delivered", "read"}
                PROVE  /\ row.status = "read" => row'.status = "read"
                       /\ row.status = "delivered" =>
                             row'.status \in {"delivered", "read"}
    BY DEF deliveryVars
  <2>1. CASE Report
    <3>1. stale = 0 /\ row.id = 1
      <4>1. Permits \in {0, 1}
        BY DEF Permits
      <4>. QED
        BY <2>1, <4>1, ReportIs, CountsAre
    <3>. QED
      BY <2>1, <3>1, ReportIs DEF IInv, RowIsTrue, SUCCESS_STATES
  <2>2. ASSUME NEW o \in Observers, ObserveInterrupted(o) \/ Begin(o)
        PROVE  FALSE
    <3>1. seen[o].status = row.status
      BY <2>2, StaleIs DEF ObserveInterrupted, Begin, Outdated
    <3>. QED
      BY <2>2, <3>1 DEF ObserveInterrupted, Begin, MaySend
  <2>3. ASSUME NEW o \in Observers, Record(o)
        PROVE  FALSE
    BY <2>3, RecordIs DEF IInv, OneInFlight, InFlight, IsOpen
  <2>4. CASE \/ MetaProgress
             \/ \E o \in Observers : \/ LoadRow(o) \/ Leave(o) \/ Reload(o)
                                     \/ MetaAccepts(o) \/ MetaRefuses(o)
                                     \/ Crash(o)
    <3>1. UNCHANGED row
      BY <2>4 DEF MetaProgress, LoadRow, Leave, Reload, MetaAccepts,
                  MetaRefuses, Hears, Crash
    <3>. QED
      BY <3>1
  <2>. QED
    BY <2>1, <2>2, <2>3, <2>4 DEF DeliveryNext
<1>. QED
  BY <1>1, Invariance, PTL DEF DeliverySpec, ReceiptIsKept

-----------------------------------------------------------------------------
LEMMA OneShotInit == DeliveryInit => OneShot!Init
BY DEF DeliveryInit, NewRow, OneShot!Init, Verdict, SUCCESS_STATES, copies

\* What the row says, before and after a step.
Says(r, v) ==
    /\ r.status \in SUCCESS_STATES => v = "sent"
    /\ r.status = "failed" => v = "refused"
    /\ r.status = "unknown" => v = "unknown"
    /\ r.status \in {"pending", "sending"} => v = "open"

LEMMA VerdictIs ==
    ASSUME IInv, IInv'
    PROVE  /\ row \in Rows /\ row' \in Rows
           /\ Says(row, Verdict) /\ Says(row', Verdict')
BY DEF Verdict, SUCCESS_STATES, Says, IInv, DeliveryTypeOK

LEMMA OneShotStep ==
    IInv /\ [DeliveryNext]_deliveryVars =>
        [OneShot!Next]_<<copies, Verdict, stale>>
<1>. SUFFICES ASSUME IInv, [DeliveryNext]_deliveryVars
              PROVE  OneShot!Next \/ UNCHANGED <<copies, Verdict, stale>>
  OBVIOUS
<1>1. /\ row \in Rows /\ row' \in Rows
      /\ Says(row, Verdict) /\ Says(row', Verdict')
      /\ copies \in Nat /\ stale \in Nat
  BY InvStep, VerdictIs, CountsAre
<1>2. ASSUME NEW o \in Observers, ObserveInterrupted(o) \/ Begin(o)
      PROVE  OneShot!Next \/ UNCHANGED <<copies, Verdict, stale>>
  <2>1. Decides(o) /\ copies' = copies
    BY <1>2 DEF ObserveInterrupted, Begin, copies
  <2>2. row'.status \in {"unknown", "sending"}
    BY <1>2, InterruptedIs, BeginIs
  <2>3. CASE Outdated(o)
    BY <1>1, <2>1, <2>2, <2>3, StaleIs DEF OneShot!Next, OneShot!Race, Says
  <2>4. CASE ~Outdated(o)
    <3>1. stale' = stale
      BY <2>1, <2>4, StaleIs
    <3>2. CASE ObserveInterrupted(o)
      <4>1. Verdict = "open" /\ Verdict' = "unknown"
        BY <1>1, <2>4, <3>2, InterruptedIs
           DEF ObserveInterrupted, Outdated, Says
      <4>. QED
        BY <2>1, <3>1, <4>1 DEF OneShot!Next, OneShot!Decide
    <3>3. CASE Begin(o)
      <4>1. /\ Verdict' = "open" /\ MaySend(row)
            /\ Verdict = "open" \/ Verdict = "refused"
        BY <1>1, <2>4, <3>3, BeginIs DEF Begin, MaySend, Outdated, Says
      <4>2. copies <= stale
        <5>1. Permits = 1
          BY <4>1 DEF Permits, MaySend
        <5>. QED
          BY <5>1, CountsAre
      <4>. QED
        BY <2>1, <3>1, <4>1, <4>2 DEF OneShot!Next, OneShot!Decide
    <3>. QED
      BY <1>2, <3>2, <3>3
  <2>. QED
    BY <2>3, <2>4
<1>3. ASSUME NEW o \in Observers, MetaAccepts(o)
      PROVE  OneShot!Next
  <2>1. copies' = copies + 1 /\ UNCHANGED <<row, stale>> /\ pc[o] = "send"
    BY <1>3 DEF MetaAccepts, Hears, copies, IInv, DeliveryTypeOK, Fates
  <2>2. copies <= stale
    <3>1. Cardinality(Flying) # 0
      BY <2>1, FlyingIsFinite, FS_EmptySet DEF Flying, Open
    <3>2. Permits \in {0, 1}
      BY DEF Permits
    <3>. QED
      BY <1>1, <3>1, <3>2, FlyingIsFinite DEF IInv, Counted
  <2>3. Verdict' = Verdict
    BY <2>1 DEF Verdict
  <2>4. stale = 0 => Verdict \in {"open", "unknown"}
    BY <1>1, <2>1 DEF IInv, OneInFlight, InFlight, IsOpen, Says
  <2>. QED
    BY <1>1, <2>1, <2>2, <2>3, <2>4 DEF OneShot!Next, OneShot!Send
<1>4. ASSUME NEW o \in Observers, Record(o)
      PROVE  OneShot!Next \/ UNCHANGED <<copies, Verdict, stale>>
  <2>1. /\ UNCHANGED <<copies, stale>>
        /\ row'.status \in {row.status, StatusOf(answer[o])}
    BY <1>4, RecordIs DEF copies
  <2>2. CASE row'.status = row.status
    BY <2>1, <2>2 DEF Verdict
  <2>3. CASE row'.status = StatusOf(answer[o])
    <3>1. answer[o] \in Answers /\ pc[o] = "record"
      BY <1>4, RecordIs DEF IInv, KnownIsTrue
    <3>2. stale = 0 => Verdict \in {"open", "unknown"}
      BY <1>1, <3>1 DEF IInv, OneInFlight, InFlight, IsOpen, Says
    <3>3. CASE answer[o] = "accepted"
      BY <1>1, <2>1, <2>3, <3>1, <3>3
         DEF IInv, KnownIsTrue, StatusOf, Says, SUCCESS_STATES,
             OneShot!Next, OneShot!Decide
    <3>4. CASE answer[o] \in {"conflict", "unknown"}
      <4>1. Verdict' = "unknown"
        BY <1>1, <2>3, <3>4 DEF StatusOf, Says
      <4>. QED
        BY <1>1, <2>1, <3>2, <4>1 DEF OneShot!Next, OneShot!Decide
    <3>5. CASE answer[o] \in {"rejected", "retryable"}
      <4>1. Verdict' = "refused"
        BY <1>1, <2>3, <3>5 DEF StatusOf, Says
      <4>2. stale = 0 => copies = 0
        <5>1. Cardinality(Flying) # 0
          BY <3>1, <3>5, FlyingIsFinite, FS_EmptySet DEF Flying, Open
        <5>2. Permits \in {0, 1}
          BY DEF Permits
        <5>. QED
          BY <1>1, <5>1, <5>2, FlyingIsFinite DEF IInv, Counted
      <4>. QED
        BY <1>1, <2>1, <4>1, <4>2 DEF OneShot!Next, OneShot!Decide
    <3>. QED
      BY <3>1, <3>3, <3>4, <3>5 DEF Answers
  <2>. QED
    BY <2>1, <2>2, <2>3
<1>5. CASE Report
  <2>1. /\ copies' = copies /\ copies > 0 /\ stale' = stale
        /\ row'.status \in SUCCESS_STATES \cup {"failed"}
    BY <1>5, ReportIs DEF copies
  <2>2. stale = 0 => Verdict \in {"sent", "refused"}
    <3>1. row.id # 0
      BY <1>5 DEF Report
    <3>2. stale = 0 => row.status \in SUCCESS_STATES \cup {"failed"}
      BY <3>1 DEF IInv, RowIsTrue
    <3>. QED
      BY <1>1, <3>2 DEF Says
  <2>. QED
    BY <1>1, <2>1, <2>2 DEF Says, OneShot!Next, OneShot!Decide
<1>6. CASE \/ \E o \in Observers : \/ LoadRow(o) \/ Leave(o) \/ Reload(o)
                                   \/ MetaRefuses(o) \/ Crash(o)
           \/ MetaProgress \/ UNCHANGED deliveryVars
  <2>1. UNCHANGED <<row, stale>>
    BY <1>6 DEF MetaProgress, LoadRow, Leave, Reload, MetaRefuses, Hears,
                Crash, deliveryVars
  <2>2. copies' = copies
    BY <1>6, ProgressIs
       DEF LoadRow, Leave, Reload, MetaRefuses, Crash, deliveryVars, copies
  <2>. QED
    BY <2>1, <2>2 DEF Verdict
<1>. QED
  BY <1>2, <1>3, <1>4, <1>5, <1>6 DEF DeliveryNext

\* The delivery code implements the one-shot contract, with decisions on an
\* outdated copy of the row as its races.
THEOREM DeliveryIsOneShot == DeliverySpec => OneShotSpec
BY OneShotInit, OneShotStep, Invariance, PTL
   DEF DeliverySpec, OneShotSpec, OneShot!Spec

-----------------------------------------------------------------------------
(* WHO ANSWERS                                                             *)

SessionRow == [human : BOOLEAN, app : BOOLEAN,
               until : Nat \cup {None}, resumedAt : Times \cup {None},
               resumeEcho : Echoes \cup {None}]

Marks == Echoes \cup {None}

Jobs == Echoes \cup {"turn", "takeover"}

-----------------------------------------------------------------------------
(* The inductive invariants.                                               *)

\* What a transaction holds while it is open.
IsJob ==
    /\ worker \in [doing : {"job"}, job : Jobs, loaded : SessionRow,
                   locked : BOOLEAN]
    /\ ~worker.locked
    /\ worker.job \in Echoes => stage[worker.job] = "queued"

IsCommand ==
    /\ worker \in [doing : {"command"}, job : Commands, loaded : SessionRow,
                   marker : Marks, locked : BOOLEAN]
    /\ worker.locked
    /\ stage[worker.job] = "queued"

IsChat == worker \in [doing : {"chat"}, locked : BOOLEAN, view : SessionRow]

\* The answer has been checked: nobody is in control of the session.
IsChecked ==
    /\ worker \in [doing : {"checked"}, locked : BOOLEAN, view : SessionRow,
                   heard : SUBSET Replies]
    /\ worker.locked /\ ~worker.view.human

IsClear ==
    /\ worker \in [doing : {"clear"}, marker : Marks, locked : BOOLEAN]
    /\ ~worker.locked

WorkerShape ==
    worker = Free \/ IsJob \/ IsCommand \/ IsChat \/ IsChecked \/ IsClear

PortalShape ==
    \/ portal = Free
    \/ /\ portal \in [doing : {"return", "clear"}, marker : Marks,
                       locked : BOOLEAN]
       /\ portal.locked <=> portal.doing = "return"

Types ==
    /\ clock \in Times
    /\ stage \in [Echoes -> {"unsent", "sent", "queued", "done"}]
    /\ sentAt \in [Echoes -> Times \cup {None}]
    /\ \A e \in Echoes : stage[e] = "unsent" <=> sentAt[e] = None
    /\ marker \in Marks /\ markerEnd \in Nat
    /\ session \in SessionRow
    /\ record \in {"none", "app", "other"}
    /\ returned \in Times \cup {None}
    /\ {races, taken, opened, lapsed} \subseteq BOOLEAN
    /\ unsent \subseteq Replies
    /\ WorkerShape /\ PortalShape

Heard(e) == stage[e] \in {"queued", "done"}

\* Is e newer than the last explicit return to AI?
Newer(e) == IF returned = None THEN TRUE ELSE sentAt[e] > returned

\* Without commands, the marker of a reply newer than the last return is
\* still there: only a command or the Inbox's return deletes one, and the
\* Inbox deletes it in the minute of its return.
MarkerStands ==
    NoCommand =>
        /\ \A e \in Replies : Heard(e) /\ Newer(e) =>
              marker # None /\ markerEnd >= sentAt[e] + Window
        /\ worker.doing \notin {"command", "clear"}
        /\ portal.doing = "clear" => returned = clock

\* Nothing carries a time to come.
PastOnly ==
    /\ \A e \in Echoes : sentAt[e] # None => sentAt[e] <= clock
    /\ returned # None => returned <= clock

\* When the transactions of worker and Inbox do not overlap, the session is
\* what the worker loaded, and what it has committed in a turn.
NoOverlap ==
    ~races =>
        /\ worker = Free \/ portal = Free
        /\ worker.doing \in {"job", "command"} => worker.loaded = session
        /\ worker.doing = "chat" /\ ~worker.locked => worker.view = session

\* Meta delivers an echo in the minute it is sent.
OnTime == \A e \in Echoes : stage[e] = "sent" => sentAt[e] = clock

\* The echoes a return to AI has settled: the command itself, and everything
\* sent before.
Answered(e) ==
    \/ e \in Commands /\ stage[e] = "done"
    \/ /\ returned # None /\ session.resumedAt = returned
       /\ sentAt[e] < returned

\* An explicit return to AI stands.
Stands ==
    /\ ~session.human
    /\ worker.doing \in {"chat", "checked"} => worker.view = session
    /\ worker.doing = "job" => worker.job # "takeover"
    /\ \A e \in Echoes : stage[e] # "unsent" => Answered(e)
    /\ \/ Marker = None
       \/ worker.doing = "clear" /\ Marker = worker.marker
       \/ portal.doing = "clear" /\ Marker = portal.marker

ReturnInv == ~races /\ ~taken => Stands

\* Between reading the marker and the commit of a return, only an echo sent
\* in this minute replaces the marker.
ReadsLast ==
    ~races =>
        /\ worker.doing = "command" =>
              \/ Marker \in {None, worker.marker}
              \/ \E e \in Echoes \ {worker.job} : sentAt[e] = clock
        /\ portal.doing = "return" =>
              \/ Marker \in {None, portal.marker}
              \/ \E e \in Echoes : sentAt[e] = clock

\* What a session remembers of a return: its time has come, and the echo has
\* been received.
RemembersAt(s, now, stages) ==
    /\ s.resumedAt # None => s.resumedAt <= now
    /\ s.resumeEcho # None => stages[s.resumeEcho] \in {"queued", "done"}

Remembers(s) == RemembersAt(s, clock, stage)

Memory ==
    /\ Remembers(session)
    /\ worker.doing \in {"job", "command"} => Remembers(worker.loaded)
    /\ worker.doing \in {"chat", "checked"} => Remembers(worker.view)
    /\ marker # None => Heard(marker)

\* An echo waits that will end open control of session s.
EchoWaits(s) ==
    \E e \in Echoes : stage[e] = "queued" /\ ~Stale(s, e)

\* Control without a deadline that nobody took on purpose is a turn's answer
\* to an echo that the worker has yet to process.
EndsByItself ==
    /\ session.human /\ session.until = None => EchoWaits(session)
    /\ worker.doing = "job" =>
          (worker.job = "takeover" => EchoWaits(worker.loaded))
    /\ worker.doing = "chat" =>
          /\ ~worker.view.human
          /\ Marker # None => /\ stage[Marker] = "queued"
                              /\ ~Stale(session, Marker)
                              /\ ~Stale(worker.view, Marker)

PauseInv == ~races /\ ~opened /\ ~lapsed => EndsByItself

-----------------------------------------------------------------------------
(* What the functions of handoff.py return.                                *)

\* Writing all columns of a row that nobody changed stores the row.
LEMMA WriteSession ==
    ASSUME session \in SessionRow, NEW new \in SessionRow
    PROVE  Write(session, new) = new
  BY DEF Write, SessionRow

LEMMA WriteRow ==
    ASSUME session \in SessionRow, NEW new \in SessionRow,
           NEW loaded \in SessionRow
    PROVE  Write(loaded, new) \in SessionRow
  BY DEF Write, SessionRow

\* A takeover writes three columns.
LEMMA TakeoverRow ==
    ASSUME NEW s \in SessionRow, NEW app \in BOOLEAN,
           NEW until \in Nat \cup {None}
    PROVE  [s EXCEPT !.human = TRUE, !.app = app, !.until = until]
              = [human |-> TRUE, app |-> app, until |-> until,
                 resumedAt |-> s.resumedAt, resumeEcho |-> s.resumeEcho]
<1> DEFINE t == [s EXCEPT !.human = TRUE, !.app = app, !.until = until]
<1> SUFFICES t = [human |-> TRUE, app |-> app, until |-> until,
                  resumedAt |-> s.resumedAt, resumeEcho |-> s.resumeEcho]
  OBVIOUS
<1>1. t \in SessionRow
  BY DEF SessionRow
<1>2. /\ t.human = TRUE /\ t.app = app /\ t.until = until
      /\ t.resumedAt = s.resumedAt /\ t.resumeEcho = s.resumeEcho
  BY DEF SessionRow
<1>3. t = [human |-> t.human, app |-> t.app, until |-> t.until,
           resumedAt |-> t.resumedAt, resumeEcho |-> t.resumeEcho]
  <2> HIDE DEF t
  <2> QED
    BY <1>1 DEF SessionRow
<1> HIDE DEF t
<1> QED
  BY <1>2, <1>3

LEMMA ActivateAppRow ==
    ASSUME NEW s \in SessionRow, NEW now \in Nat, NEW b \in BOOLEAN
    PROVE  \E until \in Nat :
              /\ ActivateApp(s, now, b)
                    = [human |-> TRUE, app |-> TRUE, until |-> until,
                       resumedAt |-> s.resumedAt, resumeEcho |-> s.resumeEcho]
              /\ until \in {s.until, now + Window}
              /\ b => until = now + Window
<1> DEFINE preserve == ~b /\ s.human /\ s.app /\ s.until # None
           until == IF preserve THEN s.until ELSE now + Window
<1>1. now + Window \in Nat
  BY HandoffAssumption
<1>2. until \in Nat
  BY <1>1 DEF SessionRow
<1>3. ActivateApp(s, now, b)
         = [s EXCEPT !.human = TRUE, !.app = TRUE, !.until = until]
  BY DEF ActivateApp
<1>4. ActivateApp(s, now, b)
         = [human |-> TRUE, app |-> TRUE, until |-> until,
            resumedAt |-> s.resumedAt, resumeEcho |-> s.resumeEcho]
  <2> HIDE DEF until
  <2> QED
    BY <1>2, <1>3, TakeoverRow
<1>5. until \in {s.until, now + Window} /\ (b => until = now + Window)
  OBVIOUS
<1> HIDE DEF until
<1> QED
  BY <1>2, <1>4, <1>5

LEMMA ActivateOpenRow ==
    ASSUME NEW s \in SessionRow
    PROVE  ActivateOpen(s)
              = [human |-> TRUE, app |-> FALSE, until |-> None,
                 resumedAt |-> s.resumedAt, resumeEcho |-> s.resumeEcho]
  BY TakeoverRow DEF ActivateOpen

\* Every function of handoff.py returns a session.
LEMMA Sessions ==
    ASSUME Types, NEW s \in SessionRow
    PROVE  /\ \A now \in Nat, b \in BOOLEAN :
                 ActivateApp(s, now, b) \in SessionRow
           /\ ActivateOpen(s) \in SessionRow
           /\ \A t \in Times : resume_ai(s, t) \in SessionRow
           /\ Settled(s) \in SessionRow
           /\ [s EXCEPT !.resumeEcho = None] \in SessionRow
<1>1. ASSUME NEW now \in Nat, NEW b \in BOOLEAN
      PROVE  ActivateApp(s, now, b) \in SessionRow
  <2>1. PICK until \in Nat :
           ActivateApp(s, now, b)
              = [human |-> TRUE, app |-> TRUE, until |-> until,
                 resumedAt |-> s.resumedAt, resumeEcho |-> s.resumeEcho]
    BY ActivateAppRow
  <2> QED
    BY <2>1 DEF SessionRow
<1>2. ActivateOpen(s) \in SessionRow
  <2>1. ActivateOpen(s)
           = [human |-> TRUE, app |-> FALSE, until |-> None,
              resumedAt |-> s.resumedAt, resumeEcho |-> s.resumeEcho]
    BY ActivateOpenRow
  <2> QED
    BY <2>1 DEF SessionRow
<1>3. ASSUME NEW t \in Times PROVE resume_ai(s, t) \in SessionRow
  BY DEF resume_ai, SessionRow, Marker, Types, Marks
<1>4. Settled(s) \in SessionRow
  BY <1>3 DEF Settled, Types
<1>5. [s EXCEPT !.resumeEcho = None] \in SessionRow
  BY DEF SessionRow
<1> QED
  BY <1>1, <1>2, <1>3, <1>4, <1>5

\* What the worker holds, by what it is doing.
LEMMA WorkerHolds ==
    ASSUME Types
    PROVE  /\ worker.doing = "nothing" <=> worker = Free
           /\ worker.doing = "job" =>
                 /\ worker.job \in Jobs /\ worker.loaded \in SessionRow
                 /\ ~worker.locked
                 /\ worker.job \in Echoes => stage[worker.job] = "queued"
           /\ worker.doing = "command" =>
                 /\ worker.job \in Commands /\ worker.loaded \in SessionRow
                 /\ worker.marker \in Marks /\ worker.locked
                 /\ stage[worker.job] = "queued"
           /\ worker.doing = "chat" =>
                 worker.view \in SessionRow /\ worker.locked \in BOOLEAN
           /\ worker.doing = "checked" =>
                 /\ worker.view \in SessionRow /\ worker.locked
                 /\ ~worker.view.human /\ worker.heard \subseteq Replies
           /\ worker.doing = "clear" => worker.marker \in Marks
           /\ worker.doing \in {"nothing", "job", "chat", "checked",
                                "command", "clear"}
           /\ worker.locked \in BOOLEAN
<1> WorkerShape
  BY DEF Types
<1>1. CASE worker = Free
  BY <1>1 DEF Free
<1>2. CASE IsJob
  BY <1>2 DEF Free, IsJob
<1>3. CASE IsCommand
  BY <1>3 DEF Free, IsCommand
<1>4. CASE IsChat
  BY <1>4 DEF Free, IsChat
<1>5. CASE IsChecked
  BY <1>5 DEF Free, IsChecked
<1>6. CASE IsClear
  BY <1>6 DEF Free, IsClear
<1> QED
  BY <1>1, <1>2, <1>3, <1>4, <1>5, <1>6 DEF WorkerShape

LEMMA PortalHolds ==
    ASSUME Types
    PROVE  /\ portal.doing = "nothing" <=> portal = Free
           /\ portal.doing # "nothing" => portal.marker \in Marks
           /\ portal.doing \in {"nothing", "return", "clear"}
           /\ portal.locked \in BOOLEAN
           /\ portal.doing = "clear" => ~portal.locked
           /\ portal.doing = "return" =>
                 portal = [doing |-> "return", marker |-> portal.marker,
                           locked |-> TRUE]
<1> PortalShape
  BY DEF Types
<1>1. CASE portal = Free
  BY <1>1 DEF Free
<1>2. CASE /\ portal \in [doing : {"return", "clear"}, marker : Marks,
                          locked : BOOLEAN]
           /\ portal.locked <=> portal.doing = "return"
  BY <1>2 DEF Free
<1> QED
  BY <1>1, <1>2 DEF PortalShape

\* The session a turn starts with, and the one its answer is checked with.
LEMMA TurnSessions ==
    ASSUME Types
    PROVE  /\ worker.doing = "job" => AtStart \in SessionRow
           /\ worker.doing = "chat" => View \in SessionRow
<1>1. clock \in Nat /\ FALSE \in BOOLEAN
  BY HandoffAssumption DEF Types, Times
<1>2. worker.doing = "job" => AtStart \in SessionRow
  BY <1>1, WorkerHolds, Sessions DEF AtStart
<1>3. worker.doing = "chat" => View \in SessionRow
  BY WorkerHolds DEF View, Types
<1> QED
  BY <1>2, <1>3

-----------------------------------------------------------------------------
(* Types.                                                                  *)

LEMMA TypesInit ==
    ASSUME Init
    PROVE  Types
<1>1. session \in SessionRow
  BY DEF Init, SessionRow
<1>2. clock \in Times
  BY HandoffAssumption DEF Init, Times
<1>3. {races, taken, opened, lapsed} \subseteq BOOLEAN
  BY DEF Init
<1>4. /\ stage \in [Echoes -> {"unsent", "sent", "queued", "done"}]
      /\ sentAt \in [Echoes -> Times \cup {None}]
      /\ \A e \in Echoes : stage[e] = "unsent" <=> sentAt[e] = None
  BY DEF Init
<1> QED
  BY <1>1, <1>2, <1>3, <1>4 DEF Init, Types, Marks, WorkerShape, PortalShape

\* An echo's stage and time change outside the worker.
LEMMA OutsideTypes ==
    ASSUME Types, NEW e \in Echoes, Send(e) \/ Ingress(e)
    PROVE  Types'
<1>1. /\ UNCHANGED <<clock, session, record, returned, worker, portal>>
      /\ UNCHANGED <<races, unsent, opened, lapsed>>
  BY DEF Send, Ingress, history
<1>2. stage' \in [Echoes -> {"unsent", "sent", "queued", "done"}]
  BY DEF Send, Ingress, Types
<1>3. sentAt' \in [Echoes -> Times \cup {None}]
  BY DEF Send, Ingress, Types
<1>4. \A d \in Echoes : stage'[d] = "unsent" <=> sentAt'[d] = None
  BY HandoffAssumption DEF Send, Ingress, Types, Times
<1>5. marker' \in Marks /\ markerEnd' \in Nat
  BY HandoffAssumption DEF Send, Ingress, Types, Times, redis, Marks
<1>6. taken' \in BOOLEAN
  BY DEF Send, Ingress, Types, history
<1>7. \A d \in Echoes : stage[d] = "queued" => stage'[d] = "queued"
  BY DEF Send, Ingress, Types
<1>8. WorkerShape'
  BY <1>1, <1>7
     DEF Types, WorkerShape, IsJob, IsCommand, IsChat, IsChecked, IsClear,
         Echoes
<1>9. PortalShape'
  BY <1>1 DEF Types, PortalShape
<1> QED
  BY <1>1, <1>2, <1>3, <1>4, <1>5, <1>6, <1>8, <1>9 DEF Types, SessionRow

\* A step that leaves echoes and marker alone keeps the types if it leaves a
\* session, a record and transactions.
LEMMA InsideTypes ==
    ASSUME Types,
           UNCHANGED <<races, stage, sentAt, marker, markerEnd>>,
           clock' \in Times,
           session' \in SessionRow,
           record' \in {"none", "app", "other"},
           returned' \in Times \cup {None},
           {taken', opened', lapsed'} \subseteq BOOLEAN,
           unsent' \subseteq Replies,
           WorkerShape', PortalShape'
    PROVE  Types'
  BY DEF Types, SessionRow, Marks

LEMMA SameWorker ==
    ASSUME Types, UNCHANGED <<worker, stage>>
    PROVE  WorkerShape'
  BY DEF Types, WorkerShape, IsJob, IsCommand, IsChat, IsChecked, IsClear

LEMMA SamePortal ==
    ASSUME Types, UNCHANGED portal
    PROVE  PortalShape'
  BY DEF Types, PortalShape

LEMMA TickTypes ==
    ASSUME Types, Tick
    PROVE  Types'
<1>1. clock' \in Times
  BY HandoffAssumption DEF Tick, Types, Times
<1>2. WorkerShape' /\ PortalShape'
  BY SameWorker, SamePortal DEF Tick
<1> QED
  BY <1>1, <1>2, InsideTypes DEF Tick, Types, redis, history, SessionRow

LEMMA LoadTypes ==
    ASSUME Types, NEW job \in Echoes \cup {"turn"}, Load(job)
    PROVE  Types'
<1>1. IsJob'
  BY HandoffAssumption DEF Load, Types, IsJob, Jobs, SessionRow
<1>2. WorkerShape' /\ PortalShape'
  BY <1>1, SamePortal DEF Load, WorkerShape
<1> QED
  BY <1>2, InsideTypes DEF Load, Types, redis, history, SessionRow

\* A worker's transaction that ends, or stores nothing, keeps the types.
LEMMA EndTypes ==
    ASSUME Types,
           UNCHANGED <<races, clock, stage, sentAt, redis, portal, returned,
                       lapsed>>,
           {taken', opened'} \subseteq BOOLEAN,
           session' \in SessionRow,
           record' \in {"none", "app", "other"},
           unsent' \subseteq Replies,
           worker' = Free
    PROVE  Types'
<1>1. WorkerShape' /\ PortalShape'
  BY SamePortal DEF WorkerShape, Free
<1> QED
  BY <1>1, InsideTypes DEF Types, redis, SessionRow

LEMMA SomeReason ==
    ASSUME NEW s \in SessionRow
    PROVE  Reason(s) \in {"none", "app", "other"}
  BY DEF Reason

LEMMA TurnEndsTypes ==
    ASSUME Types,
           \/ TurnToHuman \/ TurnAsksHuman \/ TurnReplies \/ TurnHandsOver
    PROVE  Types'
<1>1. CASE TurnToHuman
  <2>1. AtStart \in SessionRow /\ worker.loaded \in SessionRow
    BY <1>1, TurnSessions, WorkerHolds DEF TurnToHuman, Has
  <2>2. session' \in SessionRow /\ record' \in {"none", "app", "other"}
    BY <1>1, <2>1, WriteRow, SomeReason DEF TurnToHuman, Types
  <2> QED
    BY <1>1, <2>2, EndTypes DEF TurnToHuman, Types, history
<1>2. CASE TurnAsksHuman
  <2>1. AtStart \in SessionRow /\ worker.loaded \in SessionRow
    BY <1>2, TurnSessions, WorkerHolds DEF TurnAsksHuman, Has
  <2>2. Settled(AtStart) \in SessionRow
    BY <2>1, Sessions
  <2>3. ActivateOpen(Settled(AtStart)) \in SessionRow
    BY <2>2, Sessions
  <2>4. session' \in SessionRow
    BY <1>2, <2>1, <2>3, WriteRow DEF TurnAsksHuman, Types
  <2> QED
    BY <1>2, <2>4, EndTypes DEF TurnAsksHuman, Types
<1>3. CASE TurnReplies
  <2>1. worker.view \in SessionRow /\ worker.heard \subseteq Replies
    BY <1>3, WorkerHolds DEF TurnReplies
  <2>2. session' \in SessionRow /\ unsent' \subseteq Replies
    BY <1>3, <2>1 DEF TurnReplies, Types
  <2>3. record' \in {"none", "app", "other"}
    BY <1>3 DEF TurnReplies, Types
  <2> QED
    BY <1>3, <2>2, <2>3, EndTypes DEF TurnReplies, Types, history
<1>4. CASE TurnHandsOver
  <2>1. worker.loaded \in SessionRow
    BY <1>4, WorkerHolds DEF TurnHandsOver, Has
  <2>2. ActivateOpen(worker.loaded) \in SessionRow
    BY <2>1, Sessions
  <2>3. session' \in SessionRow
    BY <1>4, <2>1, <2>2, WriteRow DEF TurnHandsOver, Types
  <2> QED
    BY <1>4, <2>3, EndTypes DEF TurnHandsOver, Types, history
<1> QED
  BY <1>1, <1>2, <1>3, <1>4

LEMMA TurnGoesOnTypes ==
    ASSUME Types,
           \/ TurnBegins \/ ActionCommits \/ AgentHandsOff
           \/ TurnChecks \/ TurnIsTakenOver
    PROVE  Types'
<1>1. CASE TurnBegins
  <2>1. AtStart \in SessionRow /\ worker.loaded \in SessionRow
    BY <1>1, TurnSessions, WorkerHolds DEF TurnBegins, Has
  <2>2. Settled(AtStart) \in SessionRow
    BY <2>1, Sessions
  <2>3. Write(worker.loaded, Settled(AtStart)) \in SessionRow
    BY <2>1, <2>2, WriteRow DEF Types
  <2>4. IsChat'
    BY <1>1, <2>3 DEF TurnBegins, IsChat, SessionRow
  <2>5. WorkerShape' /\ PortalShape'
    BY <1>1, <2>4, SamePortal DEF TurnBegins, WorkerShape
  <2>6. lapsed' \in BOOLEAN
    BY <1>1 DEF TurnBegins
  <2> QED
    BY <1>1, <2>5, <2>6, InsideTypes DEF TurnBegins, Types, redis
<1>2. CASE ActionCommits
  <2>1. worker.view \in SessionRow
    BY <1>2, WorkerHolds DEF ActionCommits
  <2>2. worker \in [doing : {"chat"}, locked : BOOLEAN, view : SessionRow]
    BY <1>2 DEF ActionCommits, Types, WorkerShape, IsJob, IsCommand, IsChat,
                IsChecked, IsClear, Free
  <2>3. IsChat'
    BY <1>2, <2>2 DEF ActionCommits, IsChat, SessionRow
  <2>4. WorkerShape' /\ PortalShape'
    BY <1>2, <2>3, SamePortal DEF ActionCommits, WorkerShape
  <2>5. record' \in {"none", "app", "other"}
    BY <1>2 DEF ActionCommits, Types
  <2> QED
    BY <1>2, <2>1, <2>4, <2>5, InsideTypes
       DEF ActionCommits, Types, redis, history
<1>3. CASE AgentHandsOff
  <2>1. View \in SessionRow
    BY <1>3, TurnSessions DEF AgentHandsOff, Generated
  <2>2. ActivateOpen(View) \in SessionRow
    BY <2>1, Sessions
  <2>3. worker \in [doing : {"chat"}, locked : BOOLEAN, view : SessionRow]
    BY <1>3 DEF AgentHandsOff, Generated, Types, WorkerShape, IsJob,
                IsCommand, IsChat, IsChecked, IsClear, Free
  <2>4. IsChat'
    BY <1>3, <2>2, <2>3 DEF AgentHandsOff, IsChat, SessionRow
  <2>5. WorkerShape' /\ PortalShape'
    BY <1>3, <2>4, SamePortal DEF AgentHandsOff, WorkerShape
  <2> QED
    BY <1>3, <2>5, InsideTypes DEF AgentHandsOff, Types, redis
<1>4. CASE TurnIsTakenOver
  <2>1. IsJob'
    BY <1>4, HandoffAssumption
       DEF TurnIsTakenOver, Types, IsJob, Jobs, SessionRow
  <2>2. WorkerShape' /\ PortalShape'
    BY <1>4, <2>1, SamePortal DEF TurnIsTakenOver, WorkerShape
  <2> QED
    BY <1>4, <2>2, InsideTypes
       DEF TurnIsTakenOver, Types, redis, history, SessionRow
<1>5. CASE TurnChecks
  <2>1. View \in SessionRow
    BY <1>5, TurnSessions DEF TurnChecks, Generated
  <2>2. Settled(View) \in SessionRow
    BY <2>1, Sessions
  <2>3. ~Settled(View).human
    BY <1>5 DEF TurnChecks, TakenOver, Active, Settled, resume_ai
  <2>4. Recent \subseteq Replies
    BY DEF Recent
  <2>5. worker' = [doing |-> "checked", locked |-> TRUE,
                   view |-> Settled(View), heard |-> Recent]
           /\ UNCHANGED <<races, clock, stage, sentAt, redis, session,
                          record, portal, unsent, history>>
    BY <1>5 DEF TurnChecks
  <2>6. IsChecked'
    <3>1. \A v \in SessionRow, h \in SUBSET Replies :
             [doing |-> "checked", locked |-> TRUE, view |-> v, heard |-> h]
                \in [doing : {"checked"}, locked : BOOLEAN,
                     view : SessionRow, heard : SUBSET Replies]
      OBVIOUS
    <3>2. SessionRow' = SessionRow
      BY DEF SessionRow
    <3> QED
      BY <2>2, <2>3, <2>4, <2>5, <3>1, <3>2 DEF IsChecked
  <2>7. WorkerShape' /\ PortalShape'
    BY <2>5, <2>6, SamePortal DEF WorkerShape
  <2> QED
    BY <2>5, <2>7, InsideTypes DEF Types, redis, history, SessionRow
<1> QED
  BY <1>1, <1>2, <1>3, <1>4, <1>5

\* An echo's transaction ends: its stage is done.
LEMMA DoneTypes ==
    ASSUME Types, NEW e \in Echoes, stage[e] = "queued",
           stage' = [stage EXCEPT ![e] = "done"]
    PROVE  /\ stage' \in [Echoes -> {"unsent", "sent", "queued", "done"}]
           /\ \A d \in Echoes : stage'[d] = "unsent" <=> sentAt[d] = None
           /\ sentAt[e] \in Times
  BY DEF Types

LEMMA ProcessReplyTypes ==
    ASSUME Types, NEW e \in Echoes, ProcessReply(e)
    PROVE  Types'
<1> DEFINE s == worker.loaded
           new == IF ~Stale(s, e) THEN ActivateApp(s, sentAt[e], TRUE)
                  ELSE IF s.resumeEcho = e THEN [s EXCEPT !.resumeEcho = None]
                  ELSE s
<1>1. s \in SessionRow /\ stage[e] = "queued"
  BY WorkerHolds DEF ProcessReply, Has
<1>2. /\ stage' \in [Echoes -> {"unsent", "sent", "queued", "done"}]
      /\ \A d \in Echoes : stage'[d] = "unsent" <=> sentAt[d] = None
      /\ sentAt[e] \in Times
  BY <1>1, DoneTypes DEF ProcessReply
<1> sentAt[e] \in Nat
  BY <1>2, HandoffAssumption DEF Times
<1>3. new \in SessionRow
  BY <1>1, <1>2, Sessions
<1>4. session' = Write(s, new)
  BY DEF ProcessReply
<1>5. session' \in SessionRow
  <2> HIDE DEF s, new
  <2> QED
    BY <1>1, <1>3, <1>4, WriteRow DEF Types
<1>6. record' \in {"none", "app", "other"}
  BY DEF ProcessReply, Types
<1>7. WorkerShape' /\ PortalShape'
  BY SamePortal DEF ProcessReply, WorkerShape, Free
<1> QED
  BY <1>2, <1>5, <1>6, <1>7
     DEF ProcessReply, Types, redis, history, SessionRow, Marks

LEMMA CommandTypes ==
    ASSUME Types,
           (\E e \in Echoes : CommandReads(e)) \/ CommandCommits
              \/ CommandClears
    PROVE  Types'
<1> Marker \in Marks
  BY DEF Marker, Types, Marks
<1>1. ASSUME NEW e \in Echoes, CommandReads(e)
      PROVE  Types'
  <2>1. worker.loaded \in SessionRow /\ stage[e] = "queued"
    BY <1>1, WorkerHolds DEF CommandReads, Has
  <2>2. IsCommand'
    BY <1>1, <2>1 DEF CommandReads, IsCommand, SessionRow, Marks
  <2>3. WorkerShape' /\ PortalShape'
    BY <1>1, <2>2, SamePortal DEF CommandReads, WorkerShape
  <2> QED
    BY <1>1, <2>3, InsideTypes
       DEF CommandReads, Types, redis, history, SessionRow
<1>2. CASE CommandCommits
  <2> DEFINE t == sentAt[worker.job]
             new == resume_ai(worker.loaded, t)
  <2>1. /\ worker.loaded \in SessionRow /\ worker.marker \in Marks
        /\ worker.job \in Echoes /\ stage[worker.job] = "queued"
    BY <1>2, WorkerHolds DEF CommandCommits, Echoes
  <2>2. /\ stage' \in [Echoes -> {"unsent", "sent", "queued", "done"}]
        /\ \A d \in Echoes : stage'[d] = "unsent" <=> sentAt[d] = None
        /\ t \in Times
    BY <1>2, <2>1, DoneTypes DEF CommandCommits
  <2>3. new \in SessionRow
    BY <2>1, <2>2, Sessions
  <2>4. session' = Write(worker.loaded, new)
    BY <1>2 DEF CommandCommits
  <2>5. session' \in SessionRow
    <3> HIDE DEF new
    <3> QED
      BY <2>1, <2>3, <2>4, WriteRow DEF Types
  <2>6. IsClear'
    BY <1>2, <2>1 DEF CommandCommits, IsClear, Marks
  <2>7. WorkerShape' /\ PortalShape'
    BY <1>2, <2>6, SamePortal DEF CommandCommits, WorkerShape
  <2>8. {taken', opened', lapsed'} \subseteq BOOLEAN /\ returned' \in Times
    BY <1>2, <2>2 DEF CommandCommits, Returned, Types
  <2>9. record' \in {"none", "app", "other"}
    BY <1>2 DEF CommandCommits
  <2> QED
    BY <1>2, <2>2, <2>5, <2>7, <2>8, <2>9
       DEF CommandCommits, Types, redis, SessionRow, Marks
<1>3. CASE CommandClears
  <2>1. marker' \in Marks /\ markerEnd' \in Nat
    BY <1>3 DEF CommandClears, clear_human_marker, Types, Marks
  <2>2. WorkerShape' /\ PortalShape'
    BY <1>3, SamePortal DEF CommandClears, WorkerShape, Free
  <2> QED
    BY <1>3, <2>1, <2>2
       DEF CommandClears, Types, history, SessionRow, Marks
<1> QED
  BY <1>1, <1>2, <1>3

LEMMA PortalTypes ==
    ASSUME Types,
           PortalTakesOver \/ PortalReads \/ PortalCommits \/ PortalClears
    PROVE  Types'
<1> Marker \in Marks
  BY DEF Marker, Types, Marks
<1> clock \in Nat /\ session \in SessionRow /\ FALSE \in BOOLEAN
  BY HandoffAssumption DEF Types, Times
<1>1. CASE PortalTakesOver
  <2>1. session' \in SessionRow
    BY <1>1, Sessions DEF PortalTakesOver
  <2>2. WorkerShape' /\ PortalShape'
    BY <1>1, SameWorker, SamePortal DEF PortalTakesOver
  <2>3. record' \in {"none", "app", "other"}
    BY <1>1 DEF PortalTakesOver, Types
  <2> QED
    BY <1>1, <2>1, <2>2, <2>3, InsideTypes
       DEF PortalTakesOver, Types, redis
<1>2. CASE PortalReads
  <2>1. PortalShape'
    BY <1>2 DEF PortalReads, PortalShape, Marks
  <2>2. WorkerShape'
    BY <1>2, SameWorker DEF PortalReads
  <2> QED
    BY <1>2, <2>1, <2>2, InsideTypes
       DEF PortalReads, Types, redis, history, SessionRow
<1>3. CASE PortalCommits
  <2>1. session' \in SessionRow
    BY <1>3, Sessions DEF PortalCommits, Types
  <2>2. portal \in [doing : {"return", "clear"}, marker : Marks,
                    locked : BOOLEAN]
    BY <1>3 DEF PortalCommits, Types, PortalShape, Free
  <2>3. PortalShape'
    BY <1>3, <2>2 DEF PortalCommits, PortalShape, Marks
  <2>4. WorkerShape'
    BY <1>3, SameWorker DEF PortalCommits
  <2>5. {taken', opened', lapsed'} \subseteq BOOLEAN /\ returned' \in Times
    BY <1>3 DEF PortalCommits, Returned, Types
  <2> QED
    BY <1>3, <2>1, <2>3, <2>4, <2>5, InsideTypes
       DEF PortalCommits, Types, redis
<1>4. CASE PortalClears
  <2>1. marker' \in Marks /\ markerEnd' \in Nat
    BY <1>4 DEF PortalClears, clear_human_marker, Types, Marks
  <2>2. WorkerShape' /\ PortalShape'
    BY <1>4, SameWorker DEF PortalClears, PortalShape, Free
  <2> QED
    BY <1>4, <2>1, <2>2
       DEF PortalClears, Types, history, SessionRow, Marks
<1> QED
  BY <1>1, <1>2, <1>3, <1>4

LEMMA TypesNext ==
    ASSUME Types, [Next]_vars
    PROVE  Types'
<1>1. CASE Tick
  BY <1>1, TickTypes
<1>2. ASSUME NEW e \in Echoes, Send(e) \/ Ingress(e)
      PROVE  Types'
  BY <1>2, OutsideTypes
<1>3. ASSUME NEW e \in Echoes, Load(e)
      PROVE  Types'
  BY <1>3, LoadTypes
<1>4. ASSUME NEW e \in Echoes, ProcessReply(e)
      PROVE  Types'
  BY <1>4, ProcessReplyTypes
<1>5. CASE \/ \E e \in Echoes : CommandReads(e)
           \/ CommandCommits \/ CommandClears
  BY <1>5, CommandTypes
<1>6. CASE Load("turn")
  BY <1>6, LoadTypes
<1>7. CASE TurnToHuman \/ TurnAsksHuman \/ TurnReplies \/ TurnHandsOver
  BY <1>7, TurnEndsTypes
<1>8. CASE \/ TurnBegins \/ ActionCommits \/ AgentHandsOff \/ TurnChecks
           \/ TurnIsTakenOver
  BY <1>8, TurnGoesOnTypes
<1>9. CASE PortalTakesOver \/ PortalReads \/ PortalCommits \/ PortalClears
  BY <1>9, PortalTypes
<1>10. CASE UNCHANGED vars
  <2>1. WorkerShape' /\ PortalShape'
    BY <1>10, SameWorker, SamePortal DEF vars
  <2> QED
    BY <1>10, <2>1, InsideTypes DEF vars, redis, history, Types, SessionRow
<1>11. CASE AnswerLeaves
  <2>1. WorkerShape' /\ PortalShape'
    BY <1>11, SameWorker, SamePortal DEF AnswerLeaves
  <2> QED
    BY <1>11, <2>1, InsideTypes
       DEF AnswerLeaves, redis, history, Types, SessionRow
<1> QED
  BY <1>1, <1>2, <1>3, <1>4, <1>5, <1>6, <1>7, <1>8, <1>9, <1>10, <1>11
     DEF Next

LEMMA TypesAlways == Spec => []Types
  BY TypesInit, TypesNext, PTL DEF Spec

\* The rows, the marker and the open transactions keep their types: a write
\* of the changed columns leaves a whole session, whoever loaded it when.
THEOREM HandoffIsTyped == Spec => []TypeOK
<1>1. Types => TypeOK
  <2> SUFFICES ASSUME Types PROVE TypeOK
    OBVIOUS
  <2>1. worker.locked \in BOOLEAN /\ portal.locked \in BOOLEAN
    BY WorkerHolds, PortalHolds
  <2> QED
    BY <2>1, WorkerHolds, PortalHolds DEF Types, TypeOK, SessionRow, Marks
<1> QED
  BY <1>1, TypesAlways, PTL

-----------------------------------------------------------------------------
(* The AI never talks over a newer reply.                                  *)

LEMMA PastInit ==
    ASSUME Init
    PROVE  PastOnly
  BY DEF Init, PastOnly

\* Times are numbers, and no time is None.
LEMMA Clocks ==
    ASSUME Types
    PROVE  /\ clock \in Nat /\ Window \in Nat /\ None \notin Nat
           /\ \A e \in Echoes : sentAt[e] # None => sentAt[e] \in Nat
           /\ returned # None => returned \in Nat
  BY HandoffAssumption DEF Types, Times

LEMMA PastNext ==
    ASSUME Types, PastOnly, [Next]_vars
    PROVE  PastOnly'
<1> USE Clocks
<1>1. CASE Tick
  BY <1>1 DEF Tick, PastOnly, history
<1>2. ASSUME NEW e \in Echoes, Send(e) \/ Ingress(e)
      PROVE  PastOnly'
  BY <1>2 DEF Send, Ingress, PastOnly, history, Types
<1>3. CASE CommandCommits
  <2>1. /\ worker.job \in Echoes /\ sentAt[worker.job] # None
    BY <1>3, WorkerHolds DEF CommandCommits, Types, Echoes
  <2> QED
    BY <1>3, <2>1 DEF CommandCommits, Returned, PastOnly
<1>4. CASE PortalCommits
  BY <1>4 DEF PortalCommits, Returned, PastOnly
<1>5. CASE UNCHANGED <<clock, sentAt, returned>>
  BY <1>5 DEF PastOnly
<1> QED
  BY <1>1, <1>2, <1>3, <1>4, <1>5
     DEF Next, vars, history, Load, ProcessReply, CommandReads, CommandClears,
         TurnToHuman, TurnAsksHuman, TurnBegins, ActionCommits, AgentHandsOff,
         TurnChecks, TurnReplies, AnswerLeaves, TurnIsTakenOver, TurnHandsOver,
         PortalTakesOver, PortalReads, PortalClears

\* An echo is sent once.
LEMMA SendsOnce ==
    ASSUME Types, [Next]_vars, NEW e \in Echoes, stage[e] # "unsent"
    PROVE  stage'[e] # "unsent"
<1>1. ASSUME NEW d \in Echoes, Send(d) \/ Ingress(d) \/ ProcessReply(d)
      PROVE  stage'[e] # "unsent"
  BY <1>1 DEF Send, Ingress, ProcessReply, Types
<1>2. CASE CommandCommits
  BY <1>2, WorkerHolds DEF CommandCommits, Types, Echoes
<1>3. CASE UNCHANGED stage
  BY <1>3
<1> QED
  BY <1>1, <1>2, <1>3
     DEF Next, vars, Tick, Load, CommandReads, CommandClears, TurnToHuman,
         TurnAsksHuman, TurnBegins, ActionCommits, AgentHandsOff, TurnChecks,
         TurnReplies, AnswerLeaves, TurnIsTakenOver, TurnHandsOver,
         PortalTakesOver, PortalReads, PortalCommits, PortalClears

\* Time passes, and what was received stays received.
LEMMA TimePasses ==
    ASSUME Types, [Next]_vars
    PROVE  clock' >= clock /\ clock' \in Nat
<1>1. clock' \in {clock, clock + 1}
  BY DEF Next, vars, Tick, Send, Ingress, Load, ProcessReply, CommandReads,
         CommandCommits, CommandClears, TurnToHuman, TurnAsksHuman,
         TurnBegins, ActionCommits, AgentHandsOff, TurnChecks, TurnReplies,
         AnswerLeaves, TurnIsTakenOver, TurnHandsOver, PortalTakesOver,
         PortalReads, PortalCommits, PortalClears
<1> QED
  BY <1>1, Clocks

LEMMA HeardStays ==
    ASSUME Types, [Next]_vars, NEW e \in Echoes, Heard(e)
    PROVE  Heard(e)' /\ sentAt'[e] = sentAt[e]
<1>1. ASSUME NEW d \in Echoes, Send(d) \/ Ingress(d) \/ ProcessReply(d)
      PROVE  Heard(e)' /\ sentAt'[e] = sentAt[e]
  BY <1>1 DEF Send, Ingress, ProcessReply, Heard, Types
<1>2. CASE CommandCommits
  BY <1>2, WorkerHolds DEF CommandCommits, Heard, Types, Echoes
<1>3. CASE UNCHANGED <<stage, sentAt>>
  BY <1>3 DEF Heard
<1> QED
  BY <1>1, <1>2, <1>3
     DEF Next, vars, Tick, Load, CommandReads, CommandClears, TurnToHuman,
         TurnAsksHuman, TurnBegins, ActionCommits, AgentHandsOff, TurnChecks,
         TurnReplies, AnswerLeaves, TurnIsTakenOver, TurnHandsOver,
         PortalTakesOver, PortalReads, PortalCommits, PortalClears

\* A chat's record, for steps that change one field of it.
LEMMA ChatIs ==
    ASSUME Types, worker.doing = "chat"
    PROVE  worker = [doing |-> "chat", locked |-> worker.locked,
                     view |-> worker.view]
  BY DEF Types, WorkerShape, IsJob, IsCommand, IsChat, IsChecked, IsClear, Free

LEMMA MarkerInit ==
    ASSUME Init
    PROVE  MarkerStands
  BY DEF Init, MarkerStands, Heard, Free, Echoes

LEMMA MarkerNext ==
    ASSUME Types, PastOnly, MarkerStands, [Next]_vars
    PROVE  MarkerStands'
<1> USE Clocks
<1> SUFFICES ASSUME NoCommand'
             PROVE  /\ \A e \in Replies : Heard(e)' /\ Newer(e)' =>
                          /\ marker' # None
                          /\ markerEnd' >= sentAt'[e] + Window
                    /\ worker'.doing \notin {"command", "clear"}
                    /\ portal'.doing = "clear" => returned' = clock'
  BY DEF MarkerStands
<1>0. NoCommand
  BY SendsOnce DEF NoCommand, Echoes
<1>1. /\ worker.doing \notin {"command", "clear"}
      /\ portal.doing = "clear" => returned = clock
      /\ \A e \in Replies : Heard(e) /\ Newer(e) =>
            marker # None /\ markerEnd >= sentAt[e] + Window
  BY <1>0 DEF MarkerStands
<1>2. \A e \in Replies : Heard(e) =>
         sentAt[e] \in Nat /\ sentAt[e] <= clock
  BY DEF Heard, Types, PastOnly, Echoes
<1>3. CASE Tick
  BY <1>1, <1>3 DEF Tick, redis, history, Heard, Newer, Free
<1>4. ASSUME NEW e \in Echoes, Send(e)
      PROVE  /\ \A d \in Replies : Heard(d)' /\ Newer(d)' =>
                   /\ marker' # None
                   /\ markerEnd' >= sentAt'[d] + Window
             /\ worker'.doing \notin {"command", "clear"}
             /\ portal'.doing = "clear" => returned' = clock'
  <2>1. \A d \in Replies : Heard(d)' => d # e
    BY <1>4 DEF Send, Heard, Types
  <2>2. \A d \in Replies : d # e =>
           stage'[d] = stage[d] /\ sentAt'[d] = sentAt[d]
    BY <1>4 DEF Send, Types, Echoes
  <2> QED
    BY <1>1, <1>4, <2>1, <2>2 DEF Send, redis, Heard, Newer
<1>5. ASSUME NEW e \in Echoes, Ingress(e)
      PROVE  /\ \A d \in Replies : Heard(d)' /\ Newer(d)' =>
                   /\ marker' # None
                   /\ markerEnd' >= sentAt'[d] + Window
             /\ worker'.doing \notin {"command", "clear"}
             /\ portal'.doing = "clear" => returned' = clock'
  <2>1. \A d \in Replies : Heard(d)' =>
           sentAt[d] \in Nat /\ sentAt[d] <= clock
    BY <1>5 DEF Ingress, Heard, Types, PastOnly, Echoes
  <2>2. marker' # None /\ markerEnd' = clock + Window
    BY <1>5, HandoffAssumption DEF Ingress
  <2> QED
    BY <1>1, <1>5, <2>1, <2>2 DEF Ingress, history
<1>6. ASSUME NEW e \in Echoes, ProcessReply(e)
      PROVE  /\ \A d \in Replies : Heard(d)' /\ Newer(d)' =>
                   /\ marker' # None
                   /\ markerEnd' >= sentAt'[d] + Window
             /\ worker'.doing \notin {"command", "clear"}
             /\ portal'.doing = "clear" => returned' = clock'
  <2>1. \A d \in Replies : Heard(d)' => Heard(d)
    BY <1>6, WorkerHolds DEF ProcessReply, Has, Heard, Types, Echoes
  <2> QED
    BY <1>1, <1>6, <2>1 DEF ProcessReply, redis, history, Newer, Free
<1>7. ASSUME NEW e \in Echoes, CommandReads(e)
      PROVE  FALSE
  BY <1>0, <1>7, WorkerHolds DEF CommandReads, Has, NoCommand, Echoes
<1>8. CASE PortalCommits
  BY <1>1, <1>2, <1>8
     DEF PortalCommits, Returned, Heard, Newer, redis
<1>9. CASE PortalClears
  BY <1>1, <1>2, <1>9
     DEF PortalClears, Heard, Newer, history, Free
<1>10. ASSUME UNCHANGED <<clock, stage, sentAt, redis, returned>>,
              \/ UNCHANGED portal
              \/ portal'.doing = "return",
              \/ UNCHANGED worker
              \/ worker'.doing \in {"nothing", "job", "chat", "checked"}
       PROVE  /\ \A d \in Replies : Heard(d)' /\ Newer(d)' =>
                    /\ marker' # None
                    /\ markerEnd' >= sentAt'[d] + Window
              /\ worker'.doing \notin {"command", "clear"}
              /\ portal'.doing = "clear" => returned' = clock'
  BY <1>1, <1>10 DEF redis, Heard, Newer
<1>11. CASE \/ \E e \in Echoes : Load(e)
            \/ Load("turn") \/ TurnToHuman \/ TurnAsksHuman \/ TurnReplies
  BY <1>10, <1>11
     DEF Load, TurnToHuman, TurnAsksHuman, TurnReplies, history, Free
<1>12. CASE TurnBegins \/ TurnChecks \/ TurnIsTakenOver \/ TurnHandsOver
  BY <1>10, <1>12
     DEF TurnBegins, TurnChecks, TurnIsTakenOver, TurnHandsOver, history, Free
<1>13. CASE ActionCommits \/ AgentHandsOff
  <2>1. worker \in [doing : {"chat"}, locked : BOOLEAN, view : SessionRow]
    BY <1>13
       DEF ActionCommits, AgentHandsOff, Generated, Types, WorkerShape, IsJob,
           IsCommand, IsChat, IsChecked, IsClear, Free
  <2>2. worker'.doing = "chat"
    BY <1>13, <2>1 DEF ActionCommits, AgentHandsOff
  <2> QED
    BY <1>10, <1>13, <2>2 DEF ActionCommits, AgentHandsOff, history
<1>14. CASE PortalTakesOver \/ PortalReads \/ AnswerLeaves \/ UNCHANGED vars
  <2>1. CASE PortalTakesOver
    BY <1>10, <2>1 DEF PortalTakesOver, redis
  <2>2. CASE PortalReads
    BY <1>10, <2>2 DEF PortalReads, history, redis
  <2>3. CASE UNCHANGED vars
    BY <1>10, <2>3 DEF vars, history, redis
  <2>4. CASE AnswerLeaves
    BY <1>10, <2>4 DEF AnswerLeaves, history, redis
  <2> QED
    BY <1>14, <2>1, <2>2, <2>3, <2>4
<1>15. ~CommandCommits /\ ~CommandClears
  BY <1>1 DEF CommandCommits, CommandClears
<1> QED
  BY <1>3, <1>4, <1>5, <1>6, <1>7, <1>8, <1>9, <1>11, <1>12, <1>13, <1>14,
     <1>15
     DEF Next

\* The replies an answer was checked after, from the check to the post.
Following ==
    unsent \cup (IF worker.doing = "checked" THEN worker.heard ELSE {})

\* e was received, and is in control no more.
Over(e) == Heard(e) /\ ~InControl(e)

\* Without commands, an answer on its way was checked when no reply was in
\* control any more.
CheckedAnswers == NoCommand => \A e \in Following : Over(e)

\* Only a return to AI or the end of its ten minutes ends the control of a
\* reply, and nothing gives it back.
LEMMA OverStays ==
    ASSUME Types, PastOnly, [Next]_vars, NoCommand, NEW e \in Replies, Over(e)
    PROVE  Over(e)'
<1> USE Clocks
<1>1. e \in Echoes
  BY DEF Echoes
<1>2. Heard(e) /\ Heard(e)' /\ sentAt'[e] = sentAt[e]
  BY <1>1, HeardStays DEF Over
<1>3. sentAt[e] \in Nat /\ sentAt[e] <= clock
  BY <1>1, <1>2 DEF Heard, Types, PastOnly
<1>4. clock' >= clock /\ clock' \in Nat
  BY TimePasses
<1>5. returned' = returned \/ returned' = clock
  <2>1. ~CommandCommits
    BY WorkerHolds DEF CommandCommits, NoCommand
  <2>2. CASE PortalCommits
    BY <2>2 DEF PortalCommits, Returned
  <2>3. CASE UNCHANGED returned
    BY <2>3
  <2> QED
    BY <2>1, <2>2, <2>3
       DEF Next, vars, history, Tick, Send, Ingress, Load, ProcessReply,
           CommandReads, CommandClears, TurnToHuman, TurnAsksHuman,
           TurnBegins, ActionCommits, AgentHandsOff, TurnChecks, TurnReplies,
           AnswerLeaves, TurnIsTakenOver, TurnHandsOver, PortalTakesOver,
           PortalReads, PortalClears
<1>6. \/ ~(clock < sentAt[e] + Window)
      \/ returned # None /\ ~(sentAt[e] > returned)
  BY <1>2 DEF Over, InControl, Heard
<1>7. \/ ~(clock' < sentAt[e] + Window)
      \/ returned' # None /\ ~(sentAt[e] > returned')
  <2>1. CASE ~(clock < sentAt[e] + Window)
    BY <1>3, <1>4, <2>1
  <2>2. CASE returned # None /\ ~(sentAt[e] > returned)
    BY <1>3, <1>5, <2>2
  <2> QED
    BY <1>6, <2>1, <2>2
<1> QED
  BY <1>2, <1>7 DEF Over, InControl

\* An answer enters its way by its check.
LEMMA FollowingNext ==
    ASSUME Types, [Next]_vars
    PROVE  \/ Following' \subseteq Following
           \/ TurnChecks /\ Following' = unsent \cup Recent
<1>1. CASE UNCHANGED <<unsent, worker>>
  BY <1>1 DEF Following
<1>2. CASE unsent' = unsent /\ worker'.doing # "checked"
  BY <1>2 DEF Following
<1>3. CASE TurnChecks
  BY <1>3 DEF TurnChecks, Following
<1>4. CASE TurnReplies
  BY <1>4 DEF TurnReplies, Following, Free
<1>5. CASE AnswerLeaves
  BY <1>5 DEF AnswerLeaves, Following
<1>6. CASE ActionCommits \/ AgentHandsOff
  <2>1. worker'.doing = "chat"
    <3>1. CASE ActionCommits
      BY <3>1, ChatIs DEF ActionCommits
    <3>2. CASE AgentHandsOff
      BY <3>2, ChatIs DEF AgentHandsOff, Generated
    <3> QED
      BY <1>6, <3>1, <3>2
  <2> QED
    BY <1>2, <1>6, <2>1 DEF ActionCommits, AgentHandsOff
<1>7. CASE \/ \E e \in Echoes : Load(e) \/ ProcessReply(e) \/ CommandReads(e)
           \/ Load("turn") \/ CommandCommits \/ CommandClears
  <2>1. ASSUME NEW job, Load(job)
        PROVE  unsent' = unsent /\ worker'.doing # "checked"
    BY <2>1 DEF Load
  <2>2. ASSUME NEW e \in Echoes, ProcessReply(e) \/ CommandReads(e)
        PROVE  unsent' = unsent /\ worker'.doing # "checked"
    <3>1. ProcessReply(e) => unsent' = unsent /\ worker' = Free
      BY DEF ProcessReply
    <3>2. CommandReads(e)
             => unsent' = unsent /\ worker'.doing # "checked"
      BY DEF CommandReads
    <3> QED
      BY <2>2, <3>1, <3>2 DEF Free
  <2>3. CommandCommits \/ CommandClears
           => unsent' = unsent /\ worker'.doing # "checked"
    BY DEF CommandCommits, CommandClears, Free
  <2> QED
    BY <1>2, <1>7, <2>1, <2>2, <2>3
<1>8. CASE TurnToHuman \/ TurnAsksHuman \/ TurnBegins
  BY <1>2, <1>8 DEF TurnToHuman, TurnAsksHuman, TurnBegins, Free
<1>9. CASE TurnIsTakenOver \/ TurnHandsOver
  BY <1>2, <1>9 DEF TurnIsTakenOver, TurnHandsOver, Free
<1>10. CASE \/ Tick \/ UNCHANGED vars
            \/ \E e \in Echoes : Send(e) \/ Ingress(e)
            \/ PortalTakesOver \/ PortalReads \/ PortalCommits
            \/ PortalClears
  BY <1>1, <1>10 DEF vars, Tick, Send, Ingress, PortalTakesOver, PortalReads,
                     PortalCommits, PortalClears
<1> QED
  BY <1>3, <1>4, <1>5, <1>6, <1>7, <1>8, <1>9, <1>10, Zenon DEF Next

\* The check sees the marker of a reply in control.
LEMMA CheckHolds ==
    ASSUME Types, MarkerStands, NoCommand, TurnChecks, NEW e \in Recent
    PROVE  Over(e)
<1>1. e \in Replies /\ Heard(e)
  BY DEF Recent, Heard
<1>2. ASSUME InControl(e) PROVE FALSE
  <2>1. Newer(e) /\ clock < sentAt[e] + Window
    BY <1>2 DEF InControl, Newer
  <2>2. marker # None /\ markerEnd >= sentAt[e] + Window
    BY <1>1, <2>1 DEF MarkerStands
  <2>3. sentAt[e] \in Nat /\ markerEnd \in Nat
    BY <1>1, Clocks DEF Heard, Types, Echoes
  <2>4. Marker # None
    BY <2>1, <2>2, <2>3, Clocks DEF Marker
  <2> QED
    BY <2>4 DEF TurnChecks, TakenOver
<1> QED
  BY <1>1, <1>2 DEF Over

LEMMA CheckedNext ==
    ASSUME Types, PastOnly, MarkerStands, CheckedAnswers, [Next]_vars
    PROVE  CheckedAnswers'
<1> SUFFICES ASSUME NoCommand', NEW e \in Following'
             PROVE  Over(e)'
  BY DEF CheckedAnswers
<1>1. NoCommand
  BY SendsOnce DEF NoCommand, Echoes
<1>2. Following \subseteq Replies
  BY WorkerHolds DEF Following, Types
<1>3. e \in Replies /\ Over(e)
  <2>1. CASE e \in Following
    BY <1>1, <1>2, <2>1 DEF CheckedAnswers
  <2>2. CASE TurnChecks /\ e \in Recent
    BY <1>1, <2>2, CheckHolds DEF Recent
  <2>3. unsent \subseteq Following
    BY DEF Following
  <2> QED
    BY <2>1, <2>2, <2>3, FollowingNext
<1> QED
  BY <1>1, <1>3, OverStays

LEMMA MarkerAlways ==
    Spec => [](Types /\ PastOnly /\ MarkerStands /\ CheckedAnswers)
<1>1. Init => Types /\ PastOnly /\ MarkerStands /\ CheckedAnswers
  <2>1. Init => CheckedAnswers
    BY DEF Init, CheckedAnswers, Following, Free
  <2> QED
    BY <2>1, TypesInit, PastInit, MarkerInit
<1>2. Types /\ PastOnly /\ MarkerStands /\ CheckedAnswers /\ [Next]_vars
         => (Types /\ PastOnly /\ MarkerStands /\ CheckedAnswers)'
  BY TypesNext, PastNext, MarkerNext, CheckedNext
<1> QED
  BY <1>1, <1>2, PTL DEF Spec

\* No answer of the AI leaves over a colleague's reply of the last ten minutes
\* that the webhook had received when the answer was checked and that no
\* return to AI has followed, as long as no return is typed in the app:
\* however long the answer waits for its post, whatever late or retried echo
\* is processed when, and whatever transactions of worker and Inbox overlap.
THEOREM RepliesAreRespected == Spec => AiNeverTalksOver
<1>1. CheckedAnswers => [AnswerLeaves /\ NoCommand =>
                           \A e \in unsent : ~InControl(e)]_vars
  BY DEF CheckedAnswers, Following, Over
<1> QED
  BY <1>1, MarkerAlways, PTL DEF Spec, AiNeverTalksOver

-----------------------------------------------------------------------------
(* An explicit return to AI stands, if Meta delivers in the minute and     *)
(* transactions do not overlap.                                            *)

\* What a step does to the marker.
LEMMA MarkerSteps ==
    ASSUME Types, [Next]_vars
    PROVE  /\ UNCHANGED <<clock, redis>> => Marker' = Marker
           /\ Tick => Marker' \in {None, Marker}
           /\ \A e \in Echoes : Ingress(e) => Marker' = e
           /\ \A m \in Marks : clear_human_marker(m) /\ clock' = clock =>
                 Marker' = IF Marker = m THEN None ELSE Marker
<1> USE Clocks, HandoffAssumption
<1>1. UNCHANGED <<clock, redis>> => Marker' = Marker
  BY DEF Marker, redis
<1>2. Tick => Marker' \in {None, Marker}
  BY DEF Tick, Marker, redis, Types
<1>3. ASSUME NEW e \in Echoes, Ingress(e)
      PROVE  Marker' = e
  BY <1>3 DEF Ingress, Marker
<1>4. ASSUME NEW m \in Marks, clear_human_marker(m), clock' = clock
      PROVE  Marker' = IF Marker = m THEN None ELSE Marker
  BY <1>4 DEF clear_human_marker, Marker, Types
<1> QED
  BY <1>1, <1>2, <1>3, <1>4

LEMMA OnTimeNext ==
    ASSUME ~Late, Types, OnTime, [Next]_vars
    PROVE  OnTime'
<1>1. CASE Tick
  BY <1>1 DEF Tick, OnTime
<1>2. ASSUME NEW e \in Echoes, Send(e) \/ Ingress(e) \/ ProcessReply(e)
      PROVE  OnTime'
  BY <1>2 DEF Send, Ingress, ProcessReply, OnTime, Types
<1>3. CASE CommandCommits
  BY <1>3, WorkerHolds DEF CommandCommits, OnTime, Types
<1>4. CASE UNCHANGED <<stage, sentAt, clock>>
  BY <1>4 DEF OnTime
<1> QED
  BY <1>1, <1>2, <1>3, <1>4
     DEF Next, vars, Load, CommandReads, CommandClears, TurnToHuman,
         TurnAsksHuman, TurnBegins, ActionCommits, AgentHandsOff, TurnChecks,
         TurnReplies, AnswerLeaves, TurnIsTakenOver, TurnHandsOver,
         PortalTakesOver, PortalReads, PortalCommits, PortalClears

LEMMA OverlapNext ==
    ASSUME Types, NoOverlap, [Next]_vars
    PROVE  NoOverlap'
<1> SUFFICES ASSUME ~races'
             PROVE  /\ worker' = Free \/ portal' = Free
                    /\ worker'.doing \in {"job", "command"} =>
                          worker'.loaded = session'
                    /\ worker'.doing = "chat" /\ ~worker'.locked =>
                          worker'.view = session'
  BY DEF NoOverlap, Free
<1>0. races' = races
  BY DEF Next, vars, Tick, Send, Ingress, Load, ProcessReply, CommandReads,
         CommandCommits, CommandClears, TurnToHuman, TurnAsksHuman, TurnBegins,
         ActionCommits, AgentHandsOff, TurnChecks, TurnReplies, AnswerLeaves,
         TurnIsTakenOver, TurnHandsOver, PortalTakesOver, PortalReads,
         PortalCommits, PortalClears
<1>1. /\ worker = Free \/ portal = Free
      /\ worker.doing \in {"job", "command"} => worker.loaded = session
      /\ worker.doing = "chat" /\ ~worker.locked => worker.view = session
  BY <1>0 DEF NoOverlap
<1>2. CASE UNCHANGED <<worker, session, portal>>
  BY <1>1, <1>2
<1>3. CASE worker' = Free
  BY <1>3 DEF Free
<1>4. CASE worker = Free /\ worker' = worker
  BY <1>4 DEF Free
<1>5. CASE (\E e \in Echoes : Load(e)) \/ Load("turn")
  BY <1>0, <1>5 DEF Load
<1>6. ASSUME NEW e \in Echoes, CommandReads(e)
      PROVE  /\ worker' = Free \/ portal' = Free
             /\ worker'.doing \in {"job", "command"} =>
                   worker'.loaded = session'
             /\ worker'.doing = "chat" /\ ~worker'.locked =>
                   worker'.view = session'
  BY <1>1, <1>6 DEF CommandReads, Has, Free
<1>7. CASE CommandCommits
  BY <1>1, <1>7 DEF CommandCommits, Free
<1>8. CASE TurnBegins
  BY <1>1, <1>8 DEF TurnBegins, Has, Free
<1>9. CASE TurnIsTakenOver
  BY <1>1, <1>9 DEF TurnIsTakenOver, Generated, Free
<1>10. CASE ActionCommits
  <2>1. worker' = [doing |-> "chat", locked |-> FALSE, view |-> worker.view]
    BY <1>10, ChatIs DEF ActionCommits
  <2> QED
    BY <1>1, <1>10, <2>1 DEF ActionCommits, Free
<1>11. CASE AgentHandsOff
  <2>1. worker' = [doing |-> "chat", locked |-> TRUE,
                   view |-> ActivateOpen(View)]
    BY <1>11, ChatIs DEF AgentHandsOff, Generated
  <2> QED
    BY <1>1, <1>11, <2>1 DEF AgentHandsOff, Generated, Free
<1>12. PortalTakesOver \/ PortalReads \/ PortalCommits \/ PortalClears
         => worker = Free /\ worker' = worker
  <2>1. PortalTakesOver \/ PortalReads => worker = Free /\ worker' = worker
    BY <1>0 DEF PortalTakesOver, PortalReads, PortalMayStart
  <2>2. PortalCommits \/ PortalClears => portal # Free /\ worker' = worker
    BY DEF PortalCommits, PortalClears, Free
  <2> QED
    BY <1>1, <2>1, <2>2
<1>13. CASE TurnChecks
  BY <1>1, <1>13 DEF TurnChecks, Generated, Free
<1> QED
  BY <1>2, <1>3, <1>4, <1>5, <1>6, <1>7, <1>8, <1>9, <1>10, <1>11, <1>12,
     <1>13
     DEF Next, vars, Tick, Send, Ingress, ProcessReply, CommandClears,
         TurnToHuman, TurnAsksHuman, TurnReplies, AnswerLeaves,
         TurnHandsOver

LEMMA ReadsNext ==
    ASSUME ~Late, Types, OnTime, NoOverlap, ReadsLast, [Next]_vars
    PROVE  ReadsLast'
<1> DEFINE Good == /\ worker.doing = "command" =>
                         \/ Marker \in {None, worker.marker}
                         \/ \E e \in Echoes \ {worker.job} :
                               sentAt[e] = clock
                   /\ portal.doing = "return" =>
                         \/ Marker \in {None, portal.marker}
                         \/ \E e \in Echoes : sentAt[e] = clock
<1> SUFFICES ASSUME ~races' PROVE Good'
  BY DEF ReadsLast
<1>0. races' = races
  BY DEF Next, vars, Tick, Send, Ingress, Load, ProcessReply, CommandReads,
         CommandCommits, CommandClears, TurnToHuman, TurnAsksHuman, TurnBegins,
         ActionCommits, AgentHandsOff, TurnChecks, TurnReplies, AnswerLeaves,
         TurnIsTakenOver, TurnHandsOver, PortalTakesOver, PortalReads,
         PortalCommits, PortalClears
<1>1. Good
  BY <1>0 DEF ReadsLast
<1>2. worker = Free \/ portal = Free
  BY <1>0 DEF NoOverlap
<1>3. CASE Tick
  BY <1>3 DEF Tick, Free
<1>4. ASSUME NEW e \in Echoes, Send(e)
      PROVE  Good'
  <2>1. Marker' = Marker
    BY <1>4, MarkerSteps DEF Send
  <2>2. \A d \in Echoes : sentAt[d] = clock => sentAt'[d] = clock
    BY <1>4 DEF Send, Types
  <2> QED
    BY <1>1, <1>4, <2>1, <2>2 DEF Send
<1>5. ASSUME NEW e \in Echoes, Ingress(e)
      PROVE  Good'
  <2>1. Marker' = e /\ sentAt'[e] = clock'
    BY <1>5, MarkerSteps DEF Ingress, OnTime
  <2>2. worker.doing = "command" => e # worker.job
    BY <1>5, WorkerHolds DEF Ingress
  <2> QED
    BY <1>5, <2>1, <2>2 DEF Ingress
<1>6. ASSUME NEW e \in Echoes, CommandReads(e)
      PROVE  Good'
  <2>1. Marker' = Marker
    BY <1>6, MarkerSteps DEF CommandReads
  <2> QED
    BY <1>2, <1>6, <2>1 DEF CommandReads, Has, Free
<1>7. CASE PortalReads
  <2>1. Marker' = Marker
    BY <1>7, MarkerSteps DEF PortalReads
  <2>2. worker = Free
    BY <1>0, <1>7 DEF PortalReads, PortalMayStart
  <2> QED
    BY <1>7, <2>1, <2>2 DEF PortalReads, Free
<1>8. ASSUME portal' = Free \/ portal'.doing = "clear",
             \/ worker' = Free
             \/ worker'.doing \in {"clear", "job", "chat", "checked"}
      PROVE  Good'
  BY <1>8 DEF Free
<1>9. ASSUME UNCHANGED <<clock, redis, sentAt, worker, portal>>
      PROVE  Good'
  BY <1>1, <1>9, MarkerSteps
<1>10. CASE \/ \E e \in Echoes : ProcessReply(e)
            \/ CommandCommits \/ CommandClears
  <2>1. worker # Free /\ portal' = portal
    <3>1. ASSUME NEW e \in Echoes, ProcessReply(e)
          PROVE  worker.doing # "nothing" /\ portal' = portal
      BY <3>1 DEF ProcessReply, Has
    <3>2. CommandCommits \/ CommandClears =>
             worker.doing # "nothing" /\ portal' = portal
      BY DEF CommandCommits, CommandClears
    <3> QED
      BY <1>10, <3>1, <3>2 DEF Free
  <2>2. (\E e \in Echoes : ProcessReply(e)) => worker' = Free
    BY DEF ProcessReply
  <2>3. CommandCommits => worker'.doing = "clear"
    BY DEF CommandCommits
  <2>4. CommandClears => worker' = Free
    BY DEF CommandClears
  <2> QED
    BY <1>2, <1>8, <1>10, <2>1, <2>2, <2>3, <2>4
<1>11. CASE (\E e \in Echoes : Load(e)) \/ Load("turn")
  BY <1>0, <1>8, <1>11 DEF Load
<1>12. CASE TurnToHuman \/ TurnAsksHuman \/ TurnBegins \/ TurnHandsOver
  <2>1. portal' = Free
    BY <1>2, <1>12
       DEF TurnToHuman, TurnAsksHuman, TurnBegins, TurnHandsOver, Has, Free
  <2>2. worker' = Free \/ worker'.doing = "chat"
    BY <1>12 DEF TurnToHuman, TurnAsksHuman, TurnBegins, TurnHandsOver
  <2> QED
    BY <1>8, <2>1, <2>2
<1>13. CASE ActionCommits \/ AgentHandsOff
  <2>1. portal' = Free
    BY <1>2, <1>13 DEF ActionCommits, AgentHandsOff, Generated, Free
  <2>2. CASE ActionCommits
    <3>1. worker' = [doing |-> "chat", locked |-> FALSE,
                     view |-> worker.view]
      BY <2>2, ChatIs DEF ActionCommits
    <3> QED
      BY <1>8, <2>1, <3>1
  <2>3. CASE AgentHandsOff
    <3>1. worker' = [doing |-> "chat", locked |-> TRUE,
                     view |-> ActivateOpen(View)]
      BY <2>3, ChatIs DEF AgentHandsOff, Generated
    <3> QED
      BY <1>8, <2>1, <3>1
  <2> QED
    BY <1>13, <2>2, <2>3
<1>14. CASE TurnChecks \/ TurnReplies \/ TurnIsTakenOver
  <2>1. portal' = Free
    BY <1>2, <1>14
       DEF TurnChecks, TurnReplies, TurnIsTakenOver, Generated, Free
  <2>2. worker' = Free \/ worker'.doing \in {"job", "checked"}
    BY <1>14 DEF TurnChecks, TurnReplies, TurnIsTakenOver
  <2> QED
    BY <1>8, <2>1, <2>2
<1>15. CASE PortalTakesOver \/ AnswerLeaves \/ UNCHANGED vars
  BY <1>9, <1>15 DEF PortalTakesOver, PortalMayStart, AnswerLeaves, vars
<1>16. CASE PortalCommits
  <2>1. worker' = Free
    BY <1>2, <1>16 DEF PortalCommits, Free
  <2>2. portal'.doing = "clear"
    BY <1>16, PortalHolds DEF PortalCommits
  <2> QED
    BY <1>8, <2>1, <2>2
<1>17. CASE PortalClears
  <2>1. worker' = Free
    BY <1>2, <1>17 DEF PortalClears, Free
  <2> QED
    BY <1>8, <1>17, <2>1 DEF PortalClears
<1> QED
  BY <1>3, <1>4, <1>5, <1>6, <1>7, <1>10, <1>11, <1>12, <1>13, <1>14,
     <1>15, <1>16, <1>17
     DEF Next

\* Marker and echoes as they were, and the session's return as it was.
LEMMA StandsOn ==
    ASSUME Stands, UNCHANGED <<stage, sentAt, returned>>, Marker' = Marker,
           Marker = None \/ UNCHANGED <<worker, portal>>,
           session'.human = session.human,
           session'.resumedAt = session.resumedAt,
           worker'.doing \in {"chat", "checked"} => worker'.view = session',
           worker'.doing = "job" => worker'.job # "takeover"
    PROVE  Stands'
  BY DEF Stands, Answered

LEMMA StandsOutside ==
    ASSUME ~Late, Types, PastOnly, OnTime, ~taken, Stands, [Next]_vars,
           ~taken',
           \/ Tick
           \/ \E e \in Echoes : Send(e) \/ Ingress(e)
    PROVE  Stands'
<1>1. CASE Tick
  <2>1. Marker' = None
    BY <1>1, MarkerSteps DEF Tick, Stands, Free
  <2> QED
    BY <1>1, <2>1 DEF Tick, Stands, Answered, history
<1>2. ASSUME NEW e \in Echoes, Ingress(e)
      PROVE  FALSE
  <2>1. Answered(e) /\ sentAt[e] = clock /\ stage[e] = "sent"
    BY <1>2 DEF Ingress, Stands, OnTime
  <2> QED
    BY <2>1, Clocks DEF Answered, PastOnly
<1>3. ASSUME NEW e \in Echoes, Send(e)
      PROVE  FALSE
  BY <1>3 DEF Send
<1> QED
  BY <1>1, <1>2, <1>3

LEMMA StandsReply ==
    ASSUME Types, ~races, NoOverlap, Stands, [Next]_vars,
           NEW e \in Echoes, ProcessReply(e)
    PROVE  Stands'
<1> DEFINE s == worker.loaded
           new == IF ~Stale(s, e) THEN ActivateApp(s, sentAt[e], TRUE)
                  ELSE IF s.resumeEcho = e THEN [s EXCEPT !.resumeEcho = None]
                  ELSE s
<1>1. /\ s = session /\ portal = Free /\ stage[e] = "queued" /\ e \in Replies
      /\ worker.doing = "job" /\ s \in SessionRow /\ ~taken'= ~taken
  BY WorkerHolds DEF ProcessReply, Has, NoOverlap, Free, history
<1>2. /\ returned # None /\ session.resumedAt = returned
      /\ sentAt[e] < returned
  BY <1>1, HandoffAssumption DEF Stands, Answered
<1>3. Stale(s, e)
  BY <1>1, <1>2 DEF Stale
<1>4. new \in SessionRow /\ new.human = s.human
         /\ new.resumedAt = s.resumedAt
  <2>1. CASE s.resumeEcho = e
    <3>1. new = [s EXCEPT !.resumeEcho = None]
      BY <1>3, <2>1
    <3> QED
      BY <1>1, <3>1 DEF SessionRow
  <2>2. CASE s.resumeEcho # e
    BY <1>1, <1>3, <2>2
  <2> QED
    BY <2>1, <2>2
<1>5. session' = new
  <2>1. session' = Write(s, new)
    BY DEF ProcessReply
  <2> HIDE DEF s, new
  <2> QED
    BY <1>1, <1>4, <2>1, WriteSession DEF Types
<1>6. Marker' = Marker /\ Marker = None
  BY <1>1, MarkerSteps DEF ProcessReply, Stands, Free
<1>7. ~session'.human /\ session'.resumedAt = session.resumedAt
  <2> HIDE DEF new
  <2> QED
    BY <1>1, <1>4, <1>5 DEF Stands
<1>8. ASSUME NEW d \in Echoes, stage'[d] # "unsent"
      PROVE  Answered(d)'
  <2>1. stage[d] # "unsent" /\ (d # e => stage'[d] = stage[d])
    BY <1>1, <1>8 DEF ProcessReply, Types
  <2>2. Answered(d)
    BY <2>1 DEF Stands
  <2>3. UNCHANGED <<sentAt, returned>>
    BY DEF ProcessReply, history
  <2> QED
    BY <1>2, <1>7, <2>1, <2>2, <2>3 DEF Answered
<1>9. worker' = Free
  BY DEF ProcessReply
<1> QED
  BY <1>6, <1>7, <1>8, <1>9 DEF Stands, Free

LEMMA StandsCommand ==
    ASSUME Types, PastOnly, ~races, NoOverlap, ReadsLast,
           Stands \/ CommandCommits, ~taken', [Next]_vars,
           (\E e \in Echoes : CommandReads(e)) \/ CommandCommits
              \/ CommandClears
    PROVE  Stands'
<1>1. ASSUME NEW e \in Echoes, CommandReads(e)
      PROVE  Stands'
  <2>1. portal = Free /\ worker.doing = "job"
    BY <1>1 DEF CommandReads, Has, NoOverlap, Free
  <2>2. Stands
    BY <2>1 DEF CommandCommits
  <2>3. Marker' = Marker /\ Marker = None
    BY <1>1, <2>1, <2>2, MarkerSteps DEF CommandReads, Stands, Free
  <2> QED
    BY <1>1, <2>2, <2>3, StandsOn DEF CommandReads, history
<1>2. CASE CommandCommits
  <2> DEFINE t == sentAt[worker.job]
             new == resume_ai(worker.loaded, t)
  <2>1. /\ worker.loaded = session /\ worker.job \in Commands
        /\ worker.job \in Echoes /\ stage[worker.job] = "queued"
        /\ session \in SessionRow
    BY <1>2, WorkerHolds DEF CommandCommits, NoOverlap, Types, Echoes
  <2>2. t \in Times /\ t # None
    BY <2>1, HandoffAssumption DEF Types
  <2>3. new \in SessionRow
    BY <2>1, <2>2, Sessions
  <2>4. session' = new
    <3>1. session' = Write(session, new)
      BY <1>2, <2>1 DEF CommandCommits
    <3> HIDE DEF new
    <3> QED
      BY <2>1, <2>3, <3>1, WriteSession
  <2>5. ~session'.human /\ session'.resumedAt = t
    BY <2>4 DEF resume_ai
  <2>6. returned' = t
    BY <1>2 DEF CommandCommits, Returned
  <2>7. \A d \in Echoes \ {worker.job} :
           sentAt[d] # None => ~(sentAt[d] >= t)
    BY <1>2 DEF CommandCommits, Returned
  <2>8. t <= clock
    BY <2>1, <2>2 DEF PastOnly
  <2>9. ASSUME NEW d \in Echoes, stage'[d] # "unsent"
        PROVE  Answered(d)'
    <3>1. CASE d = worker.job
      <4>1. stage'[d] = "done"
        BY <1>2, <2>1, <3>1 DEF CommandCommits, Types
      <4> QED
        BY <2>1, <3>1, <4>1 DEF Answered
    <3>2. CASE d # worker.job
      <4>1. stage[d] # "unsent" /\ sentAt'[d] = sentAt[d]
        BY <1>2, <2>1, <2>9, <3>2 DEF CommandCommits, Types
      <4>2. sentAt[d] # None /\ sentAt[d] \in Nat /\ t \in Nat
        BY <2>1, <2>2, <4>1, Clocks DEF Types
      <4>3. sentAt[d] < t
        BY <2>7, <3>2, <4>2
      <4> QED
        BY <2>2, <2>5, <2>6, <4>1, <4>3 DEF Answered
    <3> QED
      BY <3>1, <3>2
  <2>10. Marker' \in {None, worker.marker}
    <3>1. Marker' = Marker
      BY <1>2, MarkerSteps DEF CommandCommits
    <3>2. \A e \in Echoes \ {worker.job} : sentAt[e] # clock
      BY <2>2, <2>7, <2>8, Clocks
    <3> QED
      BY <1>2, <3>1, <3>2 DEF ReadsLast, CommandCommits
  <2>11. worker' = [doing |-> "clear", marker |-> worker.marker,
                    locked |-> FALSE]
    BY <1>2 DEF CommandCommits
  <2> QED
    BY <2>5, <2>9, <2>10, <2>11 DEF Stands
<1>3. CASE CommandClears
  <2>1. Stands /\ portal = Free /\ worker.marker \in Marks
    BY <1>3, WorkerHolds DEF CommandClears, CommandCommits, NoOverlap, Free
  <2>2. Marker' = IF Marker = worker.marker THEN None ELSE Marker
    BY <1>3, <2>1, MarkerSteps DEF CommandClears
  <2>3. Marker' = None
    BY <2>1, <2>2 DEF Stands, Free
  <2>4. UNCHANGED <<stage, sentAt, returned, session>> /\ worker' = Free
    BY <1>3 DEF CommandClears, history
  <2> QED
    BY <2>1, <2>3, <2>4 DEF Stands, Answered, Free
<1> QED
  BY <1>1, <1>2, <1>3

LEMMA StandsTurn ==
    ASSUME Types, ~races, NoOverlap, ~taken, Stands, ~taken', [Next]_vars,
           \/ TurnToHuman \/ TurnAsksHuman \/ TurnBegins \/ ActionCommits
           \/ AgentHandsOff \/ TurnChecks \/ TurnReplies
           \/ TurnIsTakenOver \/ TurnHandsOver
    PROVE  Stands'
<1>1. portal = Free /\ worker.doing # "clear"
  BY DEF TurnToHuman, TurnAsksHuman, TurnBegins, ActionCommits, AgentHandsOff,
         TurnChecks, TurnReplies, TurnIsTakenOver, TurnHandsOver, Has,
         Generated, NoOverlap, Free
<1>2. Marker = None
  BY <1>1 DEF Stands, Free
<1>3. Marker' = None
  BY <1>2, MarkerSteps
     DEF TurnToHuman, TurnAsksHuman, TurnBegins, ActionCommits,
         AgentHandsOff, TurnChecks, TurnReplies, TurnIsTakenOver, TurnHandsOver
<1>4. worker.doing = "job" => AtStart = session
  BY <1>2 DEF AtStart, NoOverlap
<1>5. worker.doing = "chat" => View = session
  BY DEF View, Stands
<1>6. ~Active(session) /\ Settled(session) = session
  BY DEF Stands, Active, Settled, Expired
<1>7. ~TurnToHuman /\ ~TurnIsTakenOver /\ ~TurnHandsOver
  BY <1>2, <1>4, <1>5, <1>6
     DEF TurnToHuman, TurnIsTakenOver, TurnHandsOver, Has, Generated,
         TakenOver, Stands
<1>8. ~TurnAsksHuman /\ ~AgentHandsOff
  BY DEF TurnAsksHuman, AgentHandsOff
<1>9. CASE TurnBegins
  <2>1. worker.loaded = session /\ Settled(AtStart) = session
    BY <1>4, <1>6, <1>9 DEF TurnBegins, Has, NoOverlap
  <2>2. Write(session, session) = session
    BY WriteSession DEF Types
  <2>3. worker' = [doing |-> "chat", locked |-> TRUE, view |-> session]
    BY <1>9, <2>1, <2>2 DEF TurnBegins
  <2> QED
    BY <1>2, <1>3, <1>9, <2>3, StandsOn DEF TurnBegins
<1>10. CASE ActionCommits
  <2>1. worker' = [doing |-> "chat", locked |-> FALSE, view |-> worker.view]
    BY <1>10, ChatIs DEF ActionCommits
  <2> QED
    BY <1>2, <1>3, <1>10, <2>1, StandsOn DEF ActionCommits, Stands, history
<1>11. CASE TurnReplies
  <2>1. session' = session
    BY <1>11 DEF TurnReplies, Stands
  <2> QED
    BY <1>2, <1>3, <1>11, <2>1, StandsOn DEF TurnReplies, Free, history
<1>12. CASE TurnChecks
  <2>1. worker' = [doing |-> "checked", locked |-> TRUE, view |-> session,
                   heard |-> Recent]
    BY <1>5, <1>6, <1>12 DEF TurnChecks, Generated
  <2> QED
    BY <1>2, <1>3, <1>12, <2>1, StandsOn DEF TurnChecks, history
<1> QED
  BY <1>7, <1>8, <1>9, <1>10, <1>11, <1>12

LEMMA StandsPortal ==
    ASSUME Types, PastOnly, ~races, NoOverlap, ReadsLast,
           Stands \/ PortalCommits, ~taken', [Next]_vars,
           PortalReads \/ PortalCommits \/ PortalClears
    PROVE  Stands'
<1>1. worker = Free /\ worker' = Free
  BY DEF PortalReads, PortalMayStart, PortalCommits, PortalClears, NoOverlap,
         Free
<1>2. CASE PortalReads
  <2>1. Stands /\ portal = Free
    BY <1>2 DEF PortalReads, PortalMayStart, PortalCommits, Free
  <2>2. Marker' = Marker /\ Marker = None
    BY <1>1, <1>2, <2>1, MarkerSteps DEF PortalReads, Stands, Free
  <2> QED
    BY <1>1, <1>2, <2>1, <2>2, StandsOn DEF PortalReads, history, Free
<1>3. CASE PortalCommits
  <2>1. session' = resume_ai(session, clock) /\ returned' = clock
    BY <1>3 DEF PortalCommits, Returned
  <2>2. ~session'.human /\ session'.resumedAt = clock
    BY <2>1 DEF resume_ai
  <2>3. \A d \in Echoes : sentAt[d] # None => ~(sentAt[d] >= clock)
    BY <1>3, HandoffAssumption DEF PortalCommits, Returned
  <2>4. ASSUME NEW d \in Echoes, stage'[d] # "unsent"
        PROVE  Answered(d)'
    <3>1. stage[d] # "unsent" /\ sentAt'[d] = sentAt[d]
      BY <1>3, <2>4 DEF PortalCommits
    <3>2. sentAt[d] # None /\ sentAt[d] \in Nat
      BY <3>1, Clocks DEF Types
    <3> QED
      BY <2>1, <2>2, <2>3, <3>1, <3>2, Clocks DEF Answered
  <2>5. Marker' \in {None, portal.marker}
    <3>1. Marker' = Marker
      BY <1>3, MarkerSteps DEF PortalCommits
    <3>2. \A e \in Echoes : sentAt[e] # clock
      BY <2>3, Clocks
    <3> QED
      BY <1>3, <3>1, <3>2 DEF ReadsLast, PortalCommits
  <2>6. portal' = [doing |-> "clear", marker |-> portal.marker,
                   locked |-> FALSE]
    BY <1>3, PortalHolds DEF PortalCommits
  <2> QED
    BY <1>1, <2>2, <2>4, <2>5, <2>6 DEF Stands, Free
<1>4. CASE PortalClears
  <2>1. Stands /\ portal.marker \in Marks
    BY <1>4, PortalHolds DEF PortalClears, PortalCommits
  <2>2. Marker' = IF Marker = portal.marker THEN None ELSE Marker
    BY <1>4, <2>1, MarkerSteps DEF PortalClears
  <2>3. Marker' = None
    BY <1>1, <2>1, <2>2 DEF Stands, Free
  <2>4. UNCHANGED <<stage, sentAt, returned, session>>
    BY <1>4 DEF PortalClears, history
  <2> QED
    BY <1>1, <2>1, <2>3, <2>4 DEF Stands, Answered, Free
<1> QED
  BY <1>2, <1>3, <1>4

LEMMA ReturnNext ==
    ASSUME ~Late, Types, PastOnly, OnTime, NoOverlap, ReadsLast, ReturnInv,
           [Next]_vars
    PROVE  ReturnInv'
<1> SUFFICES ASSUME ~races', ~taken' PROVE Stands'
  BY DEF ReturnInv
<1>0. ~races
  BY DEF Next, vars, Tick, Send, Ingress, Load, ProcessReply, CommandReads,
         CommandCommits, CommandClears, TurnToHuman, TurnAsksHuman, TurnBegins,
         ActionCommits, AgentHandsOff, TurnChecks, TurnReplies, AnswerLeaves,
         TurnIsTakenOver, TurnHandsOver, PortalTakesOver, PortalReads,
         PortalCommits, PortalClears
<1>1. CASE CommandCommits
  BY <1>0, <1>1, StandsCommand
<1>2. CASE PortalCommits
  BY <1>0, <1>2, StandsPortal
<1>3. ASSUME ~CommandCommits, ~PortalCommits
      PROVE  ~taken /\ Stands
  <2>1. ~taken
    BY <1>3
       DEF Next, vars, history, Tick, Send, Ingress, Load, ProcessReply,
           CommandReads, CommandClears, TurnToHuman, TurnAsksHuman, TurnBegins,
           ActionCommits, AgentHandsOff, TurnChecks, TurnReplies, AnswerLeaves,
           TurnIsTakenOver, TurnHandsOver, PortalTakesOver, PortalReads,
           PortalClears
  <2> QED
    BY <1>0, <2>1 DEF ReturnInv
<1> SUFFICES ASSUME ~CommandCommits, ~PortalCommits, ~taken, Stands
             PROVE  Stands'
  BY <1>1, <1>2, <1>3
<1>4. CASE Tick \/ \E e \in Echoes : Send(e) \/ Ingress(e)
  BY <1>4, StandsOutside
<1>5. ASSUME NEW job \in Echoes \cup {"turn"}, Load(job)
      PROVE  Stands'
  <2>1. worker = Free /\ portal = Free
    BY <1>0, <1>5 DEF Load
  <2>2. Marker' = Marker /\ Marker = None
    BY <1>5, <2>1, MarkerSteps DEF Load, Stands, Free
  <2>3. job # "takeover"
    BY HandoffAssumption
  <2> QED
    BY <1>5, <2>2, <2>3, StandsOn DEF Load, history
<1>6. ASSUME NEW e \in Echoes, ProcessReply(e)
      PROVE  Stands'
  BY <1>0, <1>6, StandsReply
<1>7. CASE (\E e \in Echoes : CommandReads(e)) \/ CommandClears
  BY <1>0, <1>7, StandsCommand
<1>8. CASE \/ TurnToHuman \/ TurnAsksHuman \/ TurnBegins \/ ActionCommits
           \/ AgentHandsOff \/ TurnChecks \/ TurnReplies
           \/ TurnIsTakenOver \/ TurnHandsOver
  BY <1>0, <1>8, StandsTurn
<1>9. CASE PortalReads \/ PortalClears
  BY <1>0, <1>9, StandsPortal
<1>10. ~PortalTakesOver
  BY DEF PortalTakesOver
<1>11. CASE AnswerLeaves \/ UNCHANGED vars
  <2>1. Marker' = Marker
    BY <1>11, MarkerSteps DEF AnswerLeaves, vars
  <2> QED
    BY <1>11, <2>1, StandsOn DEF AnswerLeaves, vars, history, Stands
<1> QED
  BY <1>4, <1>5, <1>6, <1>7, <1>8, <1>9, <1>10, <1>11 DEF Next

LEMMA OrderInit ==
    ASSUME Init
    PROVE  OnTime /\ NoOverlap /\ ReadsLast /\ ReturnInv
  BY DEF Init, OnTime, NoOverlap, ReadsLast, ReturnInv, Stands, Marker, Free

LEMMA OrderAlways ==
    ASSUME ~Late
    PROVE  Spec => [](/\ Types /\ PastOnly /\ OnTime /\ NoOverlap
                      /\ ReadsLast /\ ReturnInv)
<1> DEFINE Inv == /\ Types /\ PastOnly /\ OnTime /\ NoOverlap
                  /\ ReadsLast /\ ReturnInv
<1>1. Init => Inv
  BY TypesInit, PastInit, OrderInit
<1>2. Inv /\ [Next]_vars => Inv'
  BY TypesNext, PastNext, OnTimeNext, OverlapNext, ReadsNext, ReturnNext
<1> QED
  BY <1>1, <1>2, PTL DEF Spec

\* If Meta delivers an echo in the minute it was sent, an explicit return to
\* AI stands until somebody takes control again: neither a processed or
\* retried older echo, nor its marker, nor a turn that was open meanwhile
\* gives the conversation back to a human, unless transactions overlap.
THEOREM ReturnsToAiStand ==
    ASSUME ~Late
    PROVE  Spec => []ReturnStands
<1>1. ReturnInv => ReturnStands
  BY DEF ReturnInv, ReturnStands, Stands
<1> QED
  BY <1>1, OrderAlways, PTL

-----------------------------------------------------------------------------
(* Replies alone pause the AI for a bounded time.                          *)

\* What a session remembers stays true.
LEMMA RemembersOn ==
    ASSUME Types, [Next]_vars, NEW s \in SessionRow,
           RemembersAt(s, clock, stage)
    PROVE  RemembersAt(s, clock', stage')
<1>1. clock' >= clock /\ clock' \in Nat
  BY TimePasses
<1>2. ASSUME NEW e \in Echoes, Heard(e)
      PROVE  stage'[e] \in {"queued", "done"}
  BY <1>2, HeardStays DEF Heard
<1>3. s.resumedAt # None => s.resumedAt <= clock'
  BY <1>1, Clocks, HandoffAssumption DEF RemembersAt, SessionRow, Times
<1>4. s.resumeEcho # None => stage'[s.resumeEcho] \in {"queued", "done"}
  BY <1>2 DEF RemembersAt, SessionRow, Heard
<1> QED
  BY <1>3, <1>4 DEF RemembersAt

\* Every function of handoff.py returns a session that remembers no more.
LEMMA Memories ==
    ASSUME Types, Memory, NEW s \in SessionRow, Remembers(s)
    PROVE  /\ \A now \in Nat, b \in BOOLEAN :
                 Remembers(ActivateApp(s, now, b))
           /\ Remembers(ActivateOpen(s))
           /\ \A t \in Times : t <= clock => Remembers(resume_ai(s, t))
           /\ Remembers(Settled(s))
           /\ Remembers([s EXCEPT !.resumeEcho = None])
<1>1. ASSUME NEW now \in Nat, NEW b \in BOOLEAN
      PROVE  Remembers(ActivateApp(s, now, b))
  <2>1. PICK until \in Nat :
           ActivateApp(s, now, b)
              = [human |-> TRUE, app |-> TRUE, until |-> until,
                 resumedAt |-> s.resumedAt, resumeEcho |-> s.resumeEcho]
    BY ActivateAppRow
  <2> QED
    BY <2>1 DEF Remembers, RemembersAt
<1>2. Remembers(ActivateOpen(s))
  <2>1. ActivateOpen(s)
           = [human |-> TRUE, app |-> FALSE, until |-> None,
              resumedAt |-> s.resumedAt, resumeEcho |-> s.resumeEcho]
    BY ActivateOpenRow
  <2> QED
    BY <2>1 DEF Remembers, RemembersAt
<1>3. ASSUME NEW t \in Times, t <= clock
      PROVE  Remembers(resume_ai(s, t))
  BY <1>3 DEF Remembers, RemembersAt, resume_ai, Marker, Memory, Heard
<1>4. Remembers(Settled(s))
  BY <1>3, Clocks DEF Settled, Types
<1>5. Remembers([s EXCEPT !.resumeEcho = None])
  <2>1. /\ [s EXCEPT !.resumeEcho = None].resumeEcho = None
        /\ [s EXCEPT !.resumeEcho = None].resumedAt = s.resumedAt
    BY DEF SessionRow
  <2> QED
    BY <2>1 DEF Remembers, RemembersAt
<1> QED
  BY <1>1, <1>2, <1>3, <1>4, <1>5

\* ... and a write of changed columns mixes two such sessions.
LEMMA WriteRemembers ==
    ASSUME session \in SessionRow, NEW new \in SessionRow,
           NEW loaded \in SessionRow, Remembers(session), Remembers(new)
    PROVE  Remembers(Write(loaded, new))
<1>1. /\ Write(loaded, new).resumedAt \in {session.resumedAt, new.resumedAt}
      /\ Write(loaded, new).resumeEcho
            \in {session.resumeEcho, new.resumeEcho}
  BY DEF Write, SessionRow
<1> QED
  BY <1>1 DEF Remembers, RemembersAt

LEMMA MemoryStep ==
    ASSUME Types, Types', [Next]_vars, Memory,
           Remembers(session'),
           worker'.doing \in {"job", "command"} =>
              Remembers(worker'.loaded),
           worker'.doing \in {"chat", "checked"} => Remembers(worker'.view),
           marker' = marker \/ marker' = None \/ Heard(marker)'
    PROVE  Memory'
<1>1. session' \in SessionRow
  BY DEF Types, SessionRow
<1>2. /\ worker'.doing \in {"job", "command"} =>
            worker'.loaded \in SessionRow
      /\ worker'.doing \in {"chat", "checked"} =>
            worker'.view \in SessionRow
  BY DEF Types, WorkerShape, IsJob, IsCommand, IsChat, IsChecked, IsClear,
         Free, SessionRow
<1>3. RemembersAt(session', clock', stage')
  BY <1>1, RemembersOn DEF Remembers
<1>4. worker'.doing \in {"job", "command"} =>
         RemembersAt(worker'.loaded, clock', stage')
  BY <1>2, RemembersOn DEF Remembers
<1>5. worker'.doing \in {"chat", "checked"} =>
         RemembersAt(worker'.view, clock', stage')
  BY <1>2, RemembersOn DEF Remembers
<1>6. marker' # None => Heard(marker)'
  <2>1. CASE marker' = marker /\ marker # None
    <3> DEFINE m == [human |-> FALSE, app |-> FALSE, until |-> None,
                     resumedAt |-> None, resumeEcho |-> marker]
    <3>1. m \in SessionRow /\ RemembersAt(m, clock, stage)
      BY DEF SessionRow, RemembersAt, Types, Marks, Memory, Heard
    <3>2. RemembersAt(m, clock', stage')
      <4> HIDE DEF m
      <4> QED
        BY <3>1, RemembersOn
    <3> QED
      BY <2>1, <3>2 DEF RemembersAt, Heard
  <2> QED
    BY <2>1
<1> QED
  BY <1>3, <1>4, <1>5, <1>6 DEF Memory, Remembers

LEMMA MemoryOutside ==
    ASSUME Types, Types', [Next]_vars, Memory,
           \/ Tick \/ AnswerLeaves \/ UNCHANGED vars
           \/ \E e \in Echoes : Send(e) \/ Ingress(e)
           \/ \E job \in Echoes \cup {"turn"} : Load(job)
    PROVE  Memory'
<1>1. CASE \E job \in Echoes \cup {"turn"} : Load(job)
  BY <1>1, MemoryStep DEF Load, Memory, redis
<1>2. ASSUME NEW e \in Echoes, Send(e) \/ Ingress(e)
      PROVE  Memory'
  <2>1. UNCHANGED <<session, worker>>
    BY <1>2 DEF Send, Ingress
  <2>2. marker' = marker \/ Heard(marker)'
    BY <1>2 DEF Send, Ingress, redis, Heard, Types
  <2> QED
    BY <2>1, <2>2, MemoryStep DEF Memory
<1>3. CASE Tick \/ AnswerLeaves \/ UNCHANGED vars
  <2>1. UNCHANGED <<session, worker, marker>>
    BY <1>3 DEF Tick, AnswerLeaves, vars, redis
  <2> QED
    BY <2>1, MemoryStep DEF Memory
<1> QED
  BY <1>1, <1>2, <1>3

LEMMA MemoryEchoes ==
    ASSUME Types, Types', PastOnly, [Next]_vars, Memory,
           \/ \E e \in Echoes : ProcessReply(e) \/ CommandReads(e)
           \/ CommandCommits \/ CommandClears
    PROVE  Memory'
<1>1. ASSUME NEW e \in Echoes, ProcessReply(e)
      PROVE  Memory'
  <2> DEFINE s == worker.loaded
             new == IF ~Stale(s, e) THEN ActivateApp(s, sentAt[e], TRUE)
                    ELSE IF s.resumeEcho = e
                         THEN [s EXCEPT !.resumeEcho = None]
                         ELSE s
  <2>1. s \in SessionRow /\ Remembers(s) /\ sentAt[e] \in Nat
    BY <1>1, WorkerHolds, Clocks DEF ProcessReply, Has, Memory, Types
  <2>2. new \in SessionRow /\ Remembers(new)
    <3>1. ActivateApp(s, sentAt[e], TRUE) \in SessionRow
             /\ Remembers(ActivateApp(s, sentAt[e], TRUE))
      BY <2>1, Sessions, Memories
    <3>2. [s EXCEPT !.resumeEcho = None] \in SessionRow
             /\ Remembers([s EXCEPT !.resumeEcho = None])
      BY <2>1, Sessions, Memories
    <3> QED
      BY <2>1, <3>1, <3>2
  <2>3. session' = Write(s, new)
    BY <1>1 DEF ProcessReply
  <2>4. Remembers(session')
    <3> HIDE DEF s, new
    <3> QED
      BY <2>1, <2>2, <2>3, WriteRemembers DEF Types, Memory
  <2> QED
    BY <1>1, <2>4, MemoryStep DEF ProcessReply, Free, redis
<1>2. ASSUME NEW e \in Echoes, CommandReads(e)
      PROVE  Memory'
  BY <1>2, MemoryStep DEF CommandReads, Has, Memory, redis
<1>3. CASE CommandCommits
  <2> DEFINE t == sentAt[worker.job]
             new == resume_ai(worker.loaded, t)
  <2>1. /\ worker.loaded \in SessionRow /\ Remembers(worker.loaded)
        /\ t \in Times /\ t <= clock
    BY <1>3, WorkerHolds, HandoffAssumption
       DEF CommandCommits, Memory, Types, Echoes, PastOnly
  <2>2. new \in SessionRow /\ Remembers(new)
    BY <2>1, Sessions, Memories
  <2>3. session' = Write(worker.loaded, new)
    BY <1>3 DEF CommandCommits
  <2>4. Remembers(session')
    <3> HIDE DEF new
    <3> QED
      BY <2>1, <2>2, <2>3, WriteRemembers DEF Types, Memory
  <2> QED
    BY <1>3, <2>4, MemoryStep DEF CommandCommits, redis
<1>4. CASE CommandClears
  BY <1>4, MemoryStep DEF CommandClears, clear_human_marker, Memory, Free
<1> QED
  BY <1>1, <1>2, <1>3, <1>4

LEMMA MemoryTurn ==
    ASSUME Types, Types', [Next]_vars, Memory,
           \/ TurnToHuman \/ TurnAsksHuman \/ TurnBegins \/ ActionCommits
           \/ AgentHandsOff \/ TurnChecks \/ TurnReplies
           \/ TurnIsTakenOver \/ TurnHandsOver
    PROVE  Memory'
<1>1. marker' = marker
  BY DEF TurnToHuman, TurnAsksHuman, TurnBegins, ActionCommits, AgentHandsOff,
         TurnChecks, TurnReplies, AnswerLeaves, TurnIsTakenOver, TurnHandsOver,
         redis
<1>2. worker.doing = "job" => /\ worker.loaded \in SessionRow
                              /\ Remembers(worker.loaded)
  BY WorkerHolds DEF Memory
<1>3. worker.doing = "job" => AtStart \in SessionRow /\ Remembers(AtStart)
  <2>1. clock \in Nat /\ FALSE \in BOOLEAN
    BY Clocks
  <2> QED
    BY <1>2, <2>1, Sessions, Memories DEF AtStart
<1>4. worker.doing = "chat" => View \in SessionRow /\ Remembers(View)
  BY WorkerHolds DEF View, Types, Memory
<1>5. CASE TurnToHuman
  <2>1. Remembers(session')
    BY <1>2, <1>3, <1>5, WriteRemembers DEF TurnToHuman, Has, Types, Memory
  <2> QED
    BY <1>1, <1>5, <2>1, MemoryStep DEF TurnToHuman, Free
<1>6. CASE TurnAsksHuman
  <2>1. Settled(AtStart) \in SessionRow /\ Remembers(Settled(AtStart))
    BY <1>3, <1>6, Sessions, Memories DEF TurnAsksHuman, Has
  <2>2. /\ ActivateOpen(Settled(AtStart)) \in SessionRow
        /\ Remembers(ActivateOpen(Settled(AtStart)))
    BY <2>1, Sessions, Memories
  <2>3. Remembers(session')
    BY <1>2, <1>6, <2>2, WriteRemembers
       DEF TurnAsksHuman, Has, Types, Memory
  <2> QED
    BY <1>1, <1>6, <2>3, MemoryStep DEF TurnAsksHuman, Free
<1>7. CASE TurnBegins
  <2>1. Settled(AtStart) \in SessionRow /\ Remembers(Settled(AtStart))
    BY <1>3, <1>7, Sessions, Memories DEF TurnBegins, Has
  <2>2. Remembers(Write(worker.loaded, Settled(AtStart)))
    BY <1>2, <1>7, <2>1, WriteRemembers DEF TurnBegins, Has, Types, Memory
  <2>3. worker'.doing = "chat"
           /\ worker'.view = Write(worker.loaded, Settled(AtStart))
    BY <1>7 DEF TurnBegins
  <2>4. Remembers(session')
    BY <1>7 DEF TurnBegins, Memory
  <2> QED
    BY <1>1, <2>2, <2>3, <2>4, MemoryStep
<1>8. CASE ActionCommits
  <2>1. worker' = [doing |-> "chat", locked |-> FALSE, view |-> worker.view]
    BY <1>8, ChatIs DEF ActionCommits
  <2>2. Remembers(worker.view) /\ session' = worker.view
    BY <1>8 DEF ActionCommits, Memory
  <2> QED
    BY <1>1, <2>1, <2>2, MemoryStep
<1>9. CASE AgentHandsOff
  <2>1. worker' = [doing |-> "chat", locked |-> TRUE,
                   view |-> ActivateOpen(View)]
    BY <1>9, ChatIs DEF AgentHandsOff, Generated
  <2>2. Remembers(ActivateOpen(View))
    BY <1>4, <1>9, Memories DEF AgentHandsOff, Generated
  <2>3. Remembers(session')
    BY <1>9 DEF AgentHandsOff, Memory
  <2> QED
    BY <1>1, <2>1, <2>2, <2>3, MemoryStep
<1>10. CASE TurnReplies
  <2>1. Remembers(session')
    BY <1>10 DEF TurnReplies, Memory
  <2> QED
    BY <1>1, <1>10, <2>1, MemoryStep DEF TurnReplies, Free
<1>11. CASE TurnIsTakenOver
  <2>1. Remembers(session')
    BY <1>11 DEF TurnIsTakenOver, Memory
  <2> QED
    BY <1>1, <1>11, <2>1, MemoryStep DEF TurnIsTakenOver
<1>12. CASE TurnHandsOver
  <2>1. /\ ActivateOpen(worker.loaded) \in SessionRow
        /\ Remembers(ActivateOpen(worker.loaded))
    BY <1>2, <1>12, Sessions, Memories DEF TurnHandsOver, Has
  <2>2. Remembers(session')
    BY <1>2, <1>12, <2>1, WriteRemembers
       DEF TurnHandsOver, Has, Types, Memory
  <2> QED
    BY <1>1, <1>12, <2>2, MemoryStep DEF TurnHandsOver, Free
<1>13. CASE TurnChecks
  <2>1. Remembers(Settled(View))
    BY <1>4, <1>13, Memories DEF TurnChecks, Generated
  <2>2. worker'.doing = "checked" /\ worker'.view = Settled(View)
    BY <1>13 DEF TurnChecks
  <2>3. Remembers(session')
    BY <1>13 DEF TurnChecks, Memory
  <2> QED
    BY <1>1, <2>1, <2>2, <2>3, MemoryStep
<1> QED
  BY <1>5, <1>6, <1>7, <1>8, <1>9, <1>10, <1>11, <1>12, <1>13

LEMMA MemoryPortal ==
    ASSUME Types, Types', [Next]_vars, Memory,
           PortalTakesOver \/ PortalReads \/ PortalCommits \/ PortalClears
    PROVE  Memory'
<1>1. /\ worker' = worker
      /\ marker' = marker \/ marker' = None
  BY DEF PortalTakesOver, PortalReads, PortalCommits, PortalClears,
         clear_human_marker, redis
<1>2. session \in SessionRow /\ clock \in Nat /\ FALSE \in BOOLEAN
         /\ clock <= clock /\ clock \in Times
  BY Clocks DEF Types
<1>3. Remembers(session')
  <2>1. CASE PortalTakesOver
    BY <1>2, <2>1, Memories DEF PortalTakesOver, Memory
  <2>2. CASE PortalCommits
    BY <1>2, <2>2, Memories DEF PortalCommits, Memory
  <2>3. CASE PortalReads \/ PortalClears
    BY <2>3 DEF PortalReads, PortalClears, Memory
  <2> QED
    BY <2>1, <2>2, <2>3
<1> QED
  BY <1>1, <1>3, MemoryStep DEF Memory

LEMMA MemoryNext ==
    ASSUME Types, Types', PastOnly, Memory, [Next]_vars
    PROVE  Memory'
<1>1. CASE \/ Tick \/ AnswerLeaves \/ UNCHANGED vars
           \/ \E e \in Echoes : Send(e) \/ Ingress(e)
           \/ \E job \in Echoes \cup {"turn"} : Load(job)
  BY <1>1, MemoryOutside
<1>2. CASE \/ \E e \in Echoes : ProcessReply(e) \/ CommandReads(e)
           \/ CommandCommits \/ CommandClears
  BY <1>2, MemoryEchoes
<1>3. CASE \/ TurnToHuman \/ TurnAsksHuman \/ TurnBegins \/ ActionCommits
           \/ AgentHandsOff \/ TurnChecks \/ TurnReplies
           \/ TurnIsTakenOver \/ TurnHandsOver
  BY <1>3, MemoryTurn
<1>4. CASE PortalTakesOver \/ PortalReads \/ PortalCommits \/ PortalClears
  BY <1>4, MemoryPortal
<1> QED
  BY <1>1, <1>2, <1>3, <1>4 DEF Next

\* The session, its marker and its echoes as they were.
LEMMA EndsOn ==
    ASSUME EndsByItself, UNCHANGED <<stage, sentAt, session>>,
           Marker' = Marker,
           worker' = worker
              \/ /\ worker'.doing # "chat"
                 /\ worker'.doing = "job" => worker'.job # "takeover"
    PROVE  EndsByItself'
  BY DEF EndsByItself, EchoWaits, Stale

\* A session that needs no echo, and a worker that waits for none.
LEMMA EndsSo ==
    ASSUME ~(session'.human /\ session'.until = None),
           worker'.doing \notin {"chat", "job"}
    PROVE  EndsByItself'
  BY DEF EndsByItself

LEMMA PauseOutside ==
    ASSUME ~Late, Types, OnTime, Memory, EndsByItself, [Next]_vars,
           \/ Tick \/ AnswerLeaves \/ UNCHANGED vars
           \/ \E e \in Echoes : Send(e) \/ Ingress(e)
           \/ \E job \in Echoes \cup {"turn"} : Load(job)
    PROVE  EndsByItself'
<1>1. CASE Tick
  <2>1. Marker' \in {None, Marker}
    BY <1>1, MarkerSteps
  <2> QED
    BY <1>1, <2>1 DEF Tick, EndsByItself, EchoWaits, Stale
<1>2. CASE AnswerLeaves \/ UNCHANGED vars
  BY <1>2, EndsOn, MarkerSteps DEF AnswerLeaves, vars
<1>3. ASSUME NEW job \in Echoes \cup {"turn"}, Load(job)
      PROVE  EndsByItself'
  <2>1. job # "takeover"
    BY HandoffAssumption
  <2> QED
    BY <1>3, <2>1, EndsOn, MarkerSteps DEF Load
<1>4. ASSUME NEW e \in Echoes, Send(e)
      PROVE  EndsByItself'
  <2>1. \A d \in Echoes : stage[d] = "queued" =>
           stage'[d] = "queued" /\ sentAt'[d] = sentAt[d]
    BY <1>4 DEF Send, Types
  <2>2. Marker' = Marker /\ UNCHANGED <<session, worker>>
    BY <1>4, MarkerSteps DEF Send
  <2>3. Marker # None => Marker \in Echoes
    BY DEF Marker, Types, Marks
  <2> QED
    BY <2>1, <2>2, <2>3 DEF EndsByItself, EchoWaits, Stale
<1>5. ASSUME NEW e \in Echoes, Ingress(e)
      PROVE  EndsByItself'
  <2>1. \A d \in Echoes : stage[d] = "queued" => stage'[d] = "queued"
    BY <1>5 DEF Ingress, Types
  <2>2. /\ Marker' = e /\ stage'[e] = "queued" /\ sentAt[e] = clock
        /\ ~Heard(e)
    BY <1>5, MarkerSteps DEF Ingress, OnTime, Types, Heard
  <2>3. UNCHANGED <<session, worker, sentAt>>
    BY <1>5 DEF Ingress
  <2>4. ASSUME NEW s \in SessionRow, Remembers(s)
        PROVE  ~Stale(s, e)
    BY <2>2, <2>4, Clocks, HandoffAssumption
       DEF Stale, Remembers, RemembersAt, Heard, SessionRow, Times
  <2>5. ~Stale(session, e)
    BY <2>4 DEF Memory, Types
  <2>6. worker.doing = "chat" => ~Stale(worker.view, e)
    BY <2>4, WorkerHolds DEF Memory
  <2> QED
    BY <2>1, <2>2, <2>3, <2>5, <2>6 DEF EndsByItself, EchoWaits, Stale
<1> QED
  BY <1>1, <1>2, <1>3, <1>4, <1>5

LEMMA PauseReply ==
    ASSUME Types, ~races, NoOverlap, EndsByItself, NEW e \in Echoes,
           ProcessReply(e)
    PROVE  EndsByItself'
<1> DEFINE s == worker.loaded
           new == IF ~Stale(s, e) THEN ActivateApp(s, sentAt[e], TRUE)
                  ELSE IF s.resumeEcho = e THEN [s EXCEPT !.resumeEcho = None]
                  ELSE s
<1>1. /\ s = session /\ stage[e] = "queued" /\ session \in SessionRow
      /\ sentAt[e] \in Nat /\ worker' = Free
  BY WorkerHolds, Clocks DEF ProcessReply, Has, NoOverlap, Types
<1>2. new \in SessionRow
  <2>1. ActivateApp(s, sentAt[e], TRUE) \in SessionRow
    BY <1>1, Sessions
  <2>2. [s EXCEPT !.resumeEcho = None] \in SessionRow
    BY <1>1, Sessions
  <2> QED
    BY <1>1, <2>1, <2>2
<1>3. session' = new
  <2>1. session' = Write(s, new)
    BY DEF ProcessReply
  <2> HIDE DEF s, new
  <2> QED
    BY <1>1, <1>2, <2>1, WriteSession
<1>4. CASE ~Stale(s, e)
  <2>1. PICK until \in Nat :
           ActivateApp(s, sentAt[e], TRUE)
              = [human |-> TRUE, app |-> TRUE, until |-> until,
                 resumedAt |-> s.resumedAt, resumeEcho |-> s.resumeEcho]
    BY <1>1, ActivateAppRow
  <2>2. session' = ActivateApp(s, sentAt[e], TRUE)
    BY <1>3, <1>4
  <2>3. until # None
    BY HandoffAssumption
  <2>4. session' = [human |-> TRUE, app |-> TRUE, until |-> until,
                    resumedAt |-> s.resumedAt, resumeEcho |-> s.resumeEcho]
    BY <2>1, <2>2, Zenon
  <2>5. session'.until # None
    BY <2>3, <2>4
  <2> QED
    BY <1>1, <2>5, EndsSo DEF Free
<1>5. CASE Stale(s, e)
  <2>1. /\ new.human = s.human /\ new.until = s.until
        /\ new.resumedAt = s.resumedAt
        /\ new.resumeEcho \in {None, s.resumeEcho}
    <3>1. CASE s.resumeEcho = e
      <4>1. new = [s EXCEPT !.resumeEcho = None]
        BY <1>5, <3>1
      <4> QED
        BY <1>1, <4>1 DEF SessionRow
    <3>2. CASE s.resumeEcho # e
      BY <1>5, <3>2
    <3> QED
      BY <3>1, <3>2
  <2>2. UNCHANGED sentAt /\ stage' = [stage EXCEPT ![e] = "done"]
    BY DEF ProcessReply
  <2>3. ASSUME NEW d \in Echoes, stage[d] = "queued", ~Stale(session, d)
        PROVE  stage'[d] = "queued" /\ ~Stale(session, d)'
    <3>1. d # e
      BY <1>1, <1>5, <2>3
    <3>2. stage'[d] = "queued"
      BY <2>2, <2>3, <3>1 DEF Types
    <3>3. /\ session'.resumedAt = session.resumedAt
          /\ session'.resumeEcho \in {None, session.resumeEcho}
      <4> HIDE DEF new
      <4> QED
        BY <1>1, <1>3, <2>1
    <3> QED
      BY <2>2, <2>3, <3>2, <3>3, HandoffAssumption DEF Stale
  <2>4. session'.human = session.human /\ session'.until = session.until
    <3> HIDE DEF new
    <3> QED
      BY <1>1, <1>3, <2>1
  <2>5. session'.human /\ session'.until = None => EchoWaits(session)'
    BY <2>3, <2>4 DEF EndsByItself, EchoWaits
  <2> QED
    BY <1>1, <2>5 DEF EndsByItself, Free
<1> QED
  BY <1>4, <1>5

LEMMA PauseCommand ==
    ASSUME Types, ~races, NoOverlap, [Next]_vars,
           \/ CommandCommits
           \/ /\ EndsByItself
              /\ (\E e \in Echoes : CommandReads(e)) \/ CommandClears
    PROVE  EndsByItself'
<1>1. CASE CommandCommits
  <2> DEFINE new == resume_ai(worker.loaded, sentAt[worker.job])
  <2>1. /\ worker.loaded = session /\ session \in SessionRow
        /\ sentAt[worker.job] \in Times
    BY <1>1, WorkerHolds, HandoffAssumption
       DEF CommandCommits, NoOverlap, Types, Echoes
  <2>2. session' = Write(session, new) /\ new \in SessionRow
    BY <1>1, <2>1, Sessions DEF CommandCommits
  <2>3. session' = new
    <3> HIDE DEF new
    <3> QED
      BY <2>1, <2>2, WriteSession
  <2>4. ~session'.human
    BY <2>3 DEF resume_ai
  <2>5. worker'.doing = "clear"
    BY <1>1 DEF CommandCommits
  <2> QED
    BY <2>4, <2>5, EndsSo
<1>2. CASE EndsByItself /\ \E e \in Echoes : CommandReads(e)
  BY <1>2, EndsOn, MarkerSteps DEF CommandReads
<1>3. CASE EndsByItself /\ CommandClears
  BY <1>3 DEF CommandClears, EndsByItself, EchoWaits, Stale, Free
<1> QED
  BY <1>1, <1>2, <1>3

LEMMA PauseTurn ==
    ASSUME Types, ~races, NoOverlap, EndsByItself, [Next]_vars,
           ~opened', ~lapsed',
           \/ TurnToHuman \/ TurnAsksHuman \/ TurnBegins \/ ActionCommits
           \/ AgentHandsOff \/ TurnChecks \/ TurnReplies
           \/ TurnIsTakenOver \/ TurnHandsOver
    PROVE  EndsByItself'
<1>1. worker.doing = "job" => /\ worker.loaded = session
                              /\ AtStart \in SessionRow
  BY TurnSessions DEF NoOverlap
<1>2. session \in SessionRow
  BY DEF Types
<1>3. worker.doing = "chat" => ~View.human
  BY DEF View, EndsByItself, NoOverlap
<1>4. ASSUME Marker # None, worker.doing = "job"
      PROVE  AtStart.human /\ AtStart.until # None
  <2>1. worker.loaded \in SessionRow /\ clock \in Nat
    BY <1>4, WorkerHolds, Clocks
  <2>2. PICK until \in Nat :
           ActivateApp(worker.loaded, clock, FALSE)
              = [human |-> TRUE, app |-> TRUE, until |-> until,
                 resumedAt |-> worker.loaded.resumedAt,
                 resumeEcho |-> worker.loaded.resumeEcho]
    BY <2>1, ActivateAppRow
  <2>3. AtStart = ActivateApp(worker.loaded, clock, FALSE)
    BY <1>4 DEF AtStart
  <2>4. AtStart = [human |-> TRUE, app |-> TRUE, until |-> until,
                   resumedAt |-> worker.loaded.resumedAt,
                   resumeEcho |-> worker.loaded.resumeEcho]
    BY <2>2, <2>3, Zenon
  <2>5. until # None
    BY HandoffAssumption
  <2> QED
    BY <2>4, <2>5
<1>5. Marker = None => (worker.doing = "job" => AtStart = session)
  BY <1>1 DEF AtStart
<1>6. CASE TurnToHuman
  <2>1. session' = AtStart
    BY <1>1, <1>2, <1>6, WriteSession DEF TurnToHuman, Has
  <2>2. worker.doing = "job" /\ worker' = Free
    BY <1>6 DEF TurnToHuman, Has
  <2>3. CASE Marker # None
    BY <1>4, <2>1, <2>2, <2>3, EndsSo DEF Free
  <2>4. CASE Marker = None
    BY <1>5, <1>6, <2>1, <2>2, <2>4, EndsOn, MarkerSteps
       DEF TurnToHuman, Free
  <2> QED
    BY <2>3, <2>4
<1>7. ~TurnAsksHuman /\ ~AgentHandsOff
  BY DEF TurnAsksHuman, AgentHandsOff
<1>8. CASE TurnBegins
  <2>1. worker.doing = "job" /\ ~Active(AtStart)
    BY <1>8 DEF TurnBegins, Has
  <2>2. Marker = None
    BY <1>4, <1>8, <2>1 DEF TurnBegins, Active
  <2>3. Marker' = None
    BY <1>8, <2>2, MarkerSteps DEF TurnBegins
  <2>4. ~Settled(AtStart).human /\ Settled(AtStart) \in SessionRow
    BY <1>1, <2>1, Sessions DEF Active, Settled, resume_ai
  <2>5. worker' = [doing |-> "chat", locked |-> TRUE,
                   view |-> Settled(AtStart)]
    BY <1>1, <1>2, <1>8, <2>1, <2>4, WriteSession DEF TurnBegins
  <2>6. UNCHANGED <<session, stage, sentAt>>
    BY <1>8 DEF TurnBegins
  <2> QED
    BY <2>3, <2>4, <2>5, <2>6 DEF EndsByItself, EchoWaits, Stale
<1>9. CASE ActionCommits
  <2>1. worker' = [doing |-> "chat", locked |-> FALSE, view |-> worker.view]
    BY <1>9, ChatIs DEF ActionCommits
  <2>2. session' = worker.view /\ UNCHANGED <<stage, sentAt>>
           /\ Marker' = Marker
    BY <1>9, MarkerSteps DEF ActionCommits
  <2> QED
    BY <1>9, <2>1, <2>2 DEF ActionCommits, EndsByItself, EchoWaits, Stale
<1>10. CASE TurnReplies
  <2>1. session' = worker.view /\ worker' = Free
    BY <1>10 DEF TurnReplies
  <2>2. ~session'.human
    BY <1>10, <2>1, WorkerHolds DEF TurnReplies
  <2> QED
    BY <2>1, <2>2, EndsSo DEF Free
<1>11. CASE TurnIsTakenOver
  <2>1. worker.doing = "chat" /\ Marker # None
    BY <1>3, <1>11 DEF TurnIsTakenOver, Generated, TakenOver, Active
  <2>2. EchoWaits(session)
    BY <2>1 DEF EndsByItself, EchoWaits, Marker, Types, Marks
  <2>3. worker' = [doing |-> "job", job |-> "takeover", loaded |-> session,
                   locked |-> FALSE]
    BY <1>11 DEF TurnIsTakenOver
  <2>4. UNCHANGED <<session, stage, sentAt>>
    BY <1>11 DEF TurnIsTakenOver
  <2> QED
    BY <2>2, <2>3, <2>4 DEF EndsByItself, EchoWaits, Stale
<1>12. CASE TurnHandsOver
  <2>1. worker.doing = "job" /\ worker.job = "takeover"
    BY <1>12 DEF TurnHandsOver, Has
  <2>2. EchoWaits(session)
    BY <1>1, <2>1 DEF EndsByItself
  <2>3. session' = [human |-> TRUE, app |-> FALSE, until |-> None,
                    resumedAt |-> session.resumedAt,
                    resumeEcho |-> session.resumeEcho]
    <3>1. session' = Write(session, ActivateOpen(session))
      BY <1>1, <1>12, <2>1 DEF TurnHandsOver
    <3>2. session' = ActivateOpen(session)
      BY <1>2, <3>1, Sessions, WriteSession
    <3> QED
      BY <1>2, <3>2, ActivateOpenRow
  <2>4. worker' = Free /\ UNCHANGED <<stage, sentAt>>
    BY <1>12 DEF TurnHandsOver
  <2>5. EchoWaits(session)'
    BY <2>2, <2>3, <2>4 DEF EchoWaits, Stale
  <2> QED
    BY <2>4, <2>5 DEF EndsByItself, Free
<1>13. CASE TurnChecks
  BY <1>13, EndsOn, MarkerSteps DEF TurnChecks
<1> QED
  BY <1>6, <1>7, <1>8, <1>9, <1>10, <1>11, <1>12, <1>13

LEMMA PausePortal ==
    ASSUME Types, ~races, NoOverlap, ~opened', [Next]_vars,
           \/ PortalCommits
           \/ EndsByItself /\ (PortalTakesOver \/ PortalReads \/ PortalClears)
    PROVE  EndsByItself'
<1>1. worker = Free /\ worker' = Free
  <2>1. PortalTakesOver \/ PortalReads => worker = Free /\ worker' = worker
    BY DEF PortalTakesOver, PortalReads, PortalMayStart
  <2>2. PortalCommits \/ PortalClears => portal # Free /\ worker' = worker
    BY DEF PortalCommits, PortalClears, Free
  <2> QED
    BY <2>1, <2>2 DEF NoOverlap
<1>2. CASE PortalCommits
  BY <1>1, <1>2, EndsSo DEF PortalCommits, resume_ai, Free
<1>3. CASE EndsByItself /\ (PortalReads \/ PortalClears)
  <2>1. UNCHANGED <<session, stage, sentAt>>
    BY <1>3 DEF PortalReads, PortalClears
  <2> QED
    BY <1>1, <1>3, <2>1 DEF EndsByItself, EchoWaits, Stale, Free
<1>4. ~PortalTakesOver
  BY DEF PortalTakesOver
<1> QED
  BY <1>2, <1>3, <1>4

LEMMA PauseNext ==
    ASSUME ~Late, Types, OnTime, NoOverlap, Memory, PauseInv, [Next]_vars
    PROVE  PauseInv'
<1> SUFFICES ASSUME ~races', ~opened', ~lapsed' PROVE EndsByItself'
  BY DEF PauseInv
<1>0. ~races /\ ~lapsed
  <2>1. ~races
    BY DEF Next, vars, Tick, Send, Ingress, Load, ProcessReply, CommandReads,
           CommandCommits, CommandClears, TurnToHuman, TurnAsksHuman,
           TurnBegins, ActionCommits, AgentHandsOff, TurnChecks, TurnReplies,
           AnswerLeaves, TurnIsTakenOver, TurnHandsOver, PortalTakesOver,
           PortalReads, PortalCommits, PortalClears
  <2>2. ~lapsed
    BY DEF Next, vars, history, Tick, Send, Ingress, Load, ProcessReply,
           CommandReads, CommandCommits, Returned, CommandClears, TurnToHuman,
           TurnAsksHuman, TurnBegins, ActionCommits, AgentHandsOff, TurnChecks,
           TurnReplies, AnswerLeaves, TurnIsTakenOver, TurnHandsOver,
           PortalTakesOver, PortalReads, PortalCommits, PortalClears
  <2> QED
    BY <2>1, <2>2
<1>1. CASE CommandCommits
  BY <1>0, <1>1, PauseCommand
<1>2. CASE PortalCommits
  BY <1>0, <1>2, PausePortal
<1>3. ASSUME ~CommandCommits, ~PortalCommits
      PROVE  EndsByItself
  <2>1. ~opened
    BY <1>3
       DEF Next, vars, history, Tick, Send, Ingress, Load, ProcessReply,
           CommandReads, CommandClears, TurnToHuman, TurnAsksHuman, TurnBegins,
           ActionCommits, AgentHandsOff, TurnChecks, TurnReplies, AnswerLeaves,
           TurnIsTakenOver, TurnHandsOver, PortalTakesOver, PortalReads,
           PortalClears
  <2> QED
    BY <1>0, <2>1 DEF PauseInv
<1> SUFFICES ASSUME ~CommandCommits, ~PortalCommits, EndsByItself
             PROVE  EndsByItself'
  BY <1>1, <1>2, <1>3
<1>4. CASE \/ Tick \/ AnswerLeaves \/ UNCHANGED vars
           \/ \E e \in Echoes : Send(e) \/ Ingress(e)
           \/ \E job \in Echoes \cup {"turn"} : Load(job)
  BY <1>4, PauseOutside
<1>5. ASSUME NEW e \in Echoes, ProcessReply(e)
      PROVE  EndsByItself'
  BY <1>0, <1>5, PauseReply
<1>6. CASE (\E e \in Echoes : CommandReads(e)) \/ CommandClears
  BY <1>0, <1>6, PauseCommand
<1>7. CASE \/ TurnToHuman \/ TurnAsksHuman \/ TurnBegins \/ ActionCommits
           \/ AgentHandsOff \/ TurnChecks \/ TurnReplies
           \/ TurnIsTakenOver \/ TurnHandsOver
  BY <1>0, <1>7, PauseTurn
<1>8. CASE PortalTakesOver \/ PortalReads \/ PortalClears
  BY <1>0, <1>8, PausePortal
<1> QED
  BY <1>4, <1>5, <1>6, <1>7, <1>8 DEF Next

LEMMA PauseInit ==
    ASSUME Init
    PROVE  Memory /\ PauseInv
  BY DEF Init, Memory, Remembers, RemembersAt, PauseInv, EndsByItself, Free

LEMMA PauseAlways ==
    ASSUME ~Late
    PROVE  Spec => [](/\ Types /\ PastOnly /\ OnTime /\ NoOverlap /\ Memory
                      /\ PauseInv)
<1> DEFINE Inv == /\ Types /\ PastOnly /\ OnTime /\ NoOverlap /\ Memory
                  /\ PauseInv
<1>1. Init => Inv
  BY TypesInit, PastInit, OrderInit, PauseInit
<1>2. Inv /\ [Next]_vars => Inv'
  BY TypesNext, PastNext, OnTimeNext, OverlapNext, MemoryNext, PauseNext
<1> QED
  BY <1>1, <1>2, PTL DEF Spec

\* If Meta delivers an echo in the minute it was sent, replies from the
\* Business App alone pause the AI for a bounded time, until a pause runs out
\* while the marker of another reply, waiting or processed before an older
\* one, is still there: a takeover without a deadline that a turn stores on
\* seeing a marker is closed by the echo it saw.
THEOREM FirstPauseEnds ==
    ASSUME ~Late
    PROVE  Spec => []FirstPauseIsBounded
<1>1. PauseInv => FirstPauseIsBounded
  BY DEF PauseInv, FirstPauseIsBounded, EndsByItself, EchoWaits
<1> QED
  BY <1>1, PauseAlways, PTL
=============================================================================
