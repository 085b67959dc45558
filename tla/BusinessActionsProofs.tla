------------------------ MODULE BusinessActionsProofs ------------------------
(***************************************************************************)
(* Proofs about the business requests: nothing is executed again blindly,  *)
(* the slot is never overbooked, and the status of a request is true, for  *)
(* every number of requests, sessions, retries, decisions and crashes.     *)
(***************************************************************************)
EXTENDS BusinessActions, FiniteSetTheorems, TLAPS

-----------------------------------------------------------------------------
(* Rows and sessions.                                                      *)

Fields == {"doing", "req", "was"}

\* A session has loaded a request, or is idle.
Shape ==
    /\ policy \in Policies
    /\ DOMAIN row = Requests /\ DOMAIN session = Sessions
    /\ begun \in [Requests -> Nat] /\ reopened \in [Requests -> Nat]
    /\ \A r \in Requests : "status" \in DOMAIN row[r]
    /\ desk = Idle \/ desk.req \in Requests
    /\ \A s \in Sessions :
          \/ session[s] = Idle
          \/ /\ Fields \subseteq DOMAIN session[s]
             /\ session[s].req \in Requests
             /\ session[s].doing \in Operations \cup {"prepare", "place",
                                                      "call"}
             /\ "status" \in DOMAIN session[s].was
             /\ session[s].was.status # "none"
             /\ row[session[s].req].status # "none"
             /\ session[s].doing \in {"execute", "place"} =>
                   session[s].was.status \in Executable
             /\ session[s].doing = "reschedule" =>
                   session[s].was.status = "confirmed"
             /\ session[s].doing = "place" => lock = s
             /\ session[s].doing = "call" =>
                   /\ "call" \in DOMAIN session[s]
                   /\ session[s].call.op = "execute" =>
                         session[s].was.status = "executing"

\* Whoever works on a request alone has loaded the status it has.
Alone ==
    \A r \in Requests \ overlapped :
        /\ desk.req = r => \A s \in Sessions : ~Has(s, r)
        /\ \A s \in Sessions : Has(s, r) =>
              /\ session[s].was.status = row[r].status
              /\ \A t \in Sessions : Has(t, r) => s = t

\* Save by its effect on the statuses.
LEMMA SaveStatus ==
    ASSUME DOMAIN row = Requests, NEW r \in Requests, NEW was, NEW new,
           Save(r, was, new)
    PROVE  /\ DOMAIN row' = Requests /\ "status" \in DOMAIN row'[r]
           /\ \A q \in Requests \ {r} : row'[q] = row[q]
           /\ row'[r].status = IF new.status = was.status THEN row[r].status
                               ELSE new.status
  BY DEF Save

\* A step of a session: the status it would leave, and what it does next.
Moves(s, to, next) ==
    LET me == session[s]
        r  == session[s].req
    IN  /\ me # Idle
        /\ session' = [session EXCEPT ![s] = next]
        /\ DOMAIN row' = Requests /\ "status" \in DOMAIN row'[r]
        /\ \A q \in Requests \ {r} : row'[q] = row[q]
        /\ row'[r].status = IF to = me.was.status THEN row[r].status ELSE to
        /\ row'[r].status # "none"
        /\ UNCHANGED <<policy, desk, people, overlapped>>
        /\ \A t \in Sessions \ {s} : lock = t => lock' = t
        /\ \/ next = Idle
           \/ /\ Fields \subseteq DOMAIN next /\ next.req = r
              /\ next.was.status = row'[r].status /\ next.doing = "call"
              /\ "call" \in DOMAIN next /\ next.was.status # "none"
              /\ "status" \in DOMAIN next.was
              /\ next.call.op = "execute" => next.was.status = "executing"
           \/ /\ Fields \subseteq DOMAIN next /\ next.req = r
              /\ next.was = me.was /\ UNCHANGED row
              /\ next.doing = "place" /\ me.doing = "execute" /\ lock' = s
              /\ Occupied < Capacity
           \/ /\ Fields \subseteq DOMAIN next /\ next.req = r
              /\ next.was = me.was /\ UNCHANGED row
              /\ next.doing = "call" /\ me.doing = "call"
              /\ "call" \in DOMAIN next /\ next.call = me.call
        /\ \/ UNCHANGED begun
           \/ /\ begun' = [begun EXCEPT ![r] = @ + 1] /\ External
              /\ to = "executing" /\ me.doing \in {"execute", "place"}
              /\ next.doing = "call"
        /\ to \in Executable => to = me.was.status \/ ~External
        /\ Slotted /\ to \in ACTIVE_SLOT_STATUSES =>
              \/ to = me.was.status
              \/ me.was.status \in ACTIVE_SLOT_STATUSES /\ me.doing = "call"
              \/ me.doing = "place"

\* The end of a session: what it saves, and that it is idle afterwards.
LEMMA FinishMoves ==
    ASSUME Shape, NEW s \in Sessions, session[s] # Idle, Finish(s),
           NEW new, Save(session[s].req, session[s].was, new),
           UNCHANGED <<policy, desk, begun, people, overlapped>>,
           UNCHANGED lock \/ Unlock(s), new.status # "none",
           new.status \in Executable =>
              new.status = session[s].was.status \/ ~External,
           Slotted /\ new.status \in ACTIVE_SLOT_STATUSES =>
              \/ new.status = session[s].was.status
              \/ /\ session[s].was.status \in ACTIVE_SLOT_STATUSES
                 /\ session[s].doing = "call"
              \/ session[s].doing = "place"
    PROVE  Moves(s, new.status, Idle)
<1>. DEFINE r == session[s].req
<1>1. r \in Requests /\ DOMAIN row = Requests /\ row[r].status # "none"
  BY DEF Shape
<1>2. /\ DOMAIN row' = Requests /\ "status" \in DOMAIN row'[r]
      /\ \A q \in Requests \ {r} : row'[q] = row[q]
      /\ row'[r].status = IF new.status = session[s].was.status
                          THEN row[r].status ELSE new.status
      /\ row'[r].status # "none"
  BY <1>1, SaveStatus DEF Shape
<1>3. \A t \in Sessions \ {s} : lock = t => lock' = t
  BY DEF Unlock
<1>. QED
  BY <1>2, <1>3 DEF Moves, Finish, Become

LEMMA PlainMoves ==
    ASSUME Shape, NEW s \in Sessions,
           \/ PrepareAgain(s) \/ PlaceWithHuman(s) \/ CancelPlainly(s)
           \/ CallFails(s) \/ CallSucceeds(s) \/ PlaceInside(s)
    PROVE  \E to, next : Moves(s, to, next)
<1>. DEFINE was == session[s].was
<1>0. session[s] # Idle /\ session[s].doing # "nothing"
  BY DEF PrepareAgain, PlaceWithHuman, CancelPlainly, CallFails, Calling,
         CallSucceeds, PlaceInside, Placing, Idle
<1>1. ASSUME PrepareAgain(s) PROVE Moves(s, was.status, Idle)
  <2>. DEFINE new == [was EXCEPT !.details = Blank]
  <2>1. new.status = was.status /\ was.status # "none"
    BY <1>0 DEF Shape
  <2>. QED
    BY <1>0, <1>1, <2>1, FinishMoves DEF PrepareAgain
<1>2. ASSUME PlaceWithHuman(s) PROVE Moves(s, "pending_human", Idle)
  <2>. DEFINE new == [was EXCEPT !.status = "pending_human"]
  <2>1. new.status = "pending_human"
    BY <1>0 DEF Shape
  <2>. QED
    BY <1>0, <1>2, <2>1, FinishMoves
       DEF PlaceWithHuman, Executable, ACTIVE_SLOT_STATUSES
<1>3. ASSUME CancelPlainly(s) PROVE Moves(s, "cancelled", Idle)
  <2>. DEFINE new == [was EXCEPT !.status = "cancelled"]
  <2>1. new.status = "cancelled"
    BY <1>0 DEF Shape
  <2>. QED
    BY <1>0, <1>3, <2>1, FinishMoves
       DEF CancelPlainly, Executable, ACTIVE_SLOT_STATUSES
<1>4. ASSUME CallFails(s) PROVE Moves(s, "external_failed", Idle)
  <2>1. Fails(session[s]).status = "external_failed"
    BY DEF Fails, With
  <2>. QED
    BY <1>0, <1>4, <2>1, FinishMoves
       DEF CallFails, Executable, ACTIVE_SLOT_STATUSES
<1>5. ASSUME CallSucceeds(s)
      PROVE  \E to : Moves(s, to, Idle)
  <2>. DEFINE to  == IF session[s].call.op = "execute" THEN "confirmed"
                                                        ELSE "cancelled"
              new == With(was, to, session[s].call.op, "confirmed")
  <2>1. new.status = to
    BY DEF With
  <2>2. to \notin Executable /\ to # "none"
    BY DEF Executable
  <2>3. to \in ACTIVE_SLOT_STATUSES =>
           was.status \in ACTIVE_SLOT_STATUSES /\ session[s].doing = "call"
    BY <1>0, <1>5 DEF CallSucceeds, Calling, ACTIVE_SLOT_STATUSES, Shape
  <2>4. Save(session[s].req, was, new)
    BY <1>5 DEF CallSucceeds
  <2>. HIDE DEF to, new
  <2>. QED
    BY <1>0, <1>5, <2>1, <2>2, <2>3, <2>4, FinishMoves DEF CallSucceeds
<1>6. ASSUME PlaceInside(s)
      PROVE  \E to : Moves(s, to, Idle)
  <2>. DEFINE to  == IF policy.scheduled THEN "confirmed" ELSE "new"
              new == [was EXCEPT !.status = to]
  <2>1. new.status = to
    BY <1>0 DEF Shape
  <2>2. ~External /\ to # "none"
    BY <1>6 DEF PlaceInside, External
  <2>3. Slotted => session[s].doing = "place"
    BY <1>6 DEF PlaceInside, Placing
  <2>4. Save(session[s].req, was, new)
    BY <1>6 DEF PlaceInside
  <2>. HIDE DEF to, new
  <2>. QED
    BY <1>0, <1>6, <2>1, <2>2, <2>3, <2>4, FinishMoves DEF PlaceInside
<1>. QED
  BY <1>1, <1>2, <1>3, <1>4, <1>5, <1>6

LEMMA CallMoves ==
    ASSUME Shape, NEW s \in Sessions, PlaceOutside(s) \/ CancelOutside(s)
    PROVE  \E to, next : Moves(s, to, next)
<1>. DEFINE me  == session[s]
            r   == session[s].req
<1>1. PICK operation, status :
         /\ BeginCall(s, operation, status)
         /\ \/ /\ operation = "execute" /\ status = "executing" /\ External
               /\ me.doing \in {"execute", "place"}
               /\ (Slotted => me.doing = "place")
            \/ /\ operation = "cancel" /\ status = "cancelling"
               /\ me.doing = "cancel"
  BY DEF PlaceOutside, CancelOutside, Placing
<1>2. me # Idle /\ r \in Requests /\ DOMAIN row = Requests
  BY <1>1 DEF Shape, Idle
<1>. DEFINE new  == With(me.was, status, operation, "executing")
            call == [by |-> s, req |-> r, op |-> operation]
            next == [doing |-> "call", req |-> r, was |-> row'[r],
                     call |-> call, try |-> 1, reply |-> "none"]
<1>3. new.status = status
  BY DEF With
<1>4. /\ DOMAIN row' = Requests /\ "status" \in DOMAIN row'[r]
      /\ \A q \in Requests \ {r} : row'[q] = row[q]
      /\ row'[r].status = IF status = me.was.status
                          THEN row[r].status ELSE status
      /\ row'[r].status # "none"
  BY <1>1, <1>2, <1>3, SaveStatus DEF BeginCall, Shape
<1>5. /\ session' = [session EXCEPT ![s] = next]
      /\ begun' = IF operation = "execute" THEN [begun EXCEPT ![r] = @ + 1]
                                           ELSE begun
      /\ \A t \in Sessions \ {s} : lock = t => lock' = t
  BY <1>1 DEF BeginCall, Become, Unlock
<1>6. /\ Fields \subseteq DOMAIN next /\ next.req = r
      /\ next.was = row'[r] /\ next.doing = "call"
      /\ "call" \in DOMAIN next /\ next.call.op = operation
  BY DEF Fields
<1>7. operation = "execute" => row'[r].status = "executing"
  BY <1>1, <1>2, <1>4 DEF Shape, Executable
<1>8. UNCHANGED <<policy, desk, people, overlapped>>
  BY DEF PlaceOutside, CancelOutside
<1>9. status \notin Executable
      /\ (status \in ACTIVE_SLOT_STATUSES => status = "executing")
  BY <1>1 DEF Executable, ACTIVE_SLOT_STATUSES
<1>. HIDE DEF next
<1>10. Moves(s, status, next)
  BY <1>1, <1>2, <1>4, <1>5, <1>6, <1>7, <1>8, <1>9 DEF Moves
<1>. QED
  BY <1>10

\* The steps that leave the row alone, and the answer of a reschedule.
LEMMA OtherMoves ==
    ASSUME Shape, NEW s \in Sessions,
           TakeSlot(s) \/ Reschedule(s) \/ CallRepeated(s) \/ Crash(s)
    PROVE  \E to, next : Moves(s, to, next)
<1>. DEFINE me  == session[s]
            r   == session[s].req
<1>0. me # Idle
  BY DEF TakeSlot, Reschedule, CallRepeated, Calling, Crash, Idle
<1>1. /\ DOMAIN row = Requests /\ r \in Requests /\ "status" \in DOMAIN row[r]
      /\ row[r].status # "none"
  BY <1>0 DEF Shape
<1>2. ASSUME Finish(s), UNCHANGED <<row, policy, desk, begun, people,
                                    overlapped>>,
             UNCHANGED lock \/ Unlock(s)
      PROVE  Moves(s, me.was.status, Idle)
  <2>1. \A t \in Sessions \ {s} : lock = t => lock' = t
    BY <1>2 DEF Unlock
  <2>. QED
    BY <1>0, <1>1, <1>2, <2>1 DEF Moves, Finish, Become
<1>3. CASE TakeSlot(s) /\ Become(s, [me EXCEPT !.doing = "place"])
           /\ lock' = s
  <2>. DEFINE next == [me EXCEPT !.doing = "place"]
  <2>1. /\ Fields \subseteq DOMAIN next /\ next.req = r
        /\ next.was = me.was /\ next.doing = "place"
    BY <1>0 DEF Shape, Fields
  <2>2. \A t \in Sessions \ {s} : lock = t => lock' = t
    BY <1>3, ActionsAssumption DEF TakeSlot
  <2>3. /\ UNCHANGED <<row, policy, desk, begun, people, overlapped>>
        /\ session' = [session EXCEPT ![s] = next] /\ me.doing = "execute"
        /\ Occupied < Capacity
    <3>1. Occupied < Capacity
      <4>1. CASE ~(Occupied < Capacity)
        <5>1. session' = [session EXCEPT ![s] = Idle]
          BY <1>3, <4>1 DEF TakeSlot, Finish, Become
        <5>2. session'[s] = Idle /\ session'[s] = next
          BY <1>3, <5>1 DEF Become, Shape
        <5>. QED
          BY <2>1, <5>2 DEF Idle
      <4>. QED
        BY <4>1
    <3>. QED
      BY <1>3, <3>1 DEF TakeSlot, Become
  <2>. HIDE DEF next
  <2>4. Moves(s, me.was.status, next)
    BY <1>0, <1>1, <1>3, <2>1, <2>2, <2>3 DEF Moves
  <2>. QED
    BY <2>4
<1>4. CASE TakeSlot(s) /\ Finish(s) /\ UNCHANGED lock
  BY <1>2, <1>4 DEF TakeSlot
<1>5. CASE Reschedule(s)
  <2>. DEFINE new == With(me.was, "confirmed", "reschedule", "confirmed")
  <2>1. new.status = me.was.status /\ new.status # "none"
    BY <1>0, <1>5 DEF With, Reschedule, Shape
  <2>2. CASE Save(r, me.was, new)
    BY <1>0, <1>5, <2>1, <2>2, FinishMoves DEF Reschedule
  <2>3. CASE UNCHANGED row
    BY <1>2, <1>5, <2>3 DEF Reschedule
  <2>. QED
    BY <1>5, <2>2, <2>3 DEF Reschedule
<1>6. CASE CallRepeated(s)
  <2>. DEFINE next == [me EXCEPT !.try = @ + 1, !.reply = "none"]
  <2>1. /\ Fields \subseteq DOMAIN next /\ next.req = r
        /\ next.was = me.was /\ next.doing = "call" /\ me.doing = "call"
        /\ "call" \in DOMAIN next /\ next.call = me.call
    BY <1>0, <1>6 DEF Shape, Fields, CallRepeated, Calling
  <2>2. /\ UNCHANGED <<row, policy, desk, begun, people, overlapped, lock>>
        /\ session' = [session EXCEPT ![s] = next]
    BY <1>6 DEF CallRepeated, Become
  <2>. HIDE DEF next
  <2>3. Moves(s, me.was.status, next)
    BY <1>0, <1>1, <2>1, <2>2 DEF Moves
  <2>. QED
    BY <2>3
<1>7. CASE Crash(s)
  BY <1>2, <1>7 DEF Crash
<1>. QED
  BY <1>3, <1>4, <1>5, <1>6, <1>7 DEF TakeSlot

LEMMA SessionMoves ==
    ASSUME Shape, NEW s \in Sessions, SessionStep(s) \/ Crash(s)
    PROVE  \E to, next : Moves(s, to, next)
  BY PlainMoves, CallMoves, OtherMoves DEF SessionStep

-----------------------------------------------------------------------------
(* The invariant.                                                          *)

AllRegular == \A r \in Requests : Regular(r)

Active == {r \in Requests : row[r].status \in ACTIVE_SLOT_STATUSES}

\* The session that holds the slot finds room in it.
Booked ==
    AllRegular /\ Slotted =>
        /\ Occupied <= Capacity
        /\ (\E s \in Sessions : session[s].doing = "place")
             => Occupied < Capacity

\* The sessions that may still begin to execute r.
Pending(r) ==
    {s \in Sessions : Has(s, r) /\ session[s].doing \in {"execute", "place"}}

Open(r) == row[r].status \in Executable \cup {"none"}

\* While r is open, every execution begun was before it was opened again.
\* Closed, it is begun again only by those that loaded it open.
Fair(r) ==
    LET N == Cardinality(Sessions)
    IN  /\ ~External => begun[r] = 0
        /\ r \notin overlapped =>
              begun[r] <= reopened[r] + (IF Open(r) THEN 0 ELSE 1)
        /\ IF Open(r) THEN begun[r] <= reopened[r] * N
           ELSE begun[r] + Cardinality(Pending(r)) <= (reopened[r] + 1) * N

ActionsInv ==
    Shape /\ Alone /\ Booked /\ \A r \in Requests : Fair(r)

LEMMA PendingCount ==
    ASSUME NEW r
    PROVE  /\ IsFiniteSet(Pending(r)) /\ Cardinality(Pending(r)) \in Nat
           /\ Cardinality(Pending(r)) <= Cardinality(Sessions)
           /\ Cardinality(Sessions) \in Nat
<1>1. IsFiniteSet(Sessions) /\ Pending(r) \subseteq Sessions
  BY ActionsAssumption DEF Pending
<1>. QED
  BY <1>1, FS_Subset, FS_CardinalityType

LEMMA ActiveCount ==
    /\ IsFiniteSet(Active) /\ Occupied = Cardinality(Active)
    /\ Occupied \in Nat
<1>1. IsFiniteSet(Requests) /\ Active \subseteq Requests
  BY ActionsAssumption DEF Active
<1>2. Occupied = Cardinality(Active)
  BY DEF Occupied, Active
<1>. QED
  BY <1>1, <1>2, FS_Subset, FS_CardinalityType

\* Everything but the beginning of an execution.
LEMMA FairKeeps ==
    ASSUME NEW r \in Requests, Fair(r),
           begun \in [Requests -> Nat], reopened \in [Requests -> Nat],
           UNCHANGED policy, begun'[r] = begun[r], reopened'[r] \in Nat,
           overlapped \subseteq overlapped',
           \/ reopened'[r] = reopened[r] /\ (Open(r)' => Open(r))
           \/ reopened'[r] = reopened[r] + 1,
           Open(r) \/ Open(r)' \/ Pending(r)' \subseteq Pending(r)
    PROVE  Fair(r)'
<1>. DEFINE N == Cardinality(Sessions)
            P == Cardinality(Pending(r))
            Q == Cardinality(Pending(r)')
<1>1. N \in Nat /\ P \in Nat /\ Q \in Nat /\ P <= N /\ Q <= N
  <2>1. Pending(r)' \subseteq Sessions
    BY DEF Pending
  <2>. QED
    BY <2>1, PendingCount, ActionsAssumption, FS_Subset, FS_CardinalityType
<1>2. Pending(r)' \subseteq Pending(r) => Q <= P
  BY PendingCount, FS_Subset
<1>3. ~External' => begun'[r] = 0
  BY DEF Fair, External
<1>. DEFINE b == begun[r]  o == reopened[r]  p == reopened'[r]
<1>4. b \in Nat /\ o \in Nat /\ p \in {o, o + 1}
  OBVIOUS
<1>5. r \notin overlapped' => b <= p + (IF Open(r)' THEN 0 ELSE 1)
  BY <1>4 DEF Fair
<1>6. /\ (o + 1) * N = o * N + N /\ (o + 2) * N = o * N + N + N
      /\ o * N \in Nat
  BY <1>1, <1>4
<1>7. IF Open(r)' THEN b <= p * N ELSE b + Q <= (p + 1) * N
  <2>. HIDE DEF N, P, Q, b, o, p
  <2>1. /\ Open(r) => b <= o * N
        /\ ~Open(r) => b + P <= (o + 1) * N
    BY DEF Fair, N, P, b, o
  <2>2. Open(r) \/ Open(r)' \/ Q <= P
    BY <1>2
  <2>3. p = o + 1 \/ (p = o /\ (Open(r)' => Open(r)))
    BY DEF p, o
  <2>. DEFINE oN == o * N
  <2>4. CASE p = o
    <3>1. /\ Open(r)' => b <= oN
          /\ ~Open(r)' => b + Q <= oN + N
      <4>. HIDE DEF oN
      <4>1. Open(r) => b <= oN
        BY <2>1 DEF oN
      <4>2. ~Open(r) => b + P <= oN + N
        BY <1>6, <2>1 DEF oN
      <4>. QED
        BY <1>1, <1>4, <1>6, <2>2, <2>3, <2>4, <4>1, <4>2 DEF oN
    <3>. QED
      BY <1>6, <2>4, <3>1
  <2>5. CASE p = o + 1
    <3>1. b <= oN + N
      BY <1>1, <1>4, <1>6, <2>1
    <3>2. p * N = oN + N /\ (p + 1) * N = oN + N + N
      BY <1>4, <1>6, <2>5
    <3>3. b + Q <= oN + N + N
      BY <1>1, <1>4, <1>6, <3>1
    <3>. QED
      BY <3>1, <3>2, <3>3
  <2>. QED
    BY <1>4, <2>4, <2>5
<1>. QED
  BY <1>3, <1>5, <1>7 DEF Fair, Open

\* An execution begins: r closes, and its session no longer waits to begin.
LEMMA FairBegins ==
    ASSUME NEW r \in Requests, Fair(r),
           begun \in [Requests -> Nat], reopened \in [Requests -> Nat],
           UNCHANGED policy, External, begun'[r] = begun[r] + 1,
           reopened'[r] = reopened[r], overlapped' = overlapped, ~Open(r)',
           r \notin overlapped => Open(r),
           NEW s \in Pending(r), Pending(r)' \subseteq Pending(r) \ {s}
    PROVE  Fair(r)'
<1>. DEFINE N == Cardinality(Sessions)
            P == Cardinality(Pending(r))
            Q == Cardinality(Pending(r)')
            b == begun[r]
            o == reopened[r]
<1>1. N \in Nat /\ P \in Nat /\ P <= N /\ Q \in Nat /\ Q <= P - 1
  <2>1. /\ IsFiniteSet(Pending(r) \ {s})
        /\ Cardinality(Pending(r) \ {s}) = P - 1
    BY PendingCount, FS_RemoveElement
  <2>. QED
    BY <2>1, PendingCount, FS_Subset, FS_CardinalityType
<1>2. b \in Nat /\ o \in Nat /\ (o + 1) * N = o * N + N /\ o * N \in Nat
  <2>1. b \in Nat /\ o \in Nat
    OBVIOUS
  <2>. QED
    BY <1>1, <2>1
<1>3. r \notin overlapped' => b + 1 <= o + 1
  BY <1>2 DEF Fair
<1>4. b + 1 + Q <= (o + 1) * N
  <2>1. CASE Open(r)
    BY <1>1, <1>2, <2>1 DEF Fair
  <2>2. CASE ~Open(r)
    BY <1>1, <1>2, <2>2 DEF Fair
  <2>. QED
    BY <2>1, <2>2
<1>. QED
  BY <1>3, <1>4 DEF Fair, External, Open

\* What the other sessions have loaded is not touched.
LEMMA MovesShape ==
    ASSUME Shape, Alone, NEW s \in Sessions, NEW to, NEW next,
           Moves(s, to, next)
    PROVE  Shape' /\ Alone'
<1>. DEFINE me == session[s]
            r  == session[s].req
<1>1. r \in Requests /\ me # Idle
  BY DEF Moves, Shape
<1>2. /\ \A t \in Sessions : session'[t] = IF t = s THEN next ELSE session[t]
      /\ DOMAIN session' = Sessions
  BY DEF Moves, Shape
<1>3. begun' \in [Requests -> Nat] /\ reopened' \in [Requests -> Nat]
  BY <1>1 DEF Moves, Shape, people
<1>4. \A q \in Requests : "status" \in DOMAIN row'[q]
        /\ (row[q].status # "none" => row'[q].status # "none")
  BY <1>1 DEF Moves, Shape
<1>5. ASSUME NEW t \in Sessions, t # s, session[t] # Idle
      PROVE  /\ Fields \subseteq DOMAIN session'[t]
             /\ session'[t].req \in Requests
             /\ session'[t].doing \in Operations \cup {"prepare", "place",
                                                      "call"}
             /\ "status" \in DOMAIN session'[t].was
             /\ session'[t].was.status # "none"
             /\ row'[session'[t].req].status # "none"
             /\ session'[t].doing \in {"execute", "place"} =>
                   session'[t].was.status \in Executable
             /\ session'[t].doing = "reschedule" =>
                   session'[t].was.status = "confirmed"
             /\ session'[t].doing = "place" => lock' = t
             /\ session'[t].doing = "call" =>
                   /\ "call" \in DOMAIN session'[t]
                   /\ session'[t].call.op = "execute" =>
                         session'[t].was.status = "executing"
  BY <1>2, <1>4, <1>5 DEF Shape, Moves
<1>6. ASSUME next # Idle
      PROVE  /\ Fields \subseteq DOMAIN next
             /\ next.req = r
             /\ next.doing \in {"place", "call"}
             /\ "status" \in DOMAIN next.was
             /\ next.was.status # "none"
             /\ row'[r].status # "none"
             /\ next.doing = "place" => next.was.status \in Executable
             /\ next.doing = "place" => lock' = s
             /\ next.doing = "call" =>
                   /\ "call" \in DOMAIN next
                   /\ next.call.op = "execute" =>
                         next.was.status = "executing"
  BY <1>1, <1>6 DEF Moves, Shape
<1>7. Shape'
  BY <1>1, <1>2, <1>3, <1>4, <1>5, <1>6 DEF Shape, Moves
<1>8. Alone'
  <2>. SUFFICES ASSUME NEW q \in Requests \ overlapped
                PROVE  /\ desk.req = q => \A t \in Sessions : ~Has(t, q)'
                       /\ \A t \in Sessions : Has(t, q)' =>
                            /\ session'[t].was.status = row'[q].status
                            /\ \A u \in Sessions : Has(u, q)' => t = u
    BY DEF Alone, Moves
  <2>1. \A t \in Sessions : Has(t, q)' => Has(t, q)
    BY <1>1, <1>2, <1>6, ActionsAssumption DEF Has, Idle
  <2>2. ASSUME NEW t \in Sessions, Has(t, q)'
        PROVE  session'[t].was.status = row'[q].status
    <3>1. Has(t, q) /\ session[t].was.status = row[q].status
      BY <2>1, <2>2 DEF Alone
    <3>2. CASE t = s
      <4>1. next # Idle /\ q = r
        BY <1>2, <2>2, <3>1, <3>2, ActionsAssumption DEF Has, Idle
      <4>. QED
        BY <1>2, <3>1, <3>2, <4>1 DEF Moves
    <3>3. CASE t # s
      <4>1. q # r
        BY <3>1, <3>3, <1>1 DEF Alone, Has
      <4>. QED
        BY <1>2, <3>1, <3>3, <4>1 DEF Moves
    <3>. QED
      BY <3>2, <3>3
  <2>. QED
    BY <2>1, <2>2 DEF Alone
<1>. QED
  BY <1>7, <1>8

\* The slot: a request becomes active only through the session that has it.
LEMMA MovesBooked ==
    ASSUME Shape, Alone, Booked, NEW s \in Sessions, NEW to, NEW next,
           Moves(s, to, next)
    PROVE  Booked'
<1>. DEFINE me == session[s]
            r  == session[s].req
<1>. SUFFICES ASSUME AllRegular', Slotted'
              PROVE  /\ Occupied' <= Capacity
                     /\ (\E t \in Sessions : session'[t].doing = "place")
                          => Occupied' < Capacity
  BY DEF Booked
<1>1. /\ AllRegular /\ Slotted /\ r \in Requests /\ me # Idle
      /\ r \notin overlapped
  BY DEF Moves, AllRegular, Regular, Slotted, people, Shape
<1>2. Occupied <= Capacity /\ Occupied \in Nat /\ Capacity \in Nat
  BY <1>1, ActiveCount, ActionsAssumption DEF Booked
<1>3. /\ \A t \in Sessions : session'[t] = IF t = s THEN next ELSE session[t]
      /\ \A q \in Requests \ {r} : row'[q] = row[q]
  BY DEF Moves, Shape
<1>4. /\ IsFiniteSet(Active') /\ Occupied' = Cardinality(Active')
      /\ Occupied' \in Nat
  <2>1. Active' \subseteq Requests
    BY DEF Active
  <2>2. Occupied' = Cardinality(Active')
    BY DEF Occupied, Active
  <2>. QED
    BY <2>1, <2>2, ActionsAssumption, FS_Subset, FS_CardinalityType
<1>5. me.was.status = row[r].status
  BY <1>1 DEF Alone, Has
<1>6. CASE me.doing = "place"
  <2>1. Occupied < Capacity
    BY <1>1, <1>6 DEF Booked
  <2>2. Occupied' <= Occupied + 1
    <3>1. Active' \subseteq Active \cup {r}
      BY <1>3 DEF Active
    <3>2. IsFiniteSet(Active \cup {r})
          /\ Cardinality(Active \cup {r}) <= Occupied + 1
      BY ActiveCount, FS_AddElement
    <3>3. Cardinality(Active \cup {r}) \in Nat
      BY <3>2, FS_CardinalityType
    <3>. QED
      BY <1>2, <1>4, <3>1, <3>2, <3>3, FS_Subset
  <2>3. \A t \in Sessions : session'[t].doing # "place"
    <3>1. \A t \in Sessions \ {s} : session[t].doing # "place"
      BY <1>1, <1>6, ActionsAssumption DEF Shape, Idle
    <3>2. next.doing # "place"
      BY <1>6 DEF Moves, Idle
    <3>. QED
      BY <1>3, <3>1, <3>2
  <2>. QED
    BY <1>2, <1>4, <2>1, <2>2, <2>3
<1>7. CASE me.doing # "place"
  <2>1. Active' \subseteq Active
    <3>1. row'[r].status \in ACTIVE_SLOT_STATUSES
            => row[r].status \in ACTIVE_SLOT_STATUSES
      BY <1>1, <1>5, <1>7 DEF Moves
    <3>. QED
      BY <1>3, <3>1 DEF Active
  <2>2. Occupied' <= Occupied
    BY <2>1, ActiveCount, <1>4, FS_Subset
  <2>3. (\E t \in Sessions : session'[t].doing = "place")
          => Occupied < Capacity
    BY <1>1, <1>3 DEF Booked, Moves, Idle
  <2>. QED
    BY <1>2, <1>4, <2>2, <2>3
<1>. QED
  BY <1>6, <1>7

LEMMA MovesFair ==
    ASSUME Shape, Alone, NEW s \in Sessions, NEW to, NEW next,
           Moves(s, to, next), NEW r \in Requests, Fair(r)
    PROVE  Fair(r)'
<1>. DEFINE me == session[s]
            q  == session[s].req
<1>1. /\ \A t \in Sessions : session'[t] = IF t = s THEN next ELSE session[t]
      /\ DOMAIN session' = Sessions
  BY DEF Moves, Shape
<1>2. /\ UNCHANGED <<policy, overlapped, reopened>>
      /\ begun \in [Requests -> Nat] /\ reopened \in [Requests -> Nat]
      /\ q \in Requests /\ me # Idle
  BY DEF Moves, people, Shape
<1>3. Pending(r)' \subseteq Pending(r)
  <2>1. \A t \in Sessions \ {s} : t \in Pending(r)' => t \in Pending(r)
    BY <1>1 DEF Pending, Has
  <2>2. s \in Pending(r)' => s \in Pending(r)
    BY <1>1, <1>2, ActionsAssumption DEF Pending, Has, Moves, Idle
  <2>. QED
    BY <2>1, <2>2 DEF Pending
<1>4. r # q => (row'[r] = row[r] /\ begun'[r] = begun[r])
  BY <1>2 DEF Moves
<1>5. CASE r # q
  <2>1. Open(r)' => Open(r)
    BY <1>4, <1>5 DEF Open
  <2>. QED
    BY <1>2, <1>3, <1>4, <1>5, <2>1, FairKeeps
<1>6. CASE r = q /\ UNCHANGED begun
  <2>1. CASE External
    <3>1. Open(r)' => Open(r)
      BY <1>6, <2>1 DEF Open, Moves
    <3>. QED
      BY <1>2, <1>3, <1>6, <3>1, FairKeeps
  <2>2. CASE ~External
    <3>1. begun'[r] = 0
      BY <1>6, <2>2 DEF Fair
    <3>2. 0 <= reopened[r] * Cardinality(Sessions)
      <4>1. reopened[r] \in Nat /\ Cardinality(Sessions) \in Nat
        BY <1>2, PendingCount
      <4>. QED
        BY <4>1
    <3>3. Cardinality(Pending(r)')
            <= (reopened[r] + 1) * Cardinality(Sessions)
      <4>1. Cardinality(Pending(r)') \in Nat /\
            Cardinality(Pending(r)') <= Cardinality(Sessions)
        <5>1. Pending(r)' \subseteq Sessions
          BY DEF Pending
        <5>. QED
          BY <5>1, ActionsAssumption, FS_Subset, FS_CardinalityType
      <4>2. reopened[r] \in Nat /\ Cardinality(Sessions) \in Nat
        BY <1>2, PendingCount
      <4>3. (reopened[r] + 1) * Cardinality(Sessions)
              = reopened[r] * Cardinality(Sessions) + Cardinality(Sessions)
        BY <4>2
      <4>. QED
        BY <3>2, <4>1, <4>2, <4>3
    <3>4. Cardinality(Pending(r)') \in Nat /\ reopened[r] \in Nat
      <4>1. Pending(r)' \subseteq Sessions
        BY DEF Pending
      <4>. QED
        BY <1>2, <4>1, ActionsAssumption, FS_Subset, FS_CardinalityType
    <3>. QED
      BY <1>2, <3>1, <3>2, <3>3, <3>4 DEF Fair, Open
  <2>. QED
    BY <2>1, <2>2
<1>7. CASE r = q /\ ~UNCHANGED begun
  <2>1. /\ begun' = [begun EXCEPT ![q] = @ + 1] /\ External
        /\ to = "executing" /\ me.doing \in {"execute", "place"}
        /\ next.doing = "call"
    BY <1>7 DEF Moves
  <2>2. me.was.status \in Executable
    BY <1>2, <2>1 DEF Shape
  <2>3. ~Open(r)'
    BY <1>7, <2>1, <2>2 DEF Moves, Open, Executable
  <2>4. s \in Pending(r)
    BY <1>7, <2>1 DEF Pending, Has
  <2>5. Pending(r)' \subseteq Pending(r) \ {s}
    BY <1>1, <1>3, <2>1 DEF Pending
  <2>6. r \notin overlapped => Open(r)
    BY <1>7, <2>2 DEF Alone, Has, Open
  <2>. QED
    BY <1>2, <1>7, <2>1, <2>3, <2>4, <2>5, <2>6, FairBegins
<1>. QED
  BY <1>5, <1>6, <1>7

\* The steps that no status and no session's work depends on: an answer of the
\* other system, a receipt.
Quiet ==
    /\ UNCHANGED <<policy, lock, desk, begun, people, overlapped>>
    /\ DOMAIN row' = Requests /\ DOMAIN session' = Sessions
    /\ \A r \in Requests : "status" \in DOMAIN row'[r]
                           /\ row'[r].status = row[r].status
    /\ \A s \in Sessions :
          \/ session'[s] = session[s]
          \/ /\ session[s] # Idle
             /\ DOMAIN session'[s] = DOMAIN session[s]
             /\ session'[s].doing = session[s].doing
             /\ session'[s].req = session[s].req
             /\ session'[s].was = session[s].was
             /\ session'[s].call = session[s].call

LEMMA AnswerQuiet ==
    ASSUME Shape, NEW call, NEW reply, Answer(call, reply)
    PROVE  /\ DOMAIN session' = Sessions
           /\ \A s \in Sessions :
                \/ session'[s] = session[s]
                \/ /\ session[s] # Idle
                   /\ DOMAIN session'[s] = DOMAIN session[s]
                   /\ session'[s].doing = session[s].doing
                   /\ session'[s].req = session[s].req
                   /\ session'[s].was = session[s].was
                   /\ session'[s].call = session[s].call
<1>1. CASE call.by = Nobody
  BY <1>1 DEF Answer, Shape
<1>2. CASE call.by # Nobody
  <2>1. session' = [session EXCEPT ![call.by].reply = reply]
    BY <1>2 DEF Answer
  <2>2. ASSUME NEW s \in Sessions, s = call.by, session[s] = Idle
        PROVE  session'[s] = Idle
    BY <2>1, <2>2 DEF Shape, Idle
  <2>. QED
    BY <2>1, <2>2 DEF Shape
<1>. QED
  BY <1>1, <1>2

LEMMA WorldQuiet ==
    ASSUME Shape,
           \/ \E call \in wire : Arrives(call) \/ HookLoads(call)
           \/ \E h \in hooks : HookEnds(h)
           \/ UNCHANGED vars
    PROVE  Quiet
<1>1. ASSUME NEW call \in wire, Arrives(call) PROVE Quiet
  <2>1. \E reply : Answer(call, reply)
    BY <1>1 DEF Arrives
  <2>. QED
    BY <1>1, <2>1, AnswerQuiet DEF Arrives, Quiet, Shape
<1>2. ASSUME NEW call \in wire, HookLoads(call) PROVE Quiet
  <2>1. CASE \E reply : Answer(call, reply)
    BY <1>2, <2>1, AnswerQuiet DEF HookLoads, Quiet, Shape
  <2>2. CASE UNCHANGED session
    BY <1>2, <2>2 DEF HookLoads, Quiet, Shape
  <2>. QED
    BY <1>2, <2>1, <2>2 DEF HookLoads
<1>3. ASSUME NEW h \in hooks, HookEnds(h) PROVE Quiet
  <2>1. \E reply : Answer(h.call, reply)
    BY <1>3 DEF HookEnds
  <2>2. /\ DOMAIN row' = Requests
        /\ \A r \in Requests : "status" \in DOMAIN row'[r]
                               /\ row'[r].status = row[r].status
    <3>. DEFINE r   == h.call.req
                new == [h.was EXCEPT !.details.receipt = h.call.op]
    <3>1. CASE Save(r, h.was, new)
      <4>1. new.status = h.was.status
        OBVIOUS
      <4>2. row' = [row EXCEPT ![r] =
                      [status  |-> row[r].status,
                       details |-> IF new.details = h.was.details
                                   THEN row[r].details ELSE new.details]]
        BY <3>1, <4>1 DEF Save
      <4>. QED
        BY <4>2 DEF Shape
    <3>2. CASE UNCHANGED row
      BY <3>2 DEF Shape
    <3>. QED
      BY <1>3, <3>1, <3>2 DEF HookEnds
  <2>. QED
    BY <1>3, <2>1, <2>2, AnswerQuiet DEF HookEnds, Quiet
<1>4. CASE UNCHANGED vars
  BY <1>4 DEF vars, people, Quiet, Shape
<1>. QED
  BY <1>1, <1>2, <1>3, <1>4

LEMMA QuietKeeps == ASSUME ActionsInv, Quiet PROVE ActionsInv'
<1>1. Shape'
  <2>1. ASSUME NEW s \in Sessions, session[s] = Idle
        PROVE  session'[s] = Idle
    BY <2>1 DEF Quiet
  <2>2. ASSUME NEW s \in Sessions, session[s] # Idle
        PROVE  /\ Fields \subseteq DOMAIN session'[s]
               /\ session'[s].doing = session[s].doing
               /\ session'[s].req = session[s].req
               /\ session'[s].was = session[s].was
               /\ session'[s].call = session[s].call
               /\ DOMAIN session'[s] = DOMAIN session[s]
    BY <2>2 DEF Quiet, ActionsInv, Shape
  <2>. QED
    BY <2>1, <2>2 DEF Quiet, ActionsInv, Shape, people
<1>2. \A s \in Sessions : /\ session'[s].doing = session[s].doing
                          /\ session'[s].req = session[s].req
                          /\ session'[s].was = session[s].was
  BY DEF Quiet
<1>3. Alone'
  BY <1>2 DEF Quiet, ActionsInv, Alone, Has
<1>4. Booked'
  <2>1. Occupied' = Occupied
    BY DEF Quiet, Occupied
  <2>2. (AllRegular' <=> AllRegular) /\ (Slotted' <=> Slotted)
    BY DEF Quiet, AllRegular, Regular, people, Slotted
  <2>. QED
    BY <1>2, <2>1, <2>2 DEF ActionsInv, Booked
<1>5. ASSUME NEW r \in Requests PROVE Fair(r)'
  <2>1. Pending(r)' = Pending(r)
    BY <1>2 DEF Pending, Has
  <2>. QED
    BY <2>1 DEF Quiet, people, ActionsInv, Fair, Open, External
<1>. QED
  BY <1>1, <1>3, <1>4, <1>5 DEF ActionsInv

-----------------------------------------------------------------------------
(* Requests that are prepared and loaded.                                  *)

LEMMA PrepareKeeps ==
    ASSUME ActionsInv, NEW r \in Requests, Prepare(r) PROVE ActionsInv'
<1>1. /\ UNCHANGED <<policy, lock, session, desk, begun, people, overlapped>>
      /\ row[r].status = "none" /\ DOMAIN row' = Requests
      /\ row'[r].status = "awaiting_confirmation"
      /\ "status" \in DOMAIN row'[r]
      /\ \A q \in Requests \ {r} : row'[q] = row[q]
  BY DEF Prepare, ActionsInv, Shape
<1>2. \A s \in Sessions : ~Has(s, r)
  BY <1>1, ActionsAssumption DEF ActionsInv, Shape, Has, Idle
<1>3. Shape'
  BY <1>1 DEF ActionsInv, Shape, people
<1>4. Alone'
  BY <1>1, <1>2 DEF ActionsInv, Alone, Has
<1>5. Booked'
  <2>1. \A q \in Requests : row'[q].status \in ACTIVE_SLOT_STATUSES
                              <=> row[q].status \in ACTIVE_SLOT_STATUSES
    BY <1>1 DEF ACTIVE_SLOT_STATUSES
  <2>2. Occupied' = Occupied
    BY <2>1 DEF Occupied
  <2>3. (AllRegular' <=> AllRegular) /\ (Slotted' <=> Slotted)
    BY <1>1 DEF AllRegular, Regular, people, Slotted
  <2>. QED
    BY <1>1, <2>2, <2>3 DEF ActionsInv, Booked
<1>6. ASSUME NEW q \in Requests PROVE Fair(q)'
  <2>1. Pending(q)' = Pending(q)
    BY <1>1 DEF Pending, Has
  <2>2. Open(q)' <=> Open(q)
    BY <1>1 DEF Open, Executable
  <2>. QED
    BY <1>1, <2>1, <2>2, FairKeeps DEF ActionsInv, Shape, people
<1>. QED
  BY <1>3, <1>4, <1>5, <1>6 DEF ActionsInv

LEMMA LoadKeeps ==
    ASSUME ActionsInv, NEW s \in Sessions, NEW r \in Requests,
           NEW operation \in Operations \cup {"prepare"}, Load(s, r, operation)
    PROVE  ActionsInv'
<1>. DEFINE next == [doing |-> operation, req |-> r, was |-> row[r]]
<1>1. /\ UNCHANGED <<policy, row, lock, desk, begun, people>>
      /\ session' = [session EXCEPT ![s] = next] /\ session[s] = Idle
      /\ overlapped' = IF Busy(r) THEN overlapped \cup {r} ELSE overlapped
  BY DEF Load, Overlap, Become
<1>2. /\ row[r].status # "none"
      /\ operation = "execute" => row[r].status \in Executable
      /\ operation = "reschedule" => row[r].status = "confirmed"
  <2>1. CASE operation = "prepare"
    BY <2>1 DEF Load
  <2>2. CASE operation = "execute"
    BY <2>2 DEF Load, MayExecute, Executable
  <2>3. CASE operation = "cancel"
    BY <2>3 DEF Load, MayCancel
  <2>4. CASE operation = "reschedule"
    BY <2>4 DEF Load
  <2>. QED
    BY <2>1, <2>2, <2>3, <2>4 DEF Operations
<1>3. /\ next.doing = operation /\ next.req = r /\ next.was = row[r]
      /\ Fields \subseteq DOMAIN next
      /\ operation \notin {"place", "call"}
  BY DEF Fields, Operations
<1>. HIDE DEF next
<1>4. /\ \A t \in Sessions : session'[t] = IF t = s THEN next ELSE session[t]
      /\ DOMAIN session' = Sessions
  BY <1>1 DEF ActionsInv, Shape
<1>5. Shape'
  BY <1>1, <1>2, <1>3, <1>4 DEF ActionsInv, Shape, people
<1>6. Alone'
  <2>. SUFFICES ASSUME NEW q \in Requests, q \notin overlapped'
                PROVE  /\ desk.req = q => \A t \in Sessions : ~Has(t, q)'
                       /\ \A t \in Sessions : Has(t, q)' =>
                            /\ session'[t].was.status = row[q].status
                            /\ \A u \in Sessions : Has(u, q)' => t = u
    BY <1>1 DEF Alone
  <2>1. CASE q = r
    <3>1. desk.req # r /\ \A t \in Sessions : ~Has(t, r)
      BY <1>1, <2>1 DEF Busy
    <3>. QED
      BY <1>3, <1>4, <2>1, <3>1 DEF Has
  <2>2. CASE q # r
    <3>1. q \notin overlapped
      BY <1>1
    <3>. QED
      BY <1>3, <1>4, <2>2, <3>1 DEF ActionsInv, Alone, Has
  <2>. QED
    BY <2>1, <2>2
<1>7. Booked'
  <2>1. (AllRegular' => AllRegular) /\ (Slotted' <=> Slotted)
    BY <1>1 DEF AllRegular, Regular, people, Slotted
  <2>2. Occupied' = Occupied
    BY <1>1 DEF Occupied
  <2>3. (\E t \in Sessions : session'[t].doing = "place")
          => \E t \in Sessions : session[t].doing = "place"
    BY <1>3, <1>4
  <2>. QED
    BY <2>1, <2>2, <2>3 DEF ActionsInv, Booked
<1>8. ASSUME NEW q \in Requests PROVE Fair(q)'
  <2>1. Open(q)' <=> Open(q)
    BY <1>1 DEF Open
  <2>2. Open(q) \/ Pending(q)' \subseteq Pending(q)
    <3>1. CASE Open(q)
      BY <3>1
    <3>2. CASE ~Open(q)
      <4>1. \A t \in Sessions : t \in Pending(q)' => t \in Pending(q)
        BY <1>2, <1>3, <1>4, <3>2 DEF Pending, Has, Open
      <4>. QED
        BY <4>1 DEF Pending
    <3>. QED
      BY <3>1, <3>2
  <2>. QED
    BY <1>1, <2>1, <2>2, FairKeeps DEF ActionsInv, Shape, people
<1>. QED
  BY <1>5, <1>6, <1>7, <1>8 DEF ActionsInv

-----------------------------------------------------------------------------
(* People.                                                                 *)

LEMMA DeskLoadsKeeps ==
    ASSUME ActionsInv, NEW r \in Requests, DeskLoads(r) PROVE ActionsInv'
<1>1. /\ UNCHANGED <<policy, row, lock, session, begun, people>>
      /\ desk'.req = r
      /\ overlapped' = IF Busy(r) THEN overlapped \cup {r} ELSE overlapped
  BY DEF DeskLoads, Overlap
<1>2. Shape'
  BY <1>1 DEF ActionsInv, Shape, people
<1>3. Alone'
  BY <1>1 DEF ActionsInv, Alone, Has, Busy
<1>4. Booked'
  <2>1. (AllRegular' => AllRegular) /\ (Slotted' <=> Slotted)
    BY <1>1 DEF AllRegular, Regular, people, Slotted
  <2>2. Occupied' = Occupied
    BY <1>1 DEF Occupied
  <2>. QED
    BY <1>1, <2>1, <2>2 DEF ActionsInv, Booked
<1>5. ASSUME NEW q \in Requests PROVE Fair(q)'
  <2>1. (Open(q)' <=> Open(q)) /\ Pending(q)' = Pending(q)
    BY <1>1 DEF Open, Pending, Has
  <2>. QED
    BY <1>1, <2>1, FairKeeps DEF ActionsInv, Shape, people
<1>. QED
  BY <1>2, <1>3, <1>4, <1>5 DEF ActionsInv

\* A person sets the status of a request nobody is working on, or of one that
\* is known to be worked on.
LEMMA DecideKeeps ==
    ASSUME ActionsInv, NEW r \in Requests, NEW status, Decide(r, status),
           status # "none", UNCHANGED <<policy, lock, session, begun>>,
           DOMAIN row' = Requests, "status" \in DOMAIN row'[r],
           row'[r].status \in {row[r].status, status},
           \A q \in Requests \ {r} : row'[q] = row[q],
           desk' \in {desk, Idle}, overlapped \subseteq overlapped',
           r \in overlapped' \/ \A s \in Sessions : ~Has(s, r)
    PROVE  ActionsInv'
<1>1. /\ touched' = touched \cup {r}
      /\ reopened' = IF status \in Executable
                     THEN [reopened EXCEPT ![r] = @ + 1] ELSE reopened
  BY DEF Decide
<1>2. Shape'
  <2>1. reopened' \in [Requests -> Nat]
    BY <1>1 DEF ActionsInv, Shape
  <2>2. \A q \in Requests : "status" \in DOMAIN row'[q]
           /\ (row[q].status # "none" => row'[q].status # "none")
    BY DEF ActionsInv, Shape
  <2>3. desk' = Idle \/ desk'.req \in Requests
    BY DEF ActionsInv, Shape
  <2>. QED
    BY <2>1, <2>2, <2>3 DEF ActionsInv, Shape
<1>3. Alone'
  BY ActionsAssumption DEF ActionsInv, Alone, Has, Idle
<1>4. Booked'
  BY <1>1 DEF Booked, AllRegular, Regular
<1>5. ASSUME NEW q \in Requests PROVE Fair(q)'
  <2>1. Pending(q)' = Pending(q)
    BY DEF Pending, Has
  <2>2. \/ reopened'[q] = reopened[q] /\ (Open(q)' => Open(q))
        \/ reopened'[q] = reopened[q] + 1
    BY <1>1 DEF Open, ActionsInv, Shape
  <2>3. reopened'[q] \in Nat
    BY <1>2 DEF Shape
  <2>. QED
    BY <2>1, <2>2, <2>3, FairKeeps DEF ActionsInv, Shape
<1>. QED
  BY <1>2, <1>3, <1>4, <1>5 DEF ActionsInv

LEMMA PeopleKeep ==
    ASSUME ActionsInv,
           \/ DeskWrites
           \/ \E r \in Requests : Reconcile(r) \/ AdminSets(r)
    PROVE  ActionsInv'
<1>1. ASSUME NEW r \in Requests, Reconcile(r) PROVE ActionsInv'
  <2>0. \A a, b, c : /\ With(row[r], a, b, c).status = a
                     /\ "status" \in DOMAIN With(row[r], a, b, c)
    BY DEF With
  <2>1. PICK new \in {With(row[r], "confirmed", "execute", "confirmed"),
                      With(row[r], "cancelled", "cancel", "confirmed"),
                      With(row[r], "new", row[r].details.operation,
                           "reconciled_not_executed")} :
            Decide(r, new.status) /\ row' = [row EXCEPT ![r] = new]
    BY <1>1 DEF Reconcile
  <2>2. UNCHANGED <<policy, lock, session, begun, desk>>
        /\ overlapped' = IF Busy(r) THEN overlapped \cup {r} ELSE overlapped
    BY <1>1 DEF Reconcile, Overlap
  <2>3. r \in overlapped' \/ \A s \in Sessions : ~Has(s, r)
    BY <2>2 DEF Busy
  <2>4. /\ DOMAIN row' = Requests /\ row'[r] = new
        /\ \A q \in Requests \ {r} : row'[q] = row[q]
    BY <2>1 DEF ActionsInv, Shape
  <2>5. new.status # "none" /\ "status" \in DOMAIN new
    BY <2>0, <2>1
  <2>. QED
    BY <2>1, <2>2, <2>3, <2>4, <2>5, DecideKeeps
<1>2. ASSUME NEW r \in Requests, AdminSets(r) PROVE ActionsInv'
  <2>1. PICK status \in ByPeople \cup {"awaiting_confirmation"} :
          /\ Decide(r, status)
          /\ row' = [row EXCEPT ![r].status = status]
    BY <1>2 DEF AdminSets
  <2>2. UNCHANGED <<policy, lock, session, begun, desk>>
        /\ overlapped' = IF Busy(r) THEN overlapped \cup {r} ELSE overlapped
    BY <1>2 DEF AdminSets, Overlap
  <2>3. r \in overlapped' \/ \A s \in Sessions : ~Has(s, r)
    BY <2>2 DEF Busy
  <2>4. /\ DOMAIN row' = Requests /\ row'[r].status = status
        /\ "status" \in DOMAIN row'[r]
        /\ \A q \in Requests \ {r} : row'[q] = row[q]
    BY <2>1 DEF ActionsInv, Shape
  <2>5. status # "none"
    BY PeopleAssumption DEF ALLOWED_STATUSES
  <2>. QED
    BY <2>1, <2>2, <2>3, <2>4, <2>5, DecideKeeps
<1>3. CASE DeskWrites
  <2>. DEFINE r == desk.req
  <2>1. PICK status \in ByPeople :
          /\ Decide(r, status)
          /\ row' = IF status = desk.was THEN row
                    ELSE [row EXCEPT ![r].status = status]
    BY <1>3 DEF DeskWrites
  <2>2. UNCHANGED <<policy, lock, session, begun, overlapped>>
        /\ desk' = Idle /\ r \in Requests
    BY <1>3 DEF DeskWrites, ActionsInv, Shape
  <2>3. r \in overlapped' \/ \A s \in Sessions : ~Has(s, r)
    BY <2>2 DEF ActionsInv, Alone
  <2>4. /\ DOMAIN row' = Requests
        /\ row'[r].status \in {row[r].status, status}
        /\ "status" \in DOMAIN row'[r]
        /\ \A q \in Requests \ {r} : row'[q] = row[q]
    BY <2>1, <2>2 DEF ActionsInv, Shape
  <2>5. status # "none"
    BY PeopleAssumption DEF ALLOWED_STATUSES
  <2>. QED
    BY <2>1, <2>2, <2>3, <2>4, <2>5, DecideKeeps
<1>. QED
  BY <1>1, <1>2, <1>3

-----------------------------------------------------------------------------
(* The theorems.                                                           *)

LEMMA ActionsInit == Init => ActionsInv
<1>. SUFFICES ASSUME Init PROVE ActionsInv
  OBVIOUS
<1>1. Shape /\ Alone
  BY ActionsAssumption DEF Init, Shape, Alone, Has, Idle
<1>2. Booked
  <2>1. Active = {}
    BY DEF Init, Active, ACTIVE_SLOT_STATUSES
  <2>2. Occupied = 0
    BY <2>1, ActiveCount, FS_EmptySet
  <2>. QED
    BY <2>2, ActionsAssumption DEF Booked, Init, Idle
<1>3. ASSUME NEW r \in Requests PROVE Fair(r)
  BY <1>1, PendingCount DEF Init, Fair, Open
<1>. QED
  BY <1>1, <1>2, <1>3 DEF ActionsInv

LEMMA ActionsStep == ActionsInv /\ [Next]_vars => ActionsInv'
<1>. SUFFICES ASSUME ActionsInv, [Next]_vars PROVE ActionsInv'
  OBVIOUS
<1>1. ASSUME NEW s \in Sessions, SessionStep(s) \/ Crash(s)
      PROVE  ActionsInv'
  <2>1. PICK to, next : Moves(s, to, next)
    BY <1>1, SessionMoves DEF ActionsInv
  <2>2. Shape' /\ Alone' /\ Booked'
    BY <2>1, MovesShape, MovesBooked DEF ActionsInv
  <2>3. \A r \in Requests : Fair(r)'
    BY <2>1, MovesFair DEF ActionsInv
  <2>. QED
    BY <2>2, <2>3 DEF ActionsInv
<1>2. ASSUME NEW r \in Requests, Prepare(r) PROVE ActionsInv'
  BY <1>2, PrepareKeeps
<1>3. ASSUME NEW r \in Requests, DeskLoads(r) PROVE ActionsInv'
  BY <1>3, DeskLoadsKeeps
<1>4. ASSUME NEW r \in Requests, Reconcile(r) \/ AdminSets(r)
      PROVE  ActionsInv'
  BY <1>4, PeopleKeep
<1>5. ASSUME NEW s \in Sessions, NEW r \in Requests,
             NEW operation \in Operations \cup {"prepare"},
             Load(s, r, operation)
      PROVE  ActionsInv'
  BY <1>5, LoadKeeps
<1>6. CASE DeskWrites
  BY <1>6, PeopleKeep
<1>7. CASE \/ \E call \in wire : Arrives(call) \/ HookLoads(call)
           \/ \E h \in hooks : HookEnds(h)
           \/ UNCHANGED vars
  BY <1>7, WorldQuiet, QuietKeeps DEF ActionsInv
<1>. QED
  BY <1>1, <1>2, <1>3, <1>4, <1>5, <1>6, <1>7 DEF Next

\* Nothing is executed again blindly (NoBlindRetry): however turns overlap,
\* calls are lost or late and sessions die, an execution begins again only
\* after a person made the request executable, or in a session that loaded it
\* before.
THEOREM NothingIsRetriedBlindly == Spec => []NoBlindRetry
<1>1. ActionsInv => NoBlindRetry
  <2>. SUFFICES ASSUME ActionsInv, NEW r \in Requests
                PROVE  begun[r] <= (1 + reopened[r])
                         * (IF r \in overlapped THEN Cardinality(Sessions)
                                                ELSE 1)
    BY DEF NoBlindRetry
  <2>1. /\ begun[r] \in Nat /\ reopened[r] \in Nat /\ Fair(r)
        /\ Cardinality(Sessions) \in Nat /\ Cardinality(Pending(r)) \in Nat
    BY PendingCount DEF ActionsInv, Shape
  <2>2. CASE r \notin overlapped
    BY <2>1, <2>2 DEF Fair
  <2>3. CASE r \in overlapped
    <3>. DEFINE N == Cardinality(Sessions)
                o == reopened[r]
    <3>1. (o + 1) * N = o * N + N /\ (1 + o) * N = o * N + N
      BY <2>1
    <3>2. begun[r] <= o * N + N
      BY <2>1, <3>1 DEF Fair
    <3>. QED
      BY <2>3, <3>1, <3>2
  <2>. QED
    BY <2>2, <2>3
<1>. QED
  BY <1>1, ActionsInit, ActionsStep, PTL DEF Spec

\* The slot is never overbooked (NoOverbooking), as long as nobody sets a
\* status by hand and no two actors work on one request.
THEOREM TheSlotIsNotOverbooked == Spec => []NoOverbooking
<1>1. ActionsInv => NoOverbooking
  BY DEF ActionsInv, Booked, AllRegular, NoOverbooking
<1>. QED
  BY <1>1, ActionsInit, ActionsStep, PTL DEF Spec

-----------------------------------------------------------------------------
(* Types.                                                                  *)

States == {"none", "executing", "external_failed", "confirmed",
           "reconciled_not_executed"}
Details == [operation : Operations \cup {"none"}, state : States,
            receipt : {"none", "execute", "cancel"}]
Rows == [status : Statuses, details : Details]
Calls == [by : Sessions \cup {Nobody}, req : Requests,
          op : {"execute", "cancel"}]
Hooks == [call : Calls, was : Rows]
Loaded == [doing : Operations \cup {"prepare", "place"}, req : Requests,
           was : Rows]
Callers == [doing : {"call"}, req : Requests, was : Rows, call : Calls,
            try : Nat, reply : {"none", "yes", "no"}]

Types ==
    /\ policy \in Policies
    /\ row \in [Requests -> Rows]
    /\ events \subseteq Requests \X {"confirmed", "new"}
    /\ lock \in Sessions \cup {Nobody}
    /\ session \in [Sessions -> {Idle} \cup Loaded \cup Callers]
    /\ wire \subseteq Calls /\ hooks \subseteq Hooks
    /\ desk = Idle \/ desk.req \in Requests
    /\ executed \in [Requests -> Nat] /\ reversed \in [Requests -> Nat]
    /\ begun \in [Requests -> Nat] /\ reopened \in [Requests -> Nat]
    /\ touched \cup overlapped \cup orphaned \subseteq Requests

\* What With makes of a row.
LEMMA WithType ==
    ASSUME NEW was \in Rows, NEW status \in Statuses,
           NEW op \in Operations \cup {"none"}, NEW state \in States
    PROVE  LET new == With(was, status, op, state)
           IN /\ new \in Rows /\ new.status = status
              /\ new.details.operation = op /\ new.details.state = state
              /\ new.details.receipt = was.details.receipt
  BY DEF With, Rows, Details

\* Save by its effect on the rows.
LEMMA SaveRow ==
    ASSUME row \in [Requests -> Rows], NEW r \in Requests, NEW was \in Rows,
           NEW new \in Rows, Save(r, was, new)
    PROVE  /\ row' \in [Requests -> Rows]
           /\ \A q \in Requests \ {r} : row'[q] = row[q]
           /\ row'[r].status = IF new.status = was.status THEN row[r].status
                               ELSE new.status
           /\ row'[r].details = IF new.details = was.details
                                THEN row[r].details ELSE new.details
<1>. DEFINE n == [status  |-> IF new.status = was.status THEN row[r].status
                              ELSE new.status,
                  details |-> IF new.details = was.details
                              THEN row[r].details ELSE new.details]
<1>1. n \in Rows
  BY DEF Rows
<1>2. row' = [row EXCEPT ![r] = n]
  BY DEF Save
<1> HIDE DEF n
<1>3. row'[r] = n
  BY <1>2
<1> QED
  BY <1>1, <1>2, <1>3 DEF n

\* What a session has, by what it does.
LEMMA KindOf ==
    ASSUME Types, NEW s \in Sessions
    PROVE  /\ Idle.doing = "nothing" /\ Idle.req = Nobody
           /\ session[s].doing = "call" => session[s] \in Callers
           /\ session[s].doing \in Operations \cup {"prepare", "place"} =>
                 session[s] \in Loaded
           /\ session[s] # Idle => session[s] \in Loaded \cup Callers
<1>1. Idle.doing = "nothing" /\ Idle.req = Nobody
  BY DEF Idle
<1>2. session[s] \in {Idle} \cup Loaded \cup Callers
  BY DEF Types
<1> QED
  BY <1>1, <1>2 DEF Loaded, Callers, Operations

\* The slot is held by a session or by nobody.
LEMMA UnlockType ==
    ASSUME Types, NEW s \in Sessions, Unlock(s) \/ UNCHANGED lock
    PROVE  lock' \in Sessions \cup {Nobody}
  BY DEF Types, Unlock

\* A session ends, having saved or not.
LEMMA FinishTypes ==
    ASSUME Types, NEW s \in Sessions, Finish(s),
           row' \in [Requests -> Rows], wire' \subseteq Calls,
           hooks' \subseteq Hooks,
           events' \subseteq Requests \X {"confirmed", "new"},
           Unlock(s) \/ UNCHANGED lock, orphaned' \subseteq Requests,
           UNCHANGED <<policy, desk, outside, begun, people, overlapped>>
    PROVE  Types'
<1>1. session' \in [Sessions -> {Idle} \cup Loaded \cup Callers]
  BY DEF Types, Finish, Become
<1>2. lock' \in Sessions \cup {Nobody}
  BY UnlockType
<1> QED
  BY <1>1, <1>2 DEF Types, outside, people

\* Calls nobody waits for are calls.
LEMMA GiveUpTypes ==
    ASSUME Types, NEW s \in Sessions, GiveUp(s)
    PROVE  wire' \subseteq Calls /\ hooks' \subseteq Hooks
<1>1. \A c \in Calls : Late(c) \in Calls
  BY DEF Late, Calls
<1>2. wire' \subseteq Calls
  BY <1>1 DEF GiveUp, Types
<1>3. ASSUME NEW h \in Hooks
      PROVE  [h EXCEPT !.call = Late(@)] \in Hooks
  <2>1. h.call \in Calls
    BY DEF Hooks
  <2> QED
    BY <1>1, <2>1 DEF Hooks
<1>4. hooks' \subseteq Hooks
  BY <1>3 DEF GiveUp, Types
<1> QED
  BY <1>2, <1>4

\* A session saves into the rows.
LEMMA SaveEnds ==
    ASSUME Types, NEW s \in Sessions, session[s] # Idle, NEW new,
           new \in Rows, Save(session[s].req, session[s].was, new)
    PROVE  row' \in [Requests -> Rows]
<1>1. session[s].req \in Requests /\ session[s].was \in Rows
  BY KindOf DEF Loaded, Callers
<1> QED
  BY <1>1, SaveRow DEF Types

\* The steps of a session keep the types.
LEMMA SessionTypes ==
    ASSUME Types, NEW s \in Sessions, SessionStep(s) \/ Crash(s)
    PROVE  Types'
<1>. DEFINE me == session[s]
<1> USE DEF outside, people
<1>1. me # Idle
  BY DEF SessionStep, PrepareAgain, TakeSlot, PlaceInside, PlaceWithHuman,
         PlaceOutside, CancelPlainly, CancelOutside, Reschedule, CallSucceeds,
         CallRepeated, CallFails, Crash, Placing, Calling, Idle
<1>2. me.req \in Requests /\ me.was \in Rows
  BY <1>1, KindOf DEF Loaded, Callers
<1>3. /\ row \in [Requests -> Rows] /\ wire \subseteq Calls
      /\ hooks \subseteq Hooks /\ orphaned \subseteq Requests
      /\ events \subseteq Requests \X {"confirmed", "new"}
  BY DEF Types
<1>4. \A status \in Statuses : [me.was EXCEPT !.status = status] \in Rows
  BY <1>2 DEF Rows
<1>5. {"pending_human", "cancelled", "confirmed", "new", "executing",
       "cancelling", "external_failed"} \subseteq Statuses
  BY DEF Statuses, Unresolved, Executable, ALLOWED_STATUSES
<1>6. CASE PrepareAgain(s)
  <2>1. Blank \in Details
    BY DEF Blank, Details, States
  <2>2. [me.was EXCEPT !.details = Blank] \in Rows
    BY <1>2, <2>1 DEF Rows
  <2> QED
    BY <1>1, <1>3, <1>6, <2>2, SaveEnds, FinishTypes DEF PrepareAgain
<1>7. CASE TakeSlot(s)
  <2>1. me \in Loaded
    BY <1>7, KindOf DEF TakeSlot, Operations
  <2>2. [me EXCEPT !.doing = "place"] \in Loaded
    BY <2>1 DEF Loaded
  <2>3. CASE lock' = s /\ Become(s, [me EXCEPT !.doing = "place"])
    <3>1. session' \in [Sessions -> {Idle} \cup Loaded \cup Callers]
      BY <2>2, <2>3 DEF Become, Types
    <3> QED
      BY <1>7, <2>3, <3>1 DEF TakeSlot, Types
  <2>4. CASE Finish(s) /\ UNCHANGED lock
    BY <1>3, <1>7, <2>4, FinishTypes DEF TakeSlot
  <2> QED
    BY <1>7, <2>3, <2>4 DEF TakeSlot
<1>8. CASE PlaceInside(s)
  <2>. DEFINE to  == IF policy.scheduled THEN "confirmed" ELSE "new"
              new == [me.was EXCEPT !.status = to]
  <2>1. new \in Rows /\ new.status = to
    BY <1>2, <1>4, <1>5 DEF Rows
  <2>2. /\ Save(me.req, me.was, new)
        /\ events' = events \cup {<<me.req, new.status>>}
    BY <1>8 DEF PlaceInside
  <2>3. events' \subseteq Requests \X {"confirmed", "new"}
    BY <1>2, <1>3, <2>1, <2>2
  <2> HIDE DEF new
  <2>4. row' \in [Requests -> Rows]
    BY <1>1, <2>1, <2>2, SaveEnds
  <2> QED
    BY <1>3, <1>8, <2>3, <2>4, FinishTypes DEF PlaceInside
<1>9. CASE PlaceWithHuman(s)
  BY <1>1, <1>3, <1>4, <1>5, <1>9, SaveEnds, FinishTypes DEF PlaceWithHuman
<1>10. CASE CancelPlainly(s)
  BY <1>1, <1>3, <1>4, <1>5, <1>10, SaveEnds, FinishTypes DEF CancelPlainly
<1>11. CASE PlaceOutside(s) \/ CancelOutside(s)
  <2>1. PICK op \in {"execute", "cancel"},
             status \in {"executing", "cancelling"} :
                BeginCall(s, op, status)
    BY <1>11 DEF PlaceOutside, CancelOutside
  <2>. DEFINE new  == With(me.was, status, op, "executing")
              call == [by |-> s, req |-> me.req, op |-> op]
              next == [doing |-> "call", req |-> me.req,
                       was |-> row'[me.req], call |-> call, try |-> 1,
                       reply |-> "none"]
  <2>2. new \in Rows
    <3>1. op \in Operations /\ status \in Statuses /\ "executing" \in States
      BY <1>5 DEF Operations, States
    <3> QED
      BY <1>2, <3>1, WithType
  <2>3. row' \in [Requests -> Rows]
    BY <1>1, <2>1, <2>2, SaveEnds DEF BeginCall
  <2>4. call \in Calls
    BY <1>2 DEF Calls
  <2>5. next \in Callers
    BY <1>2, <2>3, <2>4 DEF Callers
  <2>6. begun' \in [Requests -> Nat]
    BY <1>2, <2>1 DEF BeginCall, Types
  <2>7. session' \in [Sessions -> {Idle} \cup Loaded \cup Callers]
    BY <2>1, <2>5 DEF BeginCall, Become, Types
  <2>8. wire' \subseteq Calls /\ lock' \in Sessions \cup {Nobody}
    BY <1>3, <2>1, <2>4, UnlockType DEF BeginCall
  <2>9. UNCHANGED <<policy, events, hooks, desk, outside, people, overlapped,
                    orphaned>>
    BY <1>11 DEF PlaceOutside, CancelOutside
  <2> HIDE DEF new, call, next
  <2> QED
    BY <2>3, <2>6, <2>7, <2>8, <2>9 DEF Types
<1>12. CASE Reschedule(s)
  <2>1. With(me.was, "confirmed", "reschedule", "confirmed") \in Rows
    BY <1>2, <1>5, WithType DEF Operations, States
  <2>2. row' \in [Requests -> Rows]
    BY <1>1, <1>3, <1>12, <2>1, SaveEnds DEF Reschedule
  <2> QED
    BY <1>3, <1>12, <2>2, FinishTypes DEF Reschedule
<1>13. CASE CallSucceeds(s)
  <2>1. me \in Callers
    BY <1>13, KindOf DEF CallSucceeds, Calling
  <2>2. me.call.op \in Operations
    BY <2>1 DEF Callers, Calls, Operations
  <2>3. With(me.was, IF me.call.op = "execute" THEN "confirmed"
                                               ELSE "cancelled",
             me.call.op, "confirmed") \in Rows
    BY <1>2, <1>5, <2>2, WithType DEF States
  <2>4. row' \in [Requests -> Rows]
    BY <1>1, <1>13, <2>3, SaveEnds DEF CallSucceeds
  <2> QED
    BY <1>3, <1>13, <2>4, FinishTypes DEF CallSucceeds
<1>14. CASE CallRepeated(s)
  <2>1. me \in Callers
    BY <1>14, KindOf DEF CallRepeated, Calling
  <2>2. /\ me.call \in Calls
        /\ [me EXCEPT !.try = @ + 1, !.reply = "none"] \in Callers
    <3>1. me.try \in Nat /\ me.call \in Calls
      BY <2>1 DEF Callers
    <3>2. me.try + 1 \in Nat
      BY <3>1
    <3> QED
      BY <2>1, <3>1, <3>2 DEF Callers
  <2>3. session' \in [Sessions -> {Idle} \cup Loaded \cup Callers]
    BY <1>14, <2>2 DEF CallRepeated, Become, Types
  <2>4. \A c \in Calls : Late(c) \in Calls
    BY DEF Late, Calls
  <2>5. wire' \subseteq Calls
    BY <1>3, <1>14, <2>2, <2>4 DEF CallRepeated
  <2>6. ASSUME NEW h \in Hooks
        PROVE  [h EXCEPT !.call = Late(@)] \in Hooks
    <3>1. h.call \in Calls
      BY DEF Hooks
    <3> QED
      BY <2>4, <3>1 DEF Hooks
  <2>7. hooks' \subseteq Hooks
    BY <1>3, <1>14, <2>6 DEF CallRepeated
  <2> QED
    BY <1>14, <2>3, <2>5, <2>7 DEF CallRepeated, Types
<1>15. CASE CallFails(s)
  <2>1. me \in Callers
    BY <1>15, KindOf DEF CallFails, Calling
  <2>2. me.call.op \in Operations
    BY <2>1 DEF Callers, Calls, Operations
  <2>3. Fails(me) \in Rows
    BY <1>2, <1>5, <2>2, WithType DEF States, Fails
  <2>4. row' \in [Requests -> Rows]
    BY <1>1, <1>15, <2>3, SaveEnds DEF CallFails
  <2> QED
    BY <1>3, <1>15, <2>4, GiveUpTypes, FinishTypes DEF CallFails
<1>16. CASE Crash(s)
  <2>1. orphaned' \subseteq Requests
    BY <1>2, <1>3, <1>16 DEF Crash
  <2> QED
    BY <1>3, <1>16, <2>1, GiveUpTypes, FinishTypes DEF Crash
<1> QED
  BY <1>6, <1>7, <1>8, <1>9, <1>10, <1>11, <1>12, <1>13, <1>14, <1>15, <1>16
     DEF SessionStep

\* The answer changes what its sender has, if it still waits.
LEMMA AnswerTypes ==
    ASSUME Types, NEW call \in Calls, NEW reply \in {"yes", "no"},
           call.by # Nobody => session[call.by] \in Callers,
           Answer(call, reply)
    PROVE  session' \in [Sessions -> {Idle} \cup Loaded \cup Callers]
<1>1. CASE call.by = Nobody
  BY <1>1 DEF Answer, Types
<1>2. CASE call.by # Nobody
  <2>1. call.by \in Sessions
    BY <1>2 DEF Calls
  <2>2. session[call.by] \in Callers
    BY <1>2
  <2>3. [session[call.by] EXCEPT !.reply = reply] \in Callers
    BY <2>2 DEF Callers
  <2>4. session' = [session EXCEPT ![call.by] =
                       [session[call.by] EXCEPT !.reply = reply]]
    BY <1>2 DEF Answer
  <2> QED
    BY <2>1, <2>3, <2>4 DEF Types
<1> QED
  BY <1>1, <1>2

\* The effect of a call, by what it may become.
LEMMA EffectTypes ==
    ASSUME Types, NEW r \in Requests, NEW op, TakesEffect(r, op)
    PROVE  /\ executed' \in [Requests -> Nat]
           /\ reversed' \in [Requests -> Nat]
           /\ \A q \in Requests \ {r} : /\ executed'[q] = executed[q]
                                        /\ reversed'[q] = reversed[q]
           /\ IF op = "cancel"
              THEN executed'[r] = executed[r] /\ reversed'[r] = executed[r]
              ELSE /\ reversed'[r] = reversed[r]
                   /\ executed'[r] = IF policy.idempotent /\ executed[r] > 0
                                     THEN executed[r] ELSE executed[r] + 1
  BY DEF Types, TakesEffect

\* The other system and the callbacks keep the types.
LEMMA WorldTypes ==
    ASSUME Types,
           \A c \in wire : c.by # Nobody => session[c.by] \in Callers,
           \A h \in hooks : h.call.by # Nobody =>
                               session[h.call.by] \in Callers,
           \/ \E call \in wire : Arrives(call) \/ HookLoads(call)
           \/ \E h \in hooks : HookEnds(h)
    PROVE  Types'
<1> USE DEF outside, people
<1>0. /\ row \in [Requests -> Rows] /\ wire \subseteq Calls
      /\ hooks \subseteq Hooks
      /\ session \in [Sessions -> {Idle} \cup Loaded \cup Callers]
      /\ executed \in [Requests -> Nat] /\ reversed \in [Requests -> Nat]
  BY DEF Types
<1>1. ASSUME NEW call \in wire, Arrives(call)
      PROVE  Types'
  <2>1. call \in Calls /\ call.req \in Requests
    BY <1>0 DEF Calls
  <2>2. PICK reply \in {"yes", "no"} : Answer(call, reply)
    BY <1>1 DEF Arrives
  <2>3. session' \in [Sessions -> {Idle} \cup Loaded \cup Callers]
    BY <2>1, <2>2, AnswerTypes
  <2>4. executed' \in [Requests -> Nat] /\ reversed' \in [Requests -> Nat]
    BY <1>0, <1>1, <2>1, EffectTypes DEF Arrives
  <2> QED
    BY <1>0, <1>1, <2>3, <2>4 DEF Arrives, Types
<1>2. ASSUME NEW call \in wire, HookLoads(call)
      PROVE  Types'
  <2>1. call \in Calls /\ call.req \in Requests
    BY <1>0 DEF Calls
  <2>2. [call |-> call, was |-> row[call.req]] \in Hooks
    BY <1>0, <2>1 DEF Hooks
  <2>3. session' \in [Sessions -> {Idle} \cup Loaded \cup Callers]
    BY <1>0, <1>2, <2>1, AnswerTypes DEF HookLoads
  <2> QED
    BY <1>0, <1>2, <2>2, <2>3 DEF HookLoads, Types
<1>3. ASSUME NEW h \in hooks, HookEnds(h)
      PROVE  Types'
  <2>. DEFINE new == [h.was EXCEPT !.details.receipt = h.call.op]
  <2>1. /\ h.call \in Calls /\ h.call.req \in Requests /\ h.was \in Rows
        /\ h.call.op \in {"execute", "cancel"}
    BY <1>0 DEF Hooks, Calls
  <2>2. new \in Rows
    BY <2>1 DEF Rows, Details
  <2>3. PICK reply \in {"yes", "no"} : Answer(h.call, reply)
    BY <1>3 DEF HookEnds
  <2>4. session' \in [Sessions -> {Idle} \cup Loaded \cup Callers]
    BY <2>1, <2>3, AnswerTypes
  <2>5. CASE /\ TakesEffect(h.call.req, h.call.op)
             /\ Save(h.call.req, h.was, new)
    <3> HIDE DEF new
    <3>1. row' \in [Requests -> Rows]
      BY <1>0, <2>1, <2>2, <2>5, SaveRow
    <3>2. executed' \in [Requests -> Nat] /\ reversed' \in [Requests -> Nat]
      BY <2>1, <2>5, EffectTypes
    <3> QED
      BY <1>0, <1>3, <2>4, <3>1, <3>2 DEF HookEnds, Types
  <2>6. CASE UNCHANGED <<outside, row>>
    BY <1>0, <1>3, <2>4, <2>6 DEF HookEnds, Types
  <2> QED
    BY <1>3, <2>5, <2>6 DEF HookEnds
<1> QED
  BY <1>1, <1>2, <1>3

\* People, and sessions that load a request, keep the types.
LEMMA PeopleTypes ==
    ASSUME Types,
           \/ \E r \in Requests : \/ Prepare(r) \/ Reconcile(r)
                                  \/ DeskLoads(r) \/ AdminSets(r)
           \/ \E s \in Sessions, r \in Requests :
                 \E operation \in Operations \cup {"prepare"} :
                    Load(s, r, operation)
           \/ DeskWrites
    PROVE  Types'
<1> USE DEF outside, people
<1>0. /\ row \in [Requests -> Rows] /\ reopened \in [Requests -> Nat]
      /\ touched \cup overlapped \cup orphaned \subseteq Requests
  BY DEF Types
<1>1. \A r \in Requests, status \in Statuses :
         [row EXCEPT ![r].status = status] \in [Requests -> Rows]
  <2>1. \A q \in Rows, status \in Statuses : [q EXCEPT !.status = status]
                                                \in Rows
    BY DEF Rows
  <2> QED
    BY <1>0, <2>1
<1>2. ByPeople \cup {"awaiting_confirmation"} \subseteq Statuses
  BY PeopleAssumption DEF Statuses, Executable
<1>3. ASSUME NEW r \in Requests, Overlap(r)
      PROVE  overlapped' \subseteq Requests
  BY <1>0, <1>3 DEF Overlap
<1>4. ASSUME NEW r \in Requests, NEW status, Decide(r, status)
      PROVE  touched' \subseteq Requests /\ reopened' \in [Requests -> Nat]
  BY <1>0, <1>4 DEF Decide
<1>5. ASSUME NEW r \in Requests, Prepare(r)
      PROVE  Types'
  BY <1>0, <1>1, <1>2, <1>5 DEF Prepare, Types
<1>6. ASSUME NEW r \in Requests, Reconcile(r)
      PROVE  Types'
  <2>1. PICK new \in {With(row[r], "confirmed", "execute", "confirmed"),
                      With(row[r], "cancelled", "cancel", "confirmed"),
                      With(row[r], "new", row[r].details.operation,
                           "reconciled_not_executed")} :
            Decide(r, new.status) /\ row' = [row EXCEPT ![r] = new]
    BY <1>6 DEF Reconcile
  <2>2. /\ row[r] \in Rows /\ row[r].details.operation
                                  \in Operations \cup {"none"}
        /\ {"confirmed", "cancelled", "new"} \subseteq Statuses
        /\ {"confirmed", "reconciled_not_executed"} \subseteq States
        /\ {"execute", "cancel"} \subseteq Operations
    BY <1>0 DEF Rows, Details, Statuses, Executable, ALLOWED_STATUSES,
                States, Operations
  <2>3. new \in Rows
    <3>1. /\ With(row[r], "confirmed", "execute", "confirmed") \in Rows
          /\ With(row[r], "cancelled", "cancel", "confirmed") \in Rows
          /\ With(row[r], "new", row[r].details.operation,
                  "reconciled_not_executed") \in Rows
      BY <2>2, WithType
    <3> QED
      BY <2>1, <3>1
  <2>4. row' \in [Requests -> Rows]
    BY <1>0, <2>1, <2>3
  <2> QED
    BY <1>3, <1>4, <1>6, <2>1, <2>4 DEF Reconcile, Types
<1>7. ASSUME NEW r \in Requests, DeskLoads(r)
      PROVE  Types'
  <2>1. overlapped' \subseteq Requests /\ desk'.req = r
    BY <1>3, <1>7 DEF DeskLoads
  <2> QED
    BY <1>7, <2>1 DEF DeskLoads, Types
<1>8. ASSUME NEW r \in Requests, AdminSets(r)
      PROVE  Types'
  <2>1. PICK status \in ByPeople \cup {"awaiting_confirmation"} :
           Decide(r, status) /\ row' = [row EXCEPT ![r].status = status]
    BY <1>8 DEF AdminSets
  <2>2. row' \in [Requests -> Rows]
    BY <1>1, <1>2, <2>1
  <2> QED
    BY <1>3, <1>4, <1>8, <2>1, <2>2 DEF AdminSets, Types
<1>9. CASE DeskWrites
  <2>1. PICK status \in ByPeople :
           /\ Decide(desk.req, status)
           /\ row' = IF status = desk.was THEN row
                     ELSE [row EXCEPT ![desk.req].status = status]
    BY <1>9 DEF DeskWrites
  <2>2. desk.req \in Requests
    BY <1>9 DEF DeskWrites, Types
  <2>3. row' \in [Requests -> Rows]
    BY <1>0, <1>1, <1>2, <2>1, <2>2
  <2> QED
    BY <1>4, <1>9, <2>1, <2>2, <2>3 DEF DeskWrites, Types
<1>10. ASSUME NEW s \in Sessions, NEW r \in Requests,
              NEW operation \in Operations \cup {"prepare"},
              Load(s, r, operation)
       PROVE  Types'
  <2>1. [doing |-> operation, req |-> r, was |-> row[r]] \in Loaded
    BY <1>0 DEF Loaded
  <2>2. session' \in [Sessions -> {Idle} \cup Loaded \cup Callers]
    BY <1>10, <2>1 DEF Load, Become, Types
  <2> QED
    BY <1>3, <1>10, <2>2 DEF Load, Types
<1> QED
  BY <1>5, <1>6, <1>7, <1>8, <1>9, <1>10

-----------------------------------------------------------------------------
(* Calls and those who wait for them.                                      *)

Flies(c) == c \in wire \/ \E h \in hooks : h.call = c

\* The sender of a call still waits for it.
Awaited(c) ==
    LET me == session[c.by]
    IN  me.doing = "call" /\ me.call = c /\ me.reply = "none"

\* A call is on its way to its sender just once.
Owned ==
    /\ \A s \in Sessions : session[s].doing = "call" =>
          /\ session[s].call.by = s /\ session[s].call.req = session[s].req
          /\ External
    /\ \A c \in wire : c.by # Nobody => /\ Awaited(c)
                                        /\ \A h \in hooks : h.call # c
    /\ \A h \in hooks : h.call.by # Nobody =>
          Awaited(h.call) /\ \A g \in hooks : g.call = h.call => g = h
    /\ policy.route # "native" => hooks = {}
    /\ ~External =>
          wire = {} /\ \A r \in Requests : executed[r] = 0 /\ reversed[r] = 0

\* Who waits for a call has the record of one.
LEMMA AwaitedCalls ==
    ASSUME Types, Owned
    PROVE  /\ \A c \in wire : c.by # Nobody => session[c.by] \in Callers
           /\ \A h \in hooks : h.call.by # Nobody =>
                                  session[h.call.by] \in Callers
<1>1. ASSUME NEW c \in Calls, c.by # Nobody, Awaited(c)
      PROVE  session[c.by] \in Callers
  BY <1>1, KindOf DEF Calls, Awaited
<1>2. wire \subseteq Calls /\ \A h \in hooks : h.call \in Calls
  BY DEF Types, Hooks
<1> QED
  BY <1>1, <1>2 DEF Owned

\* Every step keeps the types.
LEMMA TypesStep ==
    ASSUME Types, Owned, [Next]_vars
    PROVE  Types'
<1>1. CASE UNCHANGED vars
  BY <1>1 DEF vars, outside, people, Types
<1> QED
  BY <1>1, SessionTypes, WorldTypes, PeopleTypes, AwaitedCalls DEF Next

\* A session that calls, and its call.
LEMMA CallOfSession ==
    ASSUME Types, Owned, NEW s \in Sessions, Calling(s)
    PROVE  /\ session[s] \in Callers /\ session[s].call \in Calls
           /\ session[s].call.by = s /\ session[s].call.req = session[s].req
           /\ session[s].req \in Requests /\ session[s].was \in Rows
           /\ s # Nobody /\ External
  BY KindOf, ActionsAssumption DEF Calling, Owned, Callers

\* A session that does not call ends, or one whose calls were given up.
LEMMA SilentOwned ==
    ASSUME Types, Owned, NEW s \in Sessions, NEW next,
           session' = [session EXCEPT ![s] = next],
           next.doing # "call",
           \A c \in wire' : (c \in wire /\ c.by # s) \/ c.by = Nobody,
           \A h \in hooks' : (h \in hooks /\ h.call.by # s)
                                \/ h.call.by = Nobody,
           hooks = {} => hooks' = {}, wire = {} => wire' = {},
           UNCHANGED <<policy, outside>>
    PROVE  Owned'
<1> USE DEF outside
<1>1. \A t \in Sessions : session'[t] = IF t = s THEN next ELSE session[t]
  BY DEF Types
<1>2. External' <=> External
  BY DEF External
<1>3. ASSUME NEW c, c \in wire', c.by # Nobody
      PROVE  Awaited(c)' /\ \A h \in hooks' : h.call # c
  <2>1. c \in wire /\ c.by # s /\ c.by \in Sessions
    BY <1>3 DEF Types, Calls
  <2>2. Awaited(c)' <=> Awaited(c)
    BY <1>1, <2>1 DEF Awaited
  <2> QED
    BY <1>3, <2>1, <2>2 DEF Owned
<1>4. ASSUME NEW h \in hooks', h.call.by # Nobody
      PROVE  Awaited(h.call)' /\ \A g \in hooks' : g.call = h.call => g = h
  <2>1. h \in hooks /\ h.call.by # s /\ h.call.by \in Sessions
    BY <1>4 DEF Types, Hooks, Calls
  <2>2. Awaited(h.call)' <=> Awaited(h.call)
    BY <1>1, <2>1 DEF Awaited
  <2> QED
    BY <1>4, <2>1, <2>2 DEF Owned
<1> QED
  BY <1>1, <1>2, <1>3, <1>4 DEF Owned

\* After giving up, no call is the session's own.
LEMMA GiveUpSilences ==
    ASSUME Types, NEW s \in Sessions, GiveUp(s)
    PROVE  /\ \A c \in wire' : (c \in wire /\ c.by # s) \/ c.by = Nobody
           /\ \A h \in hooks' : (h \in hooks /\ h.call.by # s)
                                   \/ h.call.by = Nobody
           /\ hooks = {} => hooks' = {}
           /\ wire = {} => wire' = {}
<1>1. \A c \in Calls : Late(c).by = Nobody
  BY DEF Late, Calls
<1>2. \A c \in wire' : (c \in wire /\ c.by # s) \/ c.by = Nobody
  BY <1>1 DEF GiveUp, Types
<1>3. ASSUME NEW h \in hooks
      PROVE  [h EXCEPT !.call = Late(@)].call.by = Nobody
  <2>1. h.call \in Calls /\ h \in Hooks
    BY DEF Types, Hooks
  <2>2. [h EXCEPT !.call = Late(@)].call = Late(h.call)
    BY <2>1 DEF Hooks
  <2> QED
    BY <1>1, <2>1, <2>2
<1>4. \A h \in hooks' : (h \in hooks /\ h.call.by # s) \/ h.call.by = Nobody
  BY <1>3 DEF GiveUp
<1> QED
  BY <1>2, <1>4 DEF GiveUp

\* An answered call: its sender waits for nothing any more.
LEMMA AnsweredIsGone ==
    ASSUME Types, Owned, NEW s \in Sessions,
           session[s].doing # "call" \/ session[s].reply # "none"
    PROVE  /\ \A c \in wire : c.by # s
           /\ \A h \in hooks : h.call.by # s
<1>1. s # Nobody
  BY ActionsAssumption
<1> QED
  BY <1>1 DEF Owned, Awaited

\* The steps of a session keep its calls its own.
LEMMA SessionOwned ==
    ASSUME Types, Owned, NEW s \in Sessions, SessionStep(s) \/ Crash(s)
    PROVE  Owned'
<1>. DEFINE me == session[s]
<1> USE DEF outside
<1>1. Idle.doing # "call"
  BY DEF Idle
<1>2. /\ me # Idle /\ me.req \in Requests /\ me.was \in Rows
  <2>1. me # Idle
    BY DEF SessionStep, PrepareAgain, TakeSlot, PlaceInside, PlaceWithHuman,
           PlaceOutside, CancelPlainly, CancelOutside, Reschedule,
           CallSucceeds, CallRepeated, CallFails, Crash, Placing, Calling,
           Idle
  <2> QED
    BY <2>1, KindOf DEF Loaded, Callers
<1>3. CASE PrepareAgain(s) \/ PlaceInside(s) \/ PlaceWithHuman(s)
              \/ CancelPlainly(s) \/ Reschedule(s) \/ TakeSlot(s)
  <2>1. me.doing # "call" /\ UNCHANGED <<wire, hooks, policy, outside>>
    BY <1>3 DEF PrepareAgain, PlaceInside, PlaceWithHuman, CancelPlainly,
                Reschedule, TakeSlot, Placing
  <2>2. PICK next : /\ session' = [session EXCEPT ![s] = next]
                    /\ next.doing # "call"
    <3>1. \/ Finish(s)
          \/ TakeSlot(s) /\ Become(s, [me EXCEPT !.doing = "place"])
      BY <1>3 DEF PrepareAgain, PlaceInside, PlaceWithHuman, CancelPlainly,
                  Reschedule, TakeSlot
    <3>2. TakeSlot(s) => [me EXCEPT !.doing = "place"].doing = "place"
      BY KindOf DEF TakeSlot, Operations, Loaded
    <3> QED
      BY <1>1, <3>1, <3>2 DEF Finish, Become
  <2> QED
    BY <2>1, <2>2, AnsweredIsGone, SilentOwned
<1>4. CASE CallSucceeds(s)
  <2>1. me.reply # "none"
    BY <1>4 DEF CallSucceeds
  <2> QED
    BY <1>1, <1>4, <2>1, AnsweredIsGone, SilentOwned
       DEF CallSucceeds, Finish, Become
<1>5. CASE CallFails(s) \/ Crash(s)
  <2>1. GiveUp(s) /\ Finish(s) /\ UNCHANGED <<policy, outside>>
    BY <1>5 DEF CallFails, Crash
  <2> QED
    BY <1>1, <2>1, GiveUpSilences, SilentOwned DEF Finish, Become
<1>6. CASE PlaceOutside(s) \/ CancelOutside(s)
  <2>1. PICK op, status :
           op \in {"execute", "cancel"} /\ BeginCall(s, op, status)
    BY <1>6 DEF PlaceOutside, CancelOutside
  <2>. DEFINE call == [by |-> s, req |-> me.req, op |-> op]
              next == [doing |-> "call", req |-> me.req,
                       was |-> row'[me.req], call |-> call, try |-> 1,
                       reply |-> "none"]
  <2>2. /\ wire' = wire \cup {call} /\ UNCHANGED <<hooks, policy, outside>>
        /\ session' = [session EXCEPT ![s] = next] /\ me.doing # "call"
    BY <1>6, <2>1 DEF BeginCall, Become, PlaceOutside, CancelOutside, Placing
  <2>3. External
    BY <1>6 DEF PlaceOutside, CancelOutside, CancelIsPlain
  <2>4. /\ next.doing = "call" /\ next.call = call /\ next.reply = "none"
        /\ call.by = s /\ call.req = me.req /\ next.req = me.req
    OBVIOUS
  <2> HIDE DEF call, next
  <2>5. /\ \A c \in wire : c.by # s
        /\ \A h \in hooks : h.call.by # s
    BY <2>2, AnsweredIsGone
  <2>6. \A t \in Sessions : session'[t] = IF t = s THEN next ELSE session[t]
    BY <2>2 DEF Types
  <2>7. \A c \in wire \cup {h.call : h \in hooks} :
           c.by # Nobody => (Awaited(c)' <=> Awaited(c))
    BY <2>5, <2>6 DEF Awaited, Types, Calls, Hooks
  <2>8. \A c : c = call => Awaited(c)'
    BY <2>4, <2>6 DEF Awaited
  <2>9. External'
    BY <2>2, <2>3 DEF External
  <2>10. ASSUME NEW c \in wire', c.by # Nobody
         PROVE  Awaited(c)' /\ \A h \in hooks' : h.call # c
    <3>1. CASE c = call
      BY <2>2, <2>4, <2>5, <2>8, <3>1
    <3>2. CASE c \in wire
      BY <2>2, <2>7, <2>10, <3>2 DEF Owned
    <3> QED
      BY <2>2, <3>1, <3>2
  <2>11. ASSUME NEW h \in hooks', h.call.by # Nobody
         PROVE  /\ Awaited(h.call)'
                /\ \A g \in hooks' : g.call = h.call => g = h
    BY <2>2, <2>7, <2>11 DEF Owned
  <2>12. \A t \in Sessions : session'[t].doing = "call" =>
            /\ session'[t].call.by = t
            /\ session'[t].call.req = session'[t].req
    BY <2>4, <2>6 DEF Owned
  <2>13. policy.route # "native" => hooks' = {}
    BY <2>2 DEF Owned
  <2> QED
    BY <2>2, <2>9, <2>10, <2>11, <2>12, <2>13 DEF Owned
<1>7. CASE CallRepeated(s)
  <2>. DEFINE call == me.call
              next == [me EXCEPT !.try = @ + 1, !.reply = "none"]
  <2>1. Calling(s)
    BY <1>7 DEF CallRepeated
  <2>2. /\ session' = [session EXCEPT ![s] = next]
        /\ wire' = {call} \cup {IF c = call THEN Late(c) ELSE c : c \in wire}
        /\ hooks' = {IF h.call = call THEN [h EXCEPT !.call = Late(@)] ELSE h :
                        h \in hooks}
        /\ UNCHANGED <<policy, outside>>
    BY <1>7 DEF CallRepeated, Become
  <2>3. /\ call.by = s /\ call.req = me.req /\ External /\ s # Nobody
        /\ call \in Calls /\ me \in Callers
    BY <2>1, CallOfSession
  <2>4. /\ next.doing = "call" /\ next.call = call /\ next.reply = "none"
        /\ next.req = me.req
    BY <2>3 DEF Callers
  <2> HIDE DEF call, next
  <2>5. \A c \in Calls : Late(c).by = Nobody
    BY DEF Late, Calls
  <2>6. \A c \in wire : c.by = s => c = call
    BY <2>3 DEF Owned, Awaited, call
  <2>7. \A h \in hooks : h.call.by = s => h.call = call
    BY <2>3 DEF Owned, Awaited, call
  <2>8. \A c \in wire' : \/ c = call
                         \/ c \in wire /\ c.by # s
                         \/ c.by = Nobody
    BY <2>2, <2>3, <2>5, <2>6 DEF Types
  <2>9. ASSUME NEW g \in hooks'
        PROVE  (g \in hooks /\ g.call.by # s) \/ g.call.by = Nobody
    <3>1. PICK h \in hooks :
             g = IF h.call = call THEN [h EXCEPT !.call = Late(@)] ELSE h
      BY <2>2
    <3>2. h \in Hooks /\ h.call \in Calls
      BY DEF Types, Hooks
    <3>3. [h EXCEPT !.call = Late(@)].call = Late(h.call)
      BY <3>2 DEF Hooks
    <3> QED
      BY <2>5, <2>7, <3>1, <3>2, <3>3
  <2>10. \A t \in Sessions : session'[t] = IF t = s THEN next ELSE session[t]
    BY <2>2 DEF Types
  <2>11. /\ \A c \in Calls : c = call => Awaited(c)'
         /\ \A c \in Calls : c.by \notin {s, Nobody} =>
               (Awaited(c)' <=> Awaited(c))
    BY <2>3, <2>4, <2>10 DEF Awaited, Calls
  <2>12. External' /\ (policy.route # "native" => hooks' = {})
    BY <2>2, <2>3 DEF External, Owned
  <2>13. \A t \in Sessions : session'[t].doing = "call" =>
            /\ session'[t].call.by = t
            /\ session'[t].call.req = session'[t].req
    BY <2>3, <2>4, <2>10 DEF Owned
  <2>14. ASSUME NEW c \in wire', c.by # Nobody
         PROVE  Awaited(c)' /\ \A h \in hooks' : h.call # c
    <3>1. CASE c = call
      BY <2>3, <2>9, <2>11, <3>1
    <3>2. CASE c \in wire /\ c.by # s
      BY <2>9, <2>11, <2>14, <3>2 DEF Owned, Types
    <3> QED
      BY <2>8, <2>14, <3>1, <3>2
  <2>15. ASSUME NEW h \in hooks', h.call.by # Nobody
         PROVE  Awaited(h.call)' /\ \A g \in hooks' : g.call = h.call => g = h
    BY <2>9, <2>11, <2>15 DEF Owned, Types, Hooks
  <2> QED
    BY <2>2, <2>12, <2>13, <2>14, <2>15 DEF Owned, External
<1> QED
  BY <1>3, <1>4, <1>5, <1>6, <1>7 DEF SessionStep


\* The answer, seen from the sessions.
LEMMA AnswerIs ==
    ASSUME Types, Owned, NEW call \in Calls, Flies(call),
           NEW reply \in {"yes", "no"}, Answer(call, reply)
    PROVE  /\ \A t \in Sessions : t # call.by => session'[t] = session[t]
           /\ call.by # Nobody =>
                /\ call.by \in Sessions /\ session[call.by] \in Callers
                /\ session[call.by].call = call
                /\ session[call.by].req = call.req
                /\ session'[call.by] =
                     [session[call.by] EXCEPT !.reply = reply]
                /\ session'[call.by] \in Callers
                /\ session'[call.by].reply = reply
                /\ session'[call.by].call = call
                /\ session'[call.by].req = call.req
                /\ session'[call.by].was = session[call.by].was
           /\ call.by = Nobody => UNCHANGED session
<1>1. CASE call.by = Nobody
  BY <1>1 DEF Answer
<1>2. CASE call.by # Nobody
  <2>1. call.by \in Sessions
    BY <1>2 DEF Calls
  <2>2. Awaited(call)
    BY <1>2 DEF Owned, Flies
  <2>3. session[call.by] \in Callers /\ session[call.by].call = call
    BY <2>1, <2>2, KindOf DEF Awaited
  <2>4. session[call.by].req = call.req
    BY <2>1, <2>3 DEF Owned, Callers
  <2>5. /\ [session[call.by] EXCEPT !.reply = reply] \in Callers
        /\ [session[call.by] EXCEPT !.reply = reply].reply = reply
        /\ [session[call.by] EXCEPT !.reply = reply].call = call
        /\ [session[call.by] EXCEPT !.reply = reply].req = call.req
        /\ [session[call.by] EXCEPT !.reply = reply].was
              = session[call.by].was
    BY <2>3, <2>4 DEF Callers
  <2>6. session' = [session EXCEPT ![call.by] =
                       [session[call.by] EXCEPT !.reply = reply]]
    BY <1>2 DEF Answer
  <2>7. /\ session'[call.by] = [session[call.by] EXCEPT !.reply = reply]
        /\ \A t \in Sessions : t # call.by => session'[t] = session[t]
    BY <2>1, <2>6 DEF Types
  <2> QED
    BY <1>2, <2>1, <2>3, <2>4, <2>5, <2>7
<1> QED
  BY <1>1, <1>2

\* An answered call has left the world.
LEMMA AnswerOwned ==
    ASSUME Types, Owned, NEW call \in Calls, Flies(call), External,
           NEW reply \in {"yes", "no"}, Answer(call, reply),
           wire' \subseteq wire, hooks' \subseteq hooks,
           call.by # Nobody => /\ call \notin wire'
                               /\ \A h \in hooks' : h.call # call,
           UNCHANGED policy
    PROVE  Owned'
<1>0. /\ \A t \in Sessions : t # call.by => session'[t] = session[t]
      /\ call.by # Nobody =>
           /\ session[call.by] \in Callers /\ session[call.by].call = call
           /\ session[call.by].req = call.req
           /\ session'[call.by].call = call
           /\ session'[call.by].req = call.req
      /\ call.by = Nobody => UNCHANGED session
  BY AnswerIs
<1>1. /\ wire \subseteq Calls /\ \A h \in hooks : h.call \in Calls
  BY DEF Types, Hooks
<1>2. ASSUME NEW c \in Calls, c.by # Nobody, Awaited(c), c # call
      PROVE  Awaited(c)'
  <2>1. c.by # call.by
    <3>1. ASSUME c.by = call.by
          PROVE  FALSE
      BY <1>0, <1>2, <3>1 DEF Awaited
    <3> QED
      BY <3>1
  <2>2. session'[c.by] = session[c.by]
    BY <1>0, <1>2, <2>1 DEF Calls
  <2> QED
    BY <1>2, <2>2 DEF Awaited
<1>3. External'
  BY DEF External
<1>4. \A s \in Sessions : session'[s].doing = "call" =>
         session'[s].call.by = s /\ session'[s].call.req = session'[s].req
  <2>1. ASSUME NEW s \in Sessions, session'[s].doing = "call"
        PROVE  /\ session'[s].call.by = s
               /\ session'[s].call.req = session'[s].req
    BY <1>0, <2>1 DEF Owned
  <2> QED
    BY <2>1
<1>5. \A c \in wire' : c.by # Nobody => /\ Awaited(c)'
                                        /\ \A h \in hooks' : h.call # c
  BY <1>1, <1>2 DEF Owned
<1>6. \A h \in hooks' : h.call.by # Nobody =>
         Awaited(h.call)' /\ \A g \in hooks' : g.call = h.call => g = h
  BY <1>1, <1>2 DEF Owned
<1> QED
  BY <1>3, <1>4, <1>5, <1>6 DEF Owned

\* The other system answers a call once.
LEMMA WorldOwned ==
    ASSUME Types, Owned,
           \/ \E call \in wire : Arrives(call) \/ HookLoads(call)
           \/ \E h \in hooks : HookEnds(h)
    PROVE  Owned'
<1> USE DEF outside
<1>0. /\ wire \subseteq Calls /\ \A h \in hooks : h.call \in Calls
      /\ (wire # {} \/ hooks # {}) => External
  BY DEF Types, Hooks, Owned, External
<1>1. ASSUME NEW call \in wire, Arrives(call)
      PROVE  Owned'
  <2>1. PICK reply \in {"yes", "no"} : Answer(call, reply)
    BY <1>1 DEF Arrives
  <2>2. Flies(call) /\ External /\ call \in Calls
    BY <1>0, <1>1 DEF Flies
  <2>3. wire' = wire \ {call} /\ UNCHANGED <<hooks, policy>>
    BY <1>1 DEF Arrives
  <2>4. call.by # Nobody => \A h \in hooks' : h.call # call
    BY <1>1, <2>3 DEF Owned
  <2> QED
    BY <2>1, <2>2, <2>3, <2>4, AnswerOwned
<1>2. ASSUME NEW call \in wire, HookLoads(call)
      PROVE  Owned'
  <2>1. Flies(call) /\ External /\ call \in Calls
    BY <1>0, <1>2 DEF Flies
  <2>2. wire' = wire \ {call} /\ UNCHANGED <<policy, outside>>
    BY <1>2 DEF HookLoads
  <2>3. call.by # Nobody => \A h \in hooks : h.call # call
    BY <1>2 DEF Owned
  <2>4. CASE Answer(call, "yes") /\ UNCHANGED hooks
    BY <2>1, <2>2, <2>3, <2>4, AnswerOwned
  <2>5. CASE /\ hooks' = hooks \cup {[call |-> call, was |-> row[call.req]]}
             /\ UNCHANGED session
    <3>1. [call |-> call, was |-> row[call.req]].call = call
      OBVIOUS
    <3>2. \A c \in Calls : Awaited(c)' <=> Awaited(c)
      BY <2>5 DEF Awaited
    <3>3. \A c \in wire' : c.by # Nobody => /\ Awaited(c)'
                                            /\ \A h \in hooks' : h.call # c
      BY <1>0, <2>2, <2>5, <3>1, <3>2 DEF Owned
    <3>4. \A h \in hooks' : h.call.by # Nobody =>
             Awaited(h.call)' /\ \A g \in hooks' : g.call = h.call => g = h
      BY <1>0, <1>2, <2>3, <2>5, <3>1, <3>2 DEF Owned
    <3> QED
      BY <1>2, <2>1, <2>2, <2>5, <3>3, <3>4 DEF Owned, External, HookLoads
  <2> QED
    BY <1>2, <2>4, <2>5 DEF HookLoads
<1>3. ASSUME NEW h \in hooks, HookEnds(h)
      PROVE  Owned'
  <2>1. PICK reply \in {"yes", "no"} : Answer(h.call, reply)
    BY <1>3 DEF HookEnds
  <2>2. Flies(h.call) /\ External /\ h.call \in Calls
    BY <1>0, <1>3 DEF Flies
  <2>3. hooks' = hooks \ {h} /\ UNCHANGED <<wire, policy>>
    BY <1>3 DEF HookEnds
  <2>4. h.call.by # Nobody =>
           h.call \notin wire' /\ \A g \in hooks' : g.call # h.call
    BY <1>3, <2>3 DEF Owned
  <2> QED
    BY <2>1, <2>2, <2>3, <2>4, AnswerOwned
<1> QED
  BY <1>1, <1>2, <1>3

\* People send nothing.
LEMMA PeopleOwned ==
    ASSUME Types, Owned,
           \/ \E r \in Requests : \/ Prepare(r) \/ Reconcile(r)
                                  \/ DeskLoads(r) \/ AdminSets(r)
           \/ \E s \in Sessions, r \in Requests :
                 \E operation \in Operations \cup {"prepare"} :
                    Load(s, r, operation)
           \/ DeskWrites
    PROVE  Owned'
<1> USE DEF outside
<1>1. CASE UNCHANGED <<policy, session, wire, hooks, outside>>
  BY <1>1 DEF Owned, Awaited, External
<1>2. ASSUME NEW s \in Sessions, NEW r \in Requests,
             NEW operation \in Operations \cup {"prepare"},
             Load(s, r, operation)
      PROVE  Owned'
  <2>. DEFINE next == [doing |-> operation, req |-> r, was |-> row[r]]
  <2>1. /\ session' = [session EXCEPT ![s] = next]
        /\ UNCHANGED <<policy, wire, hooks, outside>>
        /\ session[s] = Idle
    BY <1>2 DEF Load, Become
  <2>2. next.doing # "call" /\ session[s].doing # "call"
    BY <2>1, KindOf DEF Operations
  <2> HIDE DEF next
  <2>3. /\ \A c \in wire' : c \in wire /\ c.by # s
        /\ \A h \in hooks' : h \in hooks /\ h.call.by # s
    BY <2>1, <2>2, AnsweredIsGone
  <2>4. (hooks = {} => hooks' = {}) /\ (wire = {} => wire' = {})
    BY <2>1
  <2> QED
    BY <2>1, <2>2, <2>3, <2>4, SilentOwned
<1> QED
  BY <1>1, <1>2 DEF Prepare, Reconcile, DeskLoads, AdminSets, DeskWrites

\* Every step keeps the calls with those who wait for them.
LEMMA OwnedStep ==
    ASSUME Types, Owned, [Next]_vars
    PROVE  Owned'
<1>1. CASE UNCHANGED vars
  BY <1>1 DEF vars, outside, Owned, Awaited, External
<1> QED
  BY <1>1, SessionOwned, WorldOwned, PeopleOwned DEF Next

\* The types and the calls at the beginning.
LEMMA TypesInit == Init => Types /\ Owned
<1> SUFFICES ASSUME Init
             PROVE  Types /\ Owned
  OBVIOUS
<1>1. [status |-> "none", details |-> Blank] \in Rows
  BY DEF Rows, Details, Blank, States, Statuses
<1>2. Types
  BY <1>1 DEF Init, Types
<1>3. \A s \in Sessions : session[s].doing # "call"
  BY DEF Init, Idle
<1>4. \A r \in Requests : executed[r] = 0 /\ reversed[r] = 0
  BY DEF Init
<1>5. wire = {} /\ hooks = {}
  BY DEF Init
<1> QED
  BY <1>2, <1>3, <1>4, <1>5 DEF Owned


-----------------------------------------------------------------------------
(* The truth of a status.                                                  *)

Flying(r, op) == \E c \in Calls : Flies(c) /\ c.req = r /\ c.op = op

\* The executions of r have all been counted.
Settled(r) == \/ RepeatsCount \/ ~Flying(r, "execute")
              \/ policy.idempotent /\ executed[r] > 0
Undone(r) == executed[r] = reversed[r] \/ RepeatsCount

Free(d) == d.state \notin {"executing", "external_failed"}

\* The details of r that someone has or may still write.
Notes(r) ==
    {row[r].details}
    \cup {h.was.details : h \in {g \in hooks : g.call.req = r}}
    \cup {session[s].was.details : s \in {t \in Sessions : Has(t, r)}}

Claims(r, d) ==
    /\ d.receipt = "execute" => executed[r] > 0
    /\ \/ d.receipt = "cancel"
       \/ d.operation = "cancel" /\ d.state = "confirmed"
       => Settled(r) /\ Undone(r)
    /\ Free(d) => Settled(r)

Says(r, status) ==
    /\ status \in Executable \cup {"none"} =>
          /\ executed[r] = 0 /\ reversed[r] = 0
          /\ ~Flying(r, "execute") /\ ~Flying(r, "cancel")
          /\ \A d \in Notes(r) : d = Blank
    /\ status \in {"executing", "confirmed"} =>
          reversed[r] = 0 /\ ~Flying(r, "cancel")
    /\ status = "confirmed" =>
          IF External THEN executed[r] > 0 ELSE <<r, "confirmed">> \in events
    /\ status \in {"confirmed", "cancelled"} => Settled(r)
    /\ status = "cancelled" => Undone(r)

Mine(s, r) ==
    LET me == session[s] IN
    /\ me.doing = "prepare" => me.was.status = "awaiting_confirmation"
    /\ me.doing = "cancel" /\ External => Free(me.was.details)
    /\ me.doing = "call" /\ me.call.op = "execute" =>
          /\ row[r].status = "executing"
          /\ me.reply = "yes" => executed[r] > 0
          /\ \A d \in Notes(r) : ~Free(d) /\ d.receipt # "cancel"
          /\ policy.route = "integration" =>
               \A c \in Calls :
                  Flies(c) /\ c.req = r /\ c.op = "execute" => c.by = s
    /\ me.doing = "call" /\ me.call.op = "cancel" =>
          /\ row[r].status = "cancelling" /\ Settled(r)
          /\ me.reply = "yes" => Undone(r)

Truth(r) ==
    /\ Says(r, row[r].status)
    /\ row[r].status \in {"executing", "cancelling"} =>
          r \in orphaned \/ \E s \in Sessions : Has(s, r) /\ Calling(s)
    /\ Flying(r, "cancel") => Settled(r)
    /\ \A d \in Notes(r) : Claims(r, d)
    /\ \A s \in Sessions : Has(s, r) => Mine(s, r)

TruthInv ==
    /\ ActionsInv /\ Types /\ Owned
    /\ \A r \in Requests : Regular(r) => Truth(r)

\* A step that has to do with other requests only.
Elsewhere(r) ==
    /\ UNCHANGED policy /\ row'[r] = row[r]
    /\ executed'[r] = executed[r] /\ reversed'[r] = reversed[r]
    /\ events \subseteq events' /\ orphaned \subseteq orphaned'
    /\ \A c \in Calls : c.req = r /\ Flies(c)' => Flies(c)
    /\ \A h \in hooks' : h.call.req = r => h \in hooks
    /\ \A s \in Sessions : Has(s, r) \/ Has(s, r)' =>
                              session'[s] = session[s]

\* What is on its way was on its way before.
Steady(r) ==
    /\ UNCHANGED policy
    /\ executed'[r] = executed[r] /\ reversed'[r] = reversed[r]
    /\ \A op \in {"execute", "cancel"} : Flying(r, op)' => Flying(r, op)

\* What holds of a note stays while what it rests on does.
LEMMA ClaimsStay ==
    ASSUME NEW r \in Requests, NEW d, Claims(r, d),
           executed[r] > 0 => executed'[r] > 0,
           Settled(r) => Settled(r)',
           Settled(r) /\ Undone(r) => Undone(r)'
    PROVE  Claims(r, d)'
  BY DEF Claims

\* Without new effects and calls, claims stay true.
LEMMA SteadyStays ==
    ASSUME NEW r \in Requests, Steady(r)
    PROVE  /\ Settled(r) => Settled(r)'
           /\ Undone(r) => Undone(r)'
           /\ \A d : Claims(r, d) => Claims(r, d)'
           /\ External' <=> External
           /\ policy'.route = policy.route
<1>1. /\ Settled(r) => Settled(r)'
      /\ Undone(r) => Undone(r)'
      /\ External' <=> External
  BY DEF Steady, Settled, Undone, RepeatsCount, External
<1>2. \A d : Claims(r, d) => Claims(r, d)'
  BY <1>1, ClaimsStay DEF Steady
<1> QED
  BY <1>1, <1>2 DEF Steady

\* So does what a status says.
LEMMA SaysStays ==
    ASSUME NEW r \in Requests, Steady(r), NEW status, Says(r, status),
           events \subseteq events',
           status \in Executable \cup {"none"} =>
              \A d \in Notes(r)' : d \in Notes(r) \/ d = Blank
    PROVE  Says(r, status)'
  BY SteadyStays DEF Says, Steady

\* A step about other requests brings nothing new for this one.
LEMMA ElsewhereIsSteady ==
    ASSUME Types, NEW r \in Requests, Elsewhere(r)
    PROVE  /\ Steady(r) /\ Notes(r)' \subseteq Notes(r)
           /\ \A s \in Sessions : Has(s, r) <=> Has(s, r)'
<1>1. \A op \in {"execute", "cancel"} : Flying(r, op)' => Flying(r, op)
  BY DEF Elsewhere, Flying
<1>2. \A s \in Sessions : Has(s, r) <=> Has(s, r)'
  BY DEF Elsewhere, Has
<1>3. Notes(r)' \subseteq Notes(r)
  BY <1>2 DEF Elsewhere, Notes
<1> QED
  BY <1>1, <1>2, <1>3 DEF Elsewhere, Steady

\* It keeps the truth of this one.
LEMMA ElsewhereKeeps ==
    ASSUME Types, NEW r \in Requests, Elsewhere(r), Truth(r)
    PROVE  Truth(r)'
<1>1. /\ Steady(r) /\ Notes(r)' \subseteq Notes(r)
      /\ \A s \in Sessions : Has(s, r) <=> Has(s, r)'
  BY ElsewhereIsSteady
<1>2. Says(r, row[r].status)'
  <2>1. PICK status : status = row[r].status
    OBVIOUS
  <2>2. Says(r, status)'
    BY <1>1, <2>1, SaysStays DEF Truth, Elsewhere
  <2>3. row'[r].status = status
    BY <2>1 DEF Elsewhere
  <2> QED
    BY <2>2, <2>3 DEF Says
<1>3. \A d \in Notes(r)' : Claims(r, d)'
  BY <1>1, SteadyStays DEF Truth
<1>4. Flying(r, "cancel")' => Settled(r)'
  BY <1>1, SteadyStays DEF Truth, Steady
<1>5. ASSUME NEW s \in Sessions, Has(s, r)'
      PROVE  Mine(s, r)'
  <2>1. Has(s, r) /\ session'[s] = session[s]
    BY <1>1, <1>5 DEF Elsewhere
  <2>2. Mine(s, r)
    BY <2>1 DEF Truth
  <2> QED
    BY <1>1, <2>1, <2>2, SteadyStays DEF Mine, Elsewhere
<1>6. row'[r].status \in {"executing", "cancelling"} =>
         r \in orphaned' \/ \E s \in Sessions : Has(s, r)' /\ Calling(s)'
  <2>1. \A s \in Sessions : Has(s, r) /\ Calling(s) =>
                               Has(s, r)' /\ Calling(s)'
    BY <1>1 DEF Elsewhere, Calling
  <2> QED
    BY <2>1 DEF Truth, Elsewhere
<1> QED
  BY <1>2, <1>3, <1>4, <1>5, <1>6 DEF Truth


\* The calls a session has concern its own request.
LEMMA OwnCalls ==
    ASSUME Types, Owned, NEW s \in Sessions
    PROVE  /\ \A c \in wire : c.by = s => c.req = session[s].req
           /\ \A h \in hooks : h.call.by = s => h.call.req = session[s].req
<1>1. s # Nobody
  BY ActionsAssumption
<1>2. \A c : Awaited(c) /\ c.by = s => c.req = session[s].req
  BY DEF Awaited, Owned
<1> QED
  BY <1>1, <1>2 DEF Owned

\* Giving up only changes who waits.
LEMMA GiveUpThins ==
    ASSUME Types, Owned, NEW s \in Sessions, GiveUp(s), NEW r \in Requests
    PROVE  /\ \A op : Flying(r, op)' => Flying(r, op)
           /\ \A c \in Calls : c.req = r /\ r # session[s].req /\ Flies(c)'
                                  => Flies(c)
           /\ \A h \in hooks' : \E g \in hooks :
                 /\ g.was = h.was /\ g.call.req = h.call.req
                 /\ h.call.req = r /\ r # session[s].req => h = g
<1>0. wire \subseteq Calls /\ hooks \subseteq Hooks
      /\ \A h \in hooks : h.call \in Calls
  BY DEF Types, Hooks
<1>1. \A c \in Calls : Late(c).req = c.req /\ Late(c).op = c.op
                       /\ Late(c) \in Calls
  BY DEF Late, Calls
<1>2. \A c \in wire' : c \in Calls /\ \E b \in wire :
         b.req = c.req /\ b.op = c.op
         /\ (c.req # session[s].req => c = b)
  BY <1>0, <1>1, OwnCalls DEF GiveUp
<1>3. ASSUME NEW h \in hooks'
      PROVE  \E g \in hooks :
                /\ g.was = h.was /\ g.call.req = h.call.req
                /\ g.call.op = h.call.op
                /\ h.call.req # session[s].req => h = g
  <2>1. PICK g \in hooks :
           h = IF g.call.by = s THEN [g EXCEPT !.call = Late(@)] ELSE g
    BY DEF GiveUp
  <2>2. [g EXCEPT !.call = Late(@)].was = g.was
        /\ [g EXCEPT !.call = Late(@)].call = Late(g.call)
    BY <1>0 DEF Hooks
  <2>3. g.call \in Calls
    BY <1>0
  <2>4. h.was = g.was /\ h.call.req = g.call.req /\ h.call.op = g.call.op
    BY <1>1, <2>1, <2>2, <2>3
  <2>5. h.call.req # session[s].req => h = g
    BY <2>1, <2>4, OwnCalls
  <2> QED
    BY <2>4, <2>5
<1>4. ASSUME NEW op, Flying(r, op)'
      PROVE  Flying(r, op)
  <2>1. PICK c \in Calls : Flies(c)' /\ c.req = r /\ c.op = op
    BY <1>4 DEF Flying
  <2>2. CASE c \in wire'
    <3>1. PICK b \in wire : b.req = c.req /\ b.op = c.op
      BY <1>2, <2>2
    <3> QED
      BY <1>0, <2>1, <3>1 DEF Flying, Flies
  <2>3. CASE \E h \in hooks' : h.call = c
    <3>1. PICK h \in hooks' : h.call = c
      BY <2>3
    <3>2. PICK g \in hooks : g.call.req = h.call.req /\ g.call.op = h.call.op
      BY <1>3
    <3> QED
      BY <1>0, <2>1, <3>1, <3>2 DEF Flying, Flies
  <2> QED
    BY <2>1, <2>2, <2>3 DEF Flies
<1>5. ASSUME NEW c \in Calls, c.req = r, r # session[s].req, Flies(c)'
      PROVE  Flies(c)
  <2>1. CASE c \in wire'
    BY <1>2, <1>5, <2>1 DEF Flies
  <2>2. CASE \E h \in hooks' : h.call = c
    BY <1>3, <1>5, <2>2 DEF Flies
  <2> QED
    BY <1>5, <2>1, <2>2 DEF Flies
<1>6. \A h \in hooks' : \E g \in hooks :
         /\ g.was = h.was /\ g.call.req = h.call.req
         /\ h.call.req = r /\ r # session[s].req => h = g
  BY <1>3
<1> QED
  BY <1>4, <1>5, <1>6

\* A session's step is about its own request only.
LEMMA SessionElsewhere ==
    ASSUME ActionsInv, Types, Owned, NEW s \in Sessions,
           SessionStep(s) \/ Crash(s),
           NEW r \in Requests, r # session[s].req
    PROVE  Elsewhere(r)
<1>. USE DEF outside
<1>. DEFINE me == session[s]
<1>1. PICK to, next : Moves(s, to, next)
  BY SessionMoves DEF ActionsInv
<1>2. /\ UNCHANGED policy /\ row'[r] = row[r]
      /\ session' = [session EXCEPT ![s] = next]
      /\ next = Idle \/ next.req = me.req
  BY <1>1 DEF Moves
<1>3. ASSUME NEW t \in Sessions, Has(t, r) \/ Has(t, r)'
      PROVE  session'[t] = session[t]
  <2>1. Idle.req # r
    BY ActionsAssumption DEF Idle
  <2>2. t # s
    BY <1>2, <1>3, <2>1 DEF Has, Types
  <2> QED
    BY <1>2, <2>2 DEF Types
<1>4. UNCHANGED outside
  BY DEF SessionStep, PrepareAgain, TakeSlot, PlaceInside, PlaceWithHuman,
         PlaceOutside, CancelPlainly, CancelOutside, Reschedule,
         CallSucceeds, CallRepeated, CallFails, Crash
<1>5. events \subseteq events' /\ orphaned \subseteq orphaned'
  BY DEF SessionStep, PrepareAgain, TakeSlot, PlaceInside, PlaceWithHuman,
         PlaceOutside, CancelPlainly, CancelOutside, Reschedule,
         CallSucceeds, CallRepeated, CallFails, Crash
<1>6. /\ \A c \in Calls : c.req = r /\ Flies(c)' => Flies(c)
      /\ \A h \in hooks' : h.call.req = r => h \in hooks
  <2>1. CASE PrepareAgain(s) \/ TakeSlot(s) \/ PlaceInside(s)
             \/ PlaceWithHuman(s) \/ CancelPlainly(s) \/ Reschedule(s)
             \/ CallSucceeds(s)
    <3>1. UNCHANGED <<wire, hooks>>
      BY <2>1 DEF PrepareAgain, TakeSlot, PlaceInside, PlaceWithHuman,
                  CancelPlainly, Reschedule, CallSucceeds
    <3> QED
      BY <3>1 DEF Flies
  <2>2. CASE PlaceOutside(s) \/ CancelOutside(s)
    <3>1. PICK op :
             /\ wire' = wire \cup {[by |-> s, req |-> me.req, op |-> op]}
             /\ UNCHANGED hooks
      BY <2>2 DEF PlaceOutside, CancelOutside, BeginCall
    <3> QED
      BY <3>1 DEF Flies
  <2>3. CASE CallFails(s) \/ Crash(s)
    <3>1. GiveUp(s)
      BY <2>3 DEF CallFails, Crash
    <3>2. \A h \in hooks' : \E g \in hooks :
             h.call.req = r /\ r # session[s].req => h = g
      BY <3>1, GiveUpThins
    <3> QED
      BY <3>1, <3>2, GiveUpThins
  <2>4. CASE CallRepeated(s)
    <3>. DEFINE call == me.call
    <3>1. /\ wire' = {call} \cup {IF c = call THEN Late(c) ELSE c : c \in wire}
          /\ hooks' = {IF h.call = call THEN [h EXCEPT !.call = Late(@)]
                       ELSE h : h \in hooks}
      BY <2>4 DEF CallRepeated
    <3>2. call \in Calls /\ call.req = me.req
      BY <2>4, CallOfSession DEF CallRepeated
    <3>3. Late(call).req = me.req
      BY <3>2 DEF Late, Calls
    <3> HIDE DEF call
    <3>4. \A c \in wire' : c.req = r => c \in wire
      BY <3>1, <3>2, <3>3
    <3>5. ASSUME NEW h \in hooks', h.call.req = r
          PROVE  h \in hooks
      <4>1. PICK g \in hooks :
               h = IF g.call = call THEN [g EXCEPT !.call = Late(@)] ELSE g
        BY <3>1
      <4>2. [g EXCEPT !.call = Late(@)].call = Late(g.call)
        BY DEF Types, Hooks
      <4> QED
        BY <3>3, <3>5, <4>1, <4>2
    <3> QED
      BY <3>4, <3>5 DEF Flies
  <2> QED
    BY <2>1, <2>2, <2>3, <2>4 DEF SessionStep
<1> QED
  BY <1>2, <1>3, <1>4, <1>5, <1>6 DEF Elsewhere

\* A call that arrives is about its own request only.
LEMMA WorldElsewhere ==
    ASSUME Types, Owned, NEW call \in Calls, Flies(call),
           NEW r \in Requests, r # call.req,
           \/ call \in wire /\ (Arrives(call) \/ HookLoads(call))
           \/ \E h \in hooks : h.call = call /\ HookEnds(h)
    PROVE  Elsewhere(r)
<1>. USE DEF outside
<1>0. call.req \in Requests /\ call.op \in {"execute", "cancel"}
  BY DEF Calls
<1>1. UNCHANGED <<policy, events, orphaned>>
  BY DEF Arrives, HookLoads, HookEnds
<1>2. row'[r] = row[r]
  BY DEF Arrives, HookLoads, HookEnds, Save, Types
<1>3. executed'[r] = executed[r] /\ reversed'[r] = reversed[r]
  <2>1. UNCHANGED outside \/ TakesEffect(call.req, call.op)
    BY DEF Arrives, HookLoads, HookEnds
  <2> QED
    BY <1>0, <2>1, EffectTypes
<1>4. /\ \A c \in Calls : c.req = r /\ Flies(c)' => Flies(c)
      /\ \A h \in hooks' : h.call.req = r => h \in hooks
  <2>1. wire' \subseteq wire
    BY DEF Arrives, HookLoads, HookEnds
  <2>2. \/ hooks' \subseteq hooks
        \/ hooks' = hooks \cup {[call |-> call, was |-> row[call.req]]}
    BY DEF Arrives, HookLoads, HookEnds
  <2> QED
    BY <2>1, <2>2 DEF Flies
<1>5. ASSUME NEW s \in Sessions, Has(s, r) \/ Has(s, r)'
      PROVE  session'[s] = session[s]
  <2>1. CASE UNCHANGED session
    BY <2>1
  <2>2. CASE \E reply \in {"yes", "no"} : Answer(call, reply)
    <3>1. PICK reply \in {"yes", "no"} : Answer(call, reply)
      BY <2>2
    <3>2. /\ \A t \in Sessions : t # call.by => session'[t] = session[t]
          /\ call.by # Nobody => /\ session[call.by].req = call.req
                                 /\ session'[call.by].req = call.req
          /\ call.by = Nobody => UNCHANGED session
      BY <3>1, AnswerIs
    <3> QED
      BY <1>5, <3>2 DEF Has
  <2>3. UNCHANGED session \/ \E reply \in {"yes", "no"} : Answer(call, reply)
    BY DEF Arrives, HookLoads, HookEnds
  <2> QED
    BY <2>1, <2>2, <2>3
<1> QED
  BY <1>1, <1>2, <1>3, <1>4, <1>5 DEF Elsewhere


\* What a request's only session has loaded.
LEMMA OnlyOne ==
    ASSUME ActionsInv, Types, NEW s \in Sessions, NEW r \in Requests,
           Has(s, r), r \notin overlapped
    PROVE  /\ \A t \in Sessions : Has(t, r) => t = s
           /\ session[s].was.status = row[r].status
           /\ session[s].was.details \in Notes(r)
           /\ row[r].details \in Notes(r)
           /\ session[s].was \in Rows /\ row[r] \in Rows
           /\ session[s] # Idle /\ session[s].req = r
           /\ session[s].doing \in {"execute", "place"} =>
                 row[r].status \in Executable
           /\ session[s].doing = "reschedule" => row[r].status = "confirmed"
<1>1. /\ \A t \in Sessions : Has(t, r) => t = s
      /\ session[s].was.status = row[r].status
  BY DEF ActionsInv, Alone
<1>2. session[s] # Idle
  BY ActionsAssumption DEF Has, Idle
<1>3. session[s].was \in Rows /\ row[r] \in Rows
  BY <1>2, KindOf DEF Loaded, Callers, Types
<1>4. session[s].was.details \in Notes(r) /\ row[r].details \in Notes(r)
  BY DEF Notes
<1>5. /\ session[s].doing \in {"execute", "place"} =>
            session[s].was.status \in Executable
      /\ session[s].doing = "reschedule" =>
            session[s].was.status = "confirmed"
  BY <1>2 DEF ActionsInv, Shape
<1> QED
  BY <1>1, <1>2, <1>3, <1>4, <1>5 DEF Has

\* The only session of r ends.
LEMMA EndKeeps ==
    ASSUME Types, NEW s \in Sessions, NEW r \in Requests, Truth(r),
           \A t \in Sessions : Has(t, r) => t = s, Finish(s),
           Steady(r), Says(r, row[r].status)',
           \A d \in Notes(r)' : d \in Notes(r) \/ Claims(r, d),
           row'[r].status \in {"executing", "cancelling"} => r \in orphaned'
    PROVE  Truth(r)'
<1>1. \A t \in Sessions : ~Has(t, r)'
  <2>1. Idle.req # r
    BY ActionsAssumption DEF Idle
  <2> QED
    BY <2>1 DEF Has, Finish, Become, Types
<1>2. \A d \in Notes(r)' : Claims(r, d)'
  BY SteadyStays DEF Truth
<1>3. Flying(r, "cancel")' => Settled(r)'
  BY SteadyStays DEF Truth, Steady
<1> QED
  BY <1>1, <1>2, <1>3 DEF Truth

\* The callbacks of r, as far as they may still write.
SameHooks(r) ==
    \A h \in hooks' : h.call.req = r =>
        \E g \in hooks : g.was = h.was /\ g.call.req = r

\* Who could still write into the row when its session has ended.
LEMMA EndNotes ==
    ASSUME Types, NEW s \in Sessions, NEW r \in Requests, Has(s, r),
           session' = [session EXCEPT ![s] = Idle], SameHooks(r)
    PROVE  \A d \in Notes(r)' : d \in Notes(r) \/ d = row'[r].details
<1>1. \A t \in Sessions : Has(t, r)' => session'[t] = session[t] /\ Has(t, r)
  <2>1. Idle.req # r
    BY ActionsAssumption DEF Idle
  <2> QED
    BY <2>1 DEF Has, Types
<1>2. ASSUME NEW t \in Sessions, Has(t, r)'
      PROVE  session'[t].was.details \in Notes(r)
  BY <1>1, <1>2 DEF Notes
<1>3. ASSUME NEW h \in hooks', h.call.req = r
      PROVE  h.was.details \in Notes(r)
  BY <1>3 DEF SameHooks, Notes
<1> QED
  BY <1>2, <1>3 DEF Notes

\* The only session of r saves and ends.
LEMMA FinishKeeps ==
    ASSUME ActionsInv, Types, NEW s \in Sessions, NEW r \in Requests,
           Has(s, r), r \notin overlapped, Truth(r), Finish(s),
           NEW new \in Rows, Save(r, session[s].was, new),
           Steady(r), SameHooks(r), events \subseteq events',
           Claims(r, new.details),
           \/ Says(r, new.status)
           \/ \A status : status = new.status => Says(r, status)',
           new.status \in Executable \cup {"none"} => new.details = Blank,
           new.status \notin {"executing", "cancelling"}
    PROVE  Truth(r)'
<1>1. /\ \A t \in Sessions : Has(t, r) => t = s
      /\ session[s].was.status = row[r].status /\ session[s].was \in Rows
      /\ row[r].details \in Notes(r)
  BY OnlyOne
<1>2. /\ row'[r].status = new.status
      /\ row'[r].details \in {row[r].details, new.details}
  BY <1>1, SaveRow DEF Types
<1>3. \A d \in Notes(r)' : d \in Notes(r) \/ d = new.details
  BY <1>1, <1>2, EndNotes DEF Finish, Become
<1>4. Says(r, new.status)'
  <2>1. PICK status : status = new.status
    OBVIOUS
  <2>2. CASE Says(r, status)
    BY <1>3, <2>1, <2>2, SaysStays
  <2> QED
    BY <2>1, <2>2
<1>5. Says(r, row[r].status)'
  BY <1>2, <1>4 DEF Says
<1> QED
  BY <1>1, <1>2, <1>3, <1>5, EndKeeps

\* It ends without saving anything.
LEMMA LeaveKeeps ==
    ASSUME ActionsInv, Types, NEW s \in Sessions, NEW r \in Requests,
           Has(s, r), r \notin overlapped, Truth(r), Finish(s),
           UNCHANGED row, Steady(r), SameHooks(r), events \subseteq events',
           row[r].status \in {"executing", "cancelling"} => r \in orphaned'
    PROVE  Truth(r)'
<1>1. /\ \A t \in Sessions : Has(t, r) => t = s
      /\ row[r].details \in Notes(r)
  BY OnlyOne
<1>2. \A d \in Notes(r)' : d \in Notes(r)
  BY <1>1, EndNotes DEF Finish, Become
<1>3. Says(r, row[r].status)'
  <2>1. PICK status : status = row[r].status
    OBVIOUS
  <2>2. Says(r, status)'
    BY <1>2, <2>1, SaysStays DEF Truth
  <2> QED
    BY <2>1, <2>2 DEF Says
<1> QED
  BY <1>1, <1>2, <1>3, EndKeeps


\* Nothing happens outside.
LEMMA QuietSteady ==
    ASSUME NEW r \in Requests, UNCHANGED <<policy, wire, hooks, outside>>
    PROVE  Steady(r) /\ SameHooks(r)
<1>1. \A op : Flying(r, op)' => Flying(r, op)
  BY DEF Flying, Flies
<1>2. SameHooks(r)
  BY DEF SameHooks
<1> QED
  BY <1>1, <1>2 DEF Steady, outside

\* Nothing is outside where everything is done inside.
LEMMA InsideNothing ==
    ASSUME Types, Owned, ~External, NEW r \in Requests
    PROVE  /\ \A op : ~Flying(r, op)
           /\ executed[r] = 0 /\ reversed[r] = 0
           /\ Settled(r) /\ Undone(r)
<1>1. wire = {} /\ hooks = {} /\ executed[r] = 0 /\ reversed[r] = 0
  BY DEF Owned, External
<1>2. \A op : ~Flying(r, op)
  BY <1>1 DEF Flying, Flies
<1> QED
  BY <1>1, <1>2 DEF Settled, Undone

\* The steps that save without a call of their own.
LEMMA PlainKeeps ==
    ASSUME ActionsInv, Types, Owned, NEW s \in Sessions, NEW r \in Requests,
           Has(s, r), r \notin overlapped, Truth(r),
           \/ PrepareAgain(s) \/ PlaceWithHuman(s) \/ CancelPlainly(s)
           \/ PlaceInside(s) \/ Reschedule(s)
    PROVE  Truth(r)'
<1>. DEFINE was == session[s].was
<1>1. /\ was.status = row[r].status /\ was.details \in Notes(r)
      /\ was \in Rows /\ session[s].req = r
      /\ session[s].doing \in {"execute", "place"} =>
            row[r].status \in Executable
      /\ session[s].doing = "reschedule" => row[r].status = "confirmed"
  BY OnlyOne
<1>2. /\ Mine(s, r) /\ Says(r, row[r].status) /\ Claims(r, was.details)
  BY <1>1 DEF Truth
<1>3. Steady(r) /\ SameHooks(r) /\ Finish(s) /\ events \subseteq events'
  BY QuietSteady
     DEF PrepareAgain, PlaceWithHuman, CancelPlainly, PlaceInside, Reschedule
<1>4. \A to \in Statuses : /\ [was EXCEPT !.status = to] \in Rows
                           /\ [was EXCEPT !.status = to].status = to
                           /\ [was EXCEPT !.status = to].details = was.details
  BY <1>1 DEF Rows
<1>5. {"pending_human", "cancelled", "confirmed", "new"} \subseteq Statuses
  BY DEF Statuses, Executable, ALLOWED_STATUSES
<1>6. row[r].status \in Executable =>
         /\ was.details = Blank /\ ~Flying(r, "execute")
         /\ ~Flying(r, "cancel") /\ executed[r] = 0 /\ reversed[r] = 0
         /\ Settled(r) /\ Undone(r) /\ Claims(r, Blank)
  BY <1>1, <1>2 DEF Says, Settled, Undone
<1>. HIDE DEF was
<1>7. CASE PrepareAgain(s)
  <2>. DEFINE new == [was EXCEPT !.details = Blank]
  <2>1. was.status = "awaiting_confirmation"
    BY <1>2, <1>7 DEF Mine, PrepareAgain, was
  <2>2. row[r].status \in Executable
    BY <1>1, <2>1 DEF Executable
  <2>3. Blank \in Details
    BY DEF Blank, Details, States
  <2>4. /\ new \in Rows /\ new.status = was.status /\ new.details = Blank
    BY <1>1, <2>3 DEF Rows
  <2>5. Save(r, was, new)
    BY <1>1, <1>7 DEF PrepareAgain, was
  <2>. HIDE DEF new
  <2>6. new.status \notin {"executing", "cancelling"}
    BY <2>1, <2>4
  <2> QED
    BY <1>1, <1>2, <1>3, <1>6, <2>2, <2>4, <2>5, <2>6, FinishKeeps DEF was
<1>8. CASE PlaceWithHuman(s)
  <2>. DEFINE new == [was EXCEPT !.status = "pending_human"]
  <2>1. Save(r, was, new)
    BY <1>1, <1>8 DEF PlaceWithHuman, was
  <2>2. /\ new \in Rows /\ new.status = "pending_human"
        /\ new.details = was.details
    BY <1>4, <1>5
  <2>. HIDE DEF new
  <2>3. Says(r, new.status)
    BY <2>2 DEF Says, Executable
  <2> QED
    BY <1>1, <1>2, <1>3, <2>1, <2>2, <2>3, FinishKeeps DEF was, Executable
<1>9. CASE CancelPlainly(s)
  <2>. DEFINE new == [was EXCEPT !.status = "cancelled"]
  <2>1. Save(r, was, new) /\ CancelIsPlain(was)
    BY <1>1, <1>9 DEF CancelPlainly, was
  <2>2. /\ new \in Rows /\ new.status = "cancelled"
        /\ new.details = was.details
    BY <1>4, <1>5
  <2>. HIDE DEF new
  <2>3. Settled(r) /\ Undone(r)
    <3>1. CASE ~External
      BY <3>1, InsideNothing
    <3>2. CASE was.status \in Executable
      BY <1>1, <1>6, <3>2
    <3>3. CASE was.details.operation = "cancel"
               /\ was.details.state = "confirmed"
      BY <1>2, <3>3 DEF Claims
    <3> QED
      BY <2>1, <3>1, <3>2, <3>3 DEF CancelIsPlain
  <2>4. Says(r, new.status)
    BY <2>2, <2>3 DEF Says, Executable
  <2> QED
    BY <1>1, <1>2, <1>3, <2>1, <2>2, <2>4, FinishKeeps DEF was, Executable
<1>10. CASE PlaceInside(s)
  <2>. DEFINE to  == IF policy.scheduled THEN "confirmed" ELSE "new"
              new == [was EXCEPT !.status = to]
  <2>1. /\ Save(r, was, new) /\ events' = events \cup {<<r, new.status>>}
        /\ ~External /\ session[s].doing \in {"execute", "place"}
    BY <1>1, <1>10 DEF PlaceInside, was, External, Placing
  <2>2. /\ new \in Rows /\ new.status = to /\ new.details = was.details
    BY <1>4, <1>5
  <2>3. row[r].status \in Executable
    BY <1>1, <2>1
  <2>4. to \in {"confirmed", "new"}
    OBVIOUS
  <2>. HIDE DEF new, to
  <2>5. CASE to = "confirmed"
    <3>1. <<r, "confirmed">> \in events' /\ ~External'
      BY <1>3, <2>1, <2>2, <2>5 DEF External, Steady
    <3>2. /\ Settled(r)' /\ reversed'[r] = 0 /\ ~Flying(r, "cancel")'
      BY <1>3, <1>6, <2>3, SteadyStays DEF Steady
    <3>3. Says(r, "confirmed")'
      BY <3>1, <3>2 DEF Says, Executable
    <3>4. \A status : status = new.status => Says(r, status)'
      BY <2>2, <2>5, <3>3
    <3> QED
      BY <1>1, <1>2, <1>3, <2>1, <2>2, <2>5, <3>4, FinishKeeps
         DEF was, Executable
  <2>6. CASE to = "new"
    <3>1. Says(r, new.status)
      BY <1>2, <2>2, <2>3, <2>6 DEF Says, Executable
    <3> QED
      BY <1>1, <1>2, <1>3, <1>6, <2>1, <2>2, <2>3, <2>6, <3>1, FinishKeeps
         DEF was
  <2> QED
    BY <2>4, <2>5, <2>6
<1>11. CASE Reschedule(s)
  <2>. DEFINE new == With(was, "confirmed", "reschedule", "confirmed")
  <2>1. row[r].status = "confirmed"
    BY <1>1, <1>11 DEF Reschedule
  <2>2. CASE UNCHANGED row
    BY <1>3, <1>11, <2>1, <2>2, LeaveKeeps
  <2>3. CASE Save(r, was, new)
    <3>1. /\ new \in Rows /\ new.status = "confirmed"
          /\ new.details.operation = "reschedule"
          /\ new.details.state = "confirmed"
          /\ new.details.receipt = was.details.receipt
      BY <1>1, <1>5, WithType DEF Operations, States
    <3>. HIDE DEF new
    <3>2. Settled(r)
      BY <1>2, <2>1 DEF Says
    <3>3. Claims(r, new.details)
      BY <1>2, <3>1, <3>2 DEF Claims
    <3>4. Says(r, new.status)
      BY <1>2, <2>1, <3>1
    <3> QED
      BY <1>1, <1>3, <2>3, <3>1, <3>3, <3>4, FinishKeeps DEF was, Executable
  <2> QED
    BY <1>1, <1>11, <2>2, <2>3 DEF Reschedule, was
<1> QED
  BY <1>7, <1>8, <1>9, <1>10, <1>11


\* The answer of a call is recorded.
LEMMA CallEnds ==
    ASSUME ActionsInv, Types, Owned, NEW s \in Sessions, NEW r \in Requests,
           Has(s, r), r \notin overlapped, Truth(r),
           CallSucceeds(s) \/ CallFails(s)
    PROVE  Truth(r)'
<1>. DEFINE me  == session[s]
            was == session[s].was
            op  == session[s].call.op
<1>1. /\ was.status = row[r].status /\ was.details \in Notes(r)
      /\ was \in Rows /\ me.req = r
  BY OnlyOne
<1>2. /\ Mine(s, r) /\ Says(r, row[r].status) /\ Claims(r, was.details)
  BY <1>1 DEF Truth
<1>3. Calling(s) /\ Finish(s) /\ UNCHANGED <<policy, events, outside>>
  BY DEF CallSucceeds, CallFails
<1>4. op \in {"execute", "cancel"} /\ External /\ me.doing = "call"
  BY <1>3, CallOfSession DEF Calls, Calling
<1>5. /\ op \in Operations
      /\ {"confirmed", "cancelled", "external_failed"} \subseteq Statuses
      /\ {"confirmed", "external_failed"} \subseteq States
  BY <1>4 DEF Operations, Statuses, Unresolved, ALLOWED_STATUSES, States
<1>6. CASE CallFails(s)
  <2>1. Steady(r) /\ SameHooks(r)
    BY <1>3, <1>6, GiveUpThins DEF Steady, SameHooks, CallFails, outside
  <2>. DEFINE new == Fails(me)
  <2>2. /\ new \in Rows /\ new.status = "external_failed"
        /\ new.details.state = "external_failed"
        /\ new.details.receipt = was.details.receipt
    BY <1>1, <1>5, WithType DEF Fails
  <2>3. Save(r, was, new)
    BY <1>1, <1>6 DEF CallFails
  <2>. HIDE DEF new, was
  <2>4. Claims(r, new.details)
    BY <1>2, <2>2 DEF Claims, Free
  <2>5. Says(r, new.status)
    BY <2>2 DEF Says, Executable
  <2> QED
    BY <1>3, <2>1, <2>2, <2>3, <2>4, <2>5, FinishKeeps DEF was, Executable
<1>7. CASE CallSucceeds(s)
  <2>1. Steady(r) /\ SameHooks(r)
    BY <1>3, <1>7, QuietSteady DEF CallSucceeds
  <2>. DEFINE to  == IF op = "execute" THEN "confirmed" ELSE "cancelled"
              new == With(was, to, op, "confirmed")
  <2>2. /\ new \in Rows /\ new.status = to
        /\ new.details.operation = op /\ new.details.state = "confirmed"
        /\ new.details.receipt = was.details.receipt
    BY <1>1, <1>5, WithType
  <2>3. Save(r, was, new) /\ me.reply = "yes"
    BY <1>1, <1>7 DEF CallSucceeds
  <2>. HIDE DEF new, was
  <2>4. CASE op = "execute"
    <3>1. /\ row[r].status = "executing" /\ executed[r] > 0
          /\ policy.route = "integration" =>
               \A c \in Calls :
                  Flies(c) /\ c.req = r /\ c.op = "execute" => c.by = s
      BY <1>2, <1>4, <2>3, <2>4 DEF Mine
    <3>2. reversed[r] = 0 /\ ~Flying(r, "cancel")
      BY <1>2, <3>1 DEF Says
    <3>3. \A c : Flies(c) => c.by # s
      BY <2>3, AnsweredIsGone DEF Flies
    <3>4. \/ RepeatsCount \/ policy.idempotent
          \/ policy.route = "integration"
      BY <1>4 DEF Types, Policies, External, RepeatsCount
    <3>5. Settled(r)
      BY <3>1, <3>3, <3>4 DEF Settled, Flying
    <3>6. Says(r, new.status)
      BY <1>4, <2>2, <2>4, <3>1, <3>2, <3>5 DEF Says, Executable
    <3>7. Claims(r, new.details)
      BY <1>2, <2>2, <2>4, <3>1, <3>5 DEF Claims
    <3> QED
      BY <1>3, <2>1, <2>2, <2>3, <2>4, <3>6, <3>7, FinishKeeps
         DEF was, Executable
  <2>5. CASE op = "cancel"
    <3>1. Settled(r) /\ Undone(r)
      BY <1>2, <1>4, <2>3, <2>5 DEF Mine
    <3>2. Says(r, new.status)
      BY <2>2, <2>5, <3>1 DEF Says, Executable
    <3>3. Claims(r, new.details)
      BY <1>2, <2>2, <3>1 DEF Claims
    <3> QED
      BY <1>3, <2>1, <2>2, <2>3, <2>5, <3>2, <3>3, FinishKeeps
         DEF was, Executable
  <2> QED
    BY <1>4, <2>4, <2>5
<1> QED
  BY <1>6, <1>7

\* The session dies; its request is orphaned.
LEMMA CrashKeeps ==
    ASSUME ActionsInv, Types, Owned, NEW s \in Sessions, NEW r \in Requests,
           Has(s, r), r \notin overlapped, Truth(r), Crash(s)
    PROVE  Truth(r)'
<1>1. /\ Finish(s) /\ GiveUp(s) /\ r \in orphaned'
      /\ UNCHANGED <<policy, row, events, outside>>
  BY DEF Crash, Has
<1>2. Steady(r) /\ SameHooks(r)
  BY <1>1, GiveUpThins DEF Steady, SameHooks, outside
<1> QED
  BY <1>1, <1>2, LeaveKeeps

\* A session goes on with its request, as it was.
LEMMA SlotKeeps ==
    ASSUME ActionsInv, Types, Owned, NEW s \in Sessions, NEW r \in Requests,
           Has(s, r), r \notin overlapped, Truth(r), TakeSlot(s)
    PROVE  Truth(r)'
<1>. DEFINE next == [session[s] EXCEPT !.doing = "place"]
<1>1. row[r].status \in Executable /\ \A t \in Sessions : Has(t, r) => t = s
  BY OnlyOne DEF TakeSlot
<1>2. /\ UNCHANGED <<policy, row, events, wire, hooks, outside, orphaned>>
      /\ Finish(s) \/ session' = [session EXCEPT ![s] = next]
  BY DEF TakeSlot, Become
<1>3. Steady(r) /\ SameHooks(r)
  BY <1>2, QuietSteady
<1>4. CASE Finish(s)
  BY <1>1, <1>2, <1>3, <1>4, LeaveKeeps DEF Executable
<1>5. CASE session' = [session EXCEPT ![s] = next]
  <2>1. session[s] \in Loaded
    BY KindOf DEF TakeSlot, Operations
  <2>2. /\ next.doing = "place" /\ next.was = session[s].was
        /\ next.req = r
    BY <2>1 DEF Loaded, Has
  <2>. HIDE DEF next
  <2>3. \A t \in Sessions : session'[t] = IF t = s THEN next ELSE session[t]
    BY <1>5 DEF Types
  <2>4. Notes(r)' \subseteq Notes(r)
    <3>1. ASSUME NEW t \in Sessions, Has(t, r)'
          PROVE  session'[t].was.details \in Notes(r)
      BY <2>2, <2>3, <3>1 DEF Has, Notes
    <3>2. UNCHANGED <<row, hooks>>
      BY <1>2
    <3> QED
      BY <3>1, <3>2 DEF Notes
  <2>5. Says(r, row[r].status)'
    <3>1. PICK status : status = row[r].status
      OBVIOUS
    <3>2. Says(r, status)'
      BY <1>2, <1>3, <2>4, <3>1, SaysStays DEF Truth
    <3> QED
      BY <1>2, <3>1, <3>2
  <2>6. ASSUME NEW t \in Sessions, Has(t, r)'
        PROVE  Mine(t, r)'
    <3>1. t = s
      BY <1>1, <2>3, <2>6 DEF Has
    <3> QED
      BY <2>2, <2>3, <3>1 DEF Mine
  <2>7. \A d \in Notes(r)' : Claims(r, d)'
    BY <1>3, <2>4, SteadyStays DEF Truth
  <2>8. Flying(r, "cancel")' => Settled(r)'
    BY <1>3, SteadyStays DEF Truth, Steady
  <2> QED
    BY <1>1, <1>2, <2>5, <2>6, <2>7, <2>8 DEF Truth, Executable
<1> QED
  BY <1>2, <1>4, <1>5


\* A session begins a call: what it commits and what it goes on with.
Begins(s, r, op, status, new, call) ==
    LET was == session[s].was
    IN  /\ row'[r].status = status
        /\ row'[r].details \in {row[r].details, new.details}
        /\ new.details # was.details => row'[r].details = new.details
        /\ new.details.receipt = was.details.receipt
        /\ new.details.state = "executing" /\ new.details.operation = op
        /\ wire' = wire \cup {call}
        /\ call.by = s /\ call.req = r /\ call.op = op
        /\ session'[s].doing = "call" /\ session'[s].req = r
        /\ session'[s].call = call /\ session'[s].reply = "none"
        /\ \A t \in Sessions : Has(t, r)' => t = s
        /\ \A d \in Notes(r)' :
              \/ d = row'[r].details
              \/ \E h \in hooks : h.call.req = r /\ d = h.was.details

\* A call begins with what Begins says.
LEMMA BeginsCall ==
    ASSUME ActionsInv, Types, Owned, NEW s \in Sessions, NEW r \in Requests,
           Has(s, r), r \notin overlapped, UNCHANGED hooks,
           NEW op \in {"execute", "cancel"},
           NEW status \in {"executing", "cancelling"},
           BeginCall(s, op, status)
    PROVE  Begins(s, r, op, status,
                  With(session[s].was, status, op, "executing"),
                  [by |-> s, req |-> r, op |-> op])
<1>. DEFINE me   == session[s]
            new  == With(me.was, status, op, "executing")
            call == [by |-> s, req |-> r, op |-> op]
            next == [doing |-> "call", req |-> r, was |-> row'[r],
                     call |-> call, try |-> 1, reply |-> "none"]
<1>1. /\ me.was.status = row[r].status /\ me.was \in Rows /\ me.req = r
      /\ \A t \in Sessions : Has(t, r) => t = s
  BY OnlyOne
<1>2. /\ new \in Rows /\ new.status = status /\ new.details.operation = op
      /\ new.details.state = "executing"
      /\ new.details.receipt = me.was.details.receipt
  <2>1. op \in Operations /\ status \in Statuses /\ "executing" \in States
    BY DEF Operations, Statuses, Unresolved, States
  <2> QED
    BY <1>1, <2>1, WithType
<1>3. /\ Save(r, me.was, new) /\ wire' = wire \cup {call}
      /\ session' = [session EXCEPT ![s] = next]
  BY <1>1 DEF BeginCall, Become
<1>4. /\ call \in Calls /\ call.by = s /\ call.req = r /\ call.op = op
      /\ next.doing = "call" /\ next.req = r /\ next.was = row'[r]
      /\ next.call = call /\ next.reply = "none"
  BY DEF Calls
<1>. HIDE DEF new, call, next, me
<1>5. /\ row'[r].status = status
      /\ row'[r].details = IF new.details = me.was.details
                           THEN row[r].details ELSE new.details
  BY <1>1, <1>2, <1>3, SaveRow DEF Types
<1>6. \A t \in Sessions : session'[t] = IF t = s THEN next ELSE session[t]
  BY <1>3 DEF Types
<1>7. \A t \in Sessions : Has(t, r)' => t = s
  BY <1>1, <1>6 DEF Has
<1>8. session'[s] = next
  BY <1>6
<1>9. \A d \in Notes(r)' :
         \/ d = row'[r].details
         \/ \E h \in hooks : h.call.req = r /\ d = h.was.details
  BY <1>4, <1>7, <1>8 DEF Notes
<1> QED
  <2>1. Begins(s, r, op, status, new, call)
    BY <1>2, <1>3, <1>4, <1>5, <1>7, <1>8, <1>9 DEF Begins, me
  <2> QED
    BY <2>1 DEF new, call, me

\* An execution begins: nothing was on its way before.
LEMMA PlaceKeeps ==
    ASSUME ActionsInv, Types, Owned, NEW s \in Sessions, NEW r \in Requests,
           Has(s, r), r \notin overlapped, Truth(r), PlaceOutside(s)
    PROVE  Truth(r)'
<1>. DEFINE was  == session[s].was
            new  == With(was, "executing", "execute", "executing")
            call == [by |-> s, req |-> r, op |-> "execute"]
<1>0. Begins(s, r, "execute", "executing", new, call)
  BY BeginsCall DEF PlaceOutside
<1>1. UNCHANGED <<policy, hooks, outside>>
  BY DEF PlaceOutside
<1>2. /\ row'[r].status = "executing"
      /\ new.details # was.details => row'[r].details = new.details
      /\ new.details.receipt = was.details.receipt
      /\ new.details.state = "executing"
      /\ new.details.operation = "execute"
      /\ wire' = wire \cup {call}
      /\ call.by = s /\ call.req = r /\ call.op = "execute"
      /\ session'[s].doing = "call" /\ session'[s].req = r
      /\ session'[s].call = call /\ session'[s].reply = "none"
      /\ \A t \in Sessions : Has(t, r)' => t = s
      /\ \A d \in Notes(r)' :
            \/ d = row'[r].details
            \/ \E h \in hooks : h.call.req = r /\ d = h.was.details
  BY <1>0 DEF Begins
<1>3. /\ row[r].status \in Executable /\ was.details \in Notes(r)
  BY OnlyOne DEF PlaceOutside, Placing
<1>4. /\ ~Flying(r, "execute") /\ ~Flying(r, "cancel")
      /\ executed[r] = 0 /\ reversed[r] = 0 /\ was.details = Blank
  BY <1>3 DEF Truth, Says
<1>. HIDE DEF was, new, call
<1>5. \A c \in Calls : Flies(c) => c.req # r
  BY <1>4 DEF Flying, Calls
<1>6. \A h \in hooks : h.call.req # r
  BY <1>5 DEF Flies, Types, Hooks
<1>7. \A c \in Calls : c.req = r /\ Flies(c)' => c = call
  BY <1>1, <1>2, <1>5 DEF Flies
<1>8. \A d \in Notes(r)' : d = row'[r].details
  BY <1>2, <1>6
<1>9. /\ row'[r].details.receipt = "none"
      /\ row'[r].details.state = "executing"
      /\ row'[r].details.operation = "execute"
  BY <1>2, <1>4 DEF Blank
<1>10. \A d \in Notes(r)' : /\ Claims(r, d)' /\ ~Free(d)
                            /\ d.receipt # "cancel"
  BY <1>8, <1>9 DEF Claims, Free
<1>11. ~Flying(r, "cancel")'
  BY <1>2, <1>7 DEF Flying
<1>12. Says(r, row[r].status)'
  BY <1>1, <1>2, <1>4, <1>11 DEF Says, Executable, outside
<1>13. Has(s, r)' /\ Calling(s)' /\ Mine(s, r)'
  BY <1>2, <1>7, <1>10 DEF Has, Calling, Mine
<1> QED
  BY <1>2, <1>10, <1>11, <1>12, <1>13 DEF Truth

\* A cancellation begins: the executions are counted.
LEMMA CancelKeeps ==
    ASSUME ActionsInv, Types, Owned, NEW s \in Sessions, NEW r \in Requests,
           Has(s, r), r \notin overlapped, Truth(r), CancelOutside(s)
    PROVE  Truth(r)'
<1>. DEFINE was  == session[s].was
            new  == With(was, "cancelling", "cancel", "executing")
            call == [by |-> s, req |-> r, op |-> "cancel"]
<1>0. Begins(s, r, "cancel", "cancelling", new, call)
  BY BeginsCall DEF CancelOutside
<1>1. External /\ UNCHANGED <<policy, hooks, outside>>
  BY DEF CancelOutside, CancelIsPlain
<1>2. /\ row'[r].status = "cancelling"
      /\ row'[r].details \in {row[r].details, new.details}
      /\ new.details.receipt = was.details.receipt
      /\ new.details.state = "executing"
      /\ new.details.operation = "cancel"
      /\ wire' = wire \cup {call}
      /\ call.by = s /\ call.req = r /\ call.op = "cancel"
      /\ session'[s].doing = "call" /\ session'[s].req = r
      /\ session'[s].call = call /\ session'[s].reply = "none"
      /\ \A t \in Sessions : Has(t, r)' => t = s
      /\ \A d \in Notes(r)' :
            \/ d = row'[r].details
            \/ \E h \in hooks : h.call.req = r /\ d = h.was.details
  BY <1>0 DEF Begins
<1>3. was.details \in Notes(r) /\ row[r].details \in Notes(r)
  BY OnlyOne
<1>4. /\ Mine(s, r) /\ Claims(r, was.details) /\ session[s].doing = "cancel"
  BY <1>3 DEF Truth, CancelOutside
<1>5. Settled(r)
  BY <1>1, <1>4 DEF Mine, Claims
<1>. HIDE DEF was, new, call
<1>6. Flying(r, "execute")' => Flying(r, "execute")
  BY <1>1, <1>2 DEF Flying, Flies
<1>7. /\ Settled(r)' /\ (Undone(r) => Undone(r)')
      /\ \A d : Claims(r, d) => Claims(r, d)'
  <2>1. Settled(r)' /\ (Undone(r) => Undone(r)')
    BY <1>1, <1>5, <1>6 DEF Settled, Undone, RepeatsCount, outside
  <2> QED
    BY <1>1, <2>1, ClaimsStay DEF outside
<1>8. Claims(r, new.details)
  BY <1>2, <1>4 DEF Claims, Free
<1>9. \A d \in Notes(r)' : Claims(r, d)'
  <2>1. \A h \in hooks : h.call.req = r => h.was.details \in Notes(r)
    BY DEF Notes
  <2> QED
    BY <1>2, <1>3, <1>7, <1>8, <2>1 DEF Truth
<1>10. Says(r, row[r].status)'
  BY <1>2 DEF Says, Executable
<1>11. Has(s, r)' /\ Calling(s)' /\ Mine(s, r)'
  BY <1>2, <1>7 DEF Has, Calling, Mine
<1> QED
  BY <1>2, <1>7, <1>9, <1>10, <1>11 DEF Truth

\* The same call again, its first attempt still on its way.
LEMMA RepeatKeeps ==
    ASSUME ActionsInv, Types, Owned, NEW s \in Sessions, NEW r \in Requests,
           Has(s, r), r \notin overlapped, Truth(r), CallRepeated(s)
    PROVE  Truth(r)'
<1>. DEFINE me   == session[s]
            call == session[s].call
            next == [me EXCEPT !.try = @ + 1, !.reply = "none"]
<1>1. /\ session' = [session EXCEPT ![s] = next]
      /\ wire' = {call} \cup {IF c = call THEN Late(c) ELSE c : c \in wire}
      /\ hooks' = {IF h.call = call THEN [h EXCEPT !.call = Late(@)] ELSE h :
                      h \in hooks}
      /\ UNCHANGED <<policy, row, events, outside, orphaned>>
      /\ policy.route # "integration"
  BY DEF CallRepeated, Become, LastTry
<1>2. /\ me \in Callers /\ call \in Calls /\ call.req = r
  BY CallOfSession DEF CallRepeated, Has
<1>3. /\ next.doing = "call" /\ next.call = call /\ next.reply = "none"
      /\ next.req = r /\ next.was = me.was /\ me.doing = "call"
  BY <1>2 DEF Callers, Has
<1>4. /\ \A t \in Sessions : Has(t, r) => t = s
      /\ Mine(s, r) /\ Says(r, row[r].status)
  BY OnlyOne DEF Truth
<1>5. call.op \in {"execute", "cancel"}
  BY <1>2 DEF Calls
<1>. HIDE DEF next, call, me
<1>6. \A t \in Sessions : session'[t] = IF t = s THEN next ELSE session[t]
  BY <1>1 DEF Types
<1>7. Late(call).req = r /\ Late(call).op = call.op
  BY <1>2 DEF Late, Calls
<1>8. \A c \in wire' : c \in wire \/ (c.req = r /\ c.op = call.op)
  BY <1>1, <1>2, <1>7
<1>9. ASSUME NEW h \in hooks'
      PROVE  /\ \E g \in hooks : g.was = h.was /\ g.call.req = h.call.req
             /\ h \in hooks \/ h.call.op = call.op
  <2>1. PICK g \in hooks :
           h = IF g.call = call THEN [g EXCEPT !.call = Late(@)] ELSE g
    BY <1>1
  <2>2. /\ [g EXCEPT !.call = Late(@)].call = Late(g.call)
        /\ [g EXCEPT !.call = Late(@)].was = g.was
    BY DEF Types, Hooks
  <2> QED
    BY <1>2, <1>7, <2>1, <2>2
<1>10. \A op \in {"execute", "cancel"} :
          op # call.op /\ Flying(r, op)' => Flying(r, op)
  <2>1. ASSUME NEW op, op # call.op, Flying(r, op)'
        PROVE  Flying(r, op)
    <3>1. PICK c \in Calls : Flies(c)' /\ c.req = r /\ c.op = op
      BY <2>1 DEF Flying
    <3>2. Flies(c)
      BY <1>8, <1>9, <2>1, <3>1 DEF Flies
    <3> QED
      BY <3>1, <3>2 DEF Flying
  <2> QED
    BY <2>1
<1>11. Notes(r)' \subseteq Notes(r)
  <2>1. ASSUME NEW t \in Sessions, Has(t, r)'
        PROVE  session'[t].was.details \in Notes(r)
    BY <1>3, <1>6, <2>1 DEF Has, Notes, me
  <2>2. ASSUME NEW h \in hooks', h.call.req = r
        PROVE  h.was.details \in Notes(r)
    BY <1>9, <2>2 DEF Notes
  <2> QED
    BY <1>1, <2>1, <2>2 DEF Notes
<1>12. \A t \in Sessions : Has(t, r)' => t = s /\ Has(s, r)
  BY <1>4, <1>6 DEF Has
<1>13. Has(s, r)' /\ Calling(s)'
  BY <1>3, <1>6 DEF Has, Calling
<1>14. CASE call.op = "execute"
  <2>1. /\ row[r].status = "executing"
        /\ \A d \in Notes(r) : ~Free(d) /\ d.receipt # "cancel"
    BY <1>3, <1>4, <1>14 DEF Mine, me, call
  <2>2. reversed[r] = 0 /\ ~Flying(r, "cancel") /\ ~Flying(r, "cancel")'
    BY <1>4, <1>10, <1>14, <2>1 DEF Says
  <2>3. Says(r, row[r].status)'
    BY <1>1, <2>1, <2>2 DEF Says, Executable, outside
  <2>4. \A d \in Notes(r)' : ~Free(d) /\ d.receipt # "cancel"
    BY <1>11, <2>1
  <2>5. \A d \in Notes(r)' : Claims(r, d)'
    <3>1. ASSUME NEW d \in Notes(r)'
          PROVE  Claims(r, d)'
      <4>1. Claims(r, d) /\ ~Free(d) /\ d.receipt # "cancel"
        BY <1>11, <2>4 DEF Truth
      <4> QED
        BY <1>1, <4>1 DEF Claims, Free, outside
    <3> QED
      BY <3>1
  <2>6. Mine(s, r)'
    BY <1>1, <1>3, <1>6, <1>14, <2>1, <2>4 DEF Mine
  <2> QED
    BY <1>1, <1>12, <1>13, <2>2, <2>3, <2>5, <2>6 DEF Truth
<1>15. CASE call.op = "cancel"
  <2>1. row[r].status = "cancelling" /\ Settled(r)
    BY <1>3, <1>4, <1>15 DEF Mine, me, call
  <2>2. /\ Settled(r)' /\ (Undone(r) => Undone(r)')
        /\ \A d : Claims(r, d) => Claims(r, d)'
    <3>1. Settled(r)' /\ (Undone(r) => Undone(r)')
      BY <1>1, <1>10, <1>15, <2>1 DEF Settled, Undone, RepeatsCount, outside
    <3> QED
      BY <1>1, <3>1, ClaimsStay DEF outside
  <2>3. Says(r, row[r].status)'
    BY <1>1, <2>1 DEF Says, Executable
  <2>4. \A d \in Notes(r)' : Claims(r, d)'
    BY <1>11, <2>2 DEF Truth
  <2>5. Mine(s, r)'
    BY <1>1, <1>3, <1>6, <1>15, <2>1, <2>2 DEF Mine
  <2> QED
    BY <1>12, <1>13, <2>2, <2>3, <2>4, <2>5 DEF Truth
<1> QED
  BY <1>5, <1>14, <1>15

\* Every step of a session keeps the truth of every request.
LEMMA SessionKeepsTruth ==
    ASSUME ActionsInv, Types, Owned, NEW s \in Sessions,
           SessionStep(s) \/ Crash(s), NEW r \in Requests,
           r \notin overlapped, Truth(r)
    PROVE  Truth(r)'
<1>1. CASE r # session[s].req
  BY <1>1, SessionElsewhere, ElsewhereKeeps
<1>2. CASE Has(s, r)
  BY <1>2, PlainKeeps, CallEnds, CrashKeeps, SlotKeeps, PlaceKeeps,
     CancelKeeps, RepeatKeeps DEF SessionStep
<1> QED
  BY <1>1, <1>2 DEF Has


\* What a call on its way may change for its request.
LEMMA EffectStays ==
    ASSUME Types, NEW call \in Calls, Flies(call), NEW r, r = call.req,
           UNCHANGED policy, UNCHANGED outside \/ TakesEffect(r, call.op),
           \A c \in Calls : c.req = r /\ Flies(c)' => Flies(c)
    PROVE  /\ executed[r] > 0 => executed'[r] > 0
           /\ Settled(r) => Settled(r)'
           /\ Settled(r) /\ Undone(r) => Undone(r)'
           /\ \A op : Flying(r, op)' => Flying(r, op)
           /\ call.op = "execute" => reversed'[r] = reversed[r]
           /\ Flying(r, call.op)
           /\ External' <=> External
<1>1. call.op \in {"execute", "cancel"} /\ r \in Requests
  BY DEF Calls
<1>2. /\ executed \in [Requests -> Nat] /\ reversed \in [Requests -> Nat]
  BY DEF Types
<1>3. \/ executed'[r] = executed[r] /\ reversed'[r] = reversed[r]
      \/ /\ call.op = "cancel" /\ executed'[r] = executed[r]
         /\ reversed'[r] = executed[r]
      \/ /\ call.op = "execute" /\ reversed'[r] = reversed[r]
         /\ executed'[r] = IF policy.idempotent /\ executed[r] > 0
                           THEN executed[r] ELSE executed[r] + 1
  <2>1. CASE UNCHANGED outside
    BY <2>1 DEF outside
  <2>2. CASE TakesEffect(r, call.op)
    BY <1>1, <2>2, EffectTypes
  <2> QED
    BY <2>1, <2>2
<1>4. executed[r] \in Nat /\ reversed[r] \in Nat
  BY <1>1, <1>2
<1>5. executed[r] > 0 => executed'[r] > 0
  BY <1>3, <1>4
<1>6. \A op : Flying(r, op)' => Flying(r, op)
  BY DEF Flying
<1>7. Flying(r, call.op)
  BY DEF Flying
<1>8. (RepeatsCount' <=> RepeatsCount) /\ (External' <=> External)
  BY DEF RepeatsCount, External
<1>9. Settled(r) => Settled(r)'
  BY <1>5, <1>6, <1>8 DEF Settled
<1>10. Settled(r) /\ Undone(r) => Undone(r)'
  BY <1>3, <1>7, <1>8 DEF Settled, Undone
<1>11. call.op = "execute" => reversed'[r] = reversed[r]
  BY <1>3
<1> QED
  BY <1>5, <1>6, <1>7, <1>8, <1>9, <1>10, <1>11

\* The row of a request keeps its status while a call arrives.
LEMMA ArrivalSays ==
    ASSUME Types, NEW call \in Calls, Flies(call), NEW r, r = call.req,
           UNCHANGED <<policy, events>>,
           UNCHANGED outside \/ TakesEffect(r, call.op),
           \A c \in Calls : c.req = r /\ Flies(c)' => Flies(c),
           Truth(r), row'[r].status = row[r].status
    PROVE  /\ Says(r, row[r].status)'
           /\ call.op = "cancel" => /\ row[r].status # "executing"
                                    /\ Settled(r)
           /\ row[r].status \notin Executable \cup {"none"}
<1>1. /\ executed[r] > 0 => executed'[r] > 0
      /\ Settled(r) => Settled(r)'
      /\ Settled(r) /\ Undone(r) => Undone(r)'
      /\ \A op : Flying(r, op)' => Flying(r, op)
      /\ call.op = "execute" => reversed'[r] = reversed[r]
      /\ Flying(r, call.op)
      /\ External' <=> External
  BY EffectStays
<1>2. Says(r, row[r].status) /\ call.op \in {"execute", "cancel"}
  BY DEF Truth, Calls
<1>3. row[r].status \notin Executable \cup {"none"}
  BY <1>1, <1>2 DEF Says
<1>4. call.op = "cancel" => row[r].status \notin {"executing", "confirmed"}
                            /\ Settled(r)
  BY <1>1, <1>2 DEF Says, Truth
<1>5. Says(r, row[r].status)'
  BY <1>1, <1>2, <1>3, <1>4 DEF Says
<1> QED
  BY <1>3, <1>4, <1>5

\* A note taken while a call arrives, from one there was.
LEMMA ArrivalKeeps ==
    ASSUME Types, Owned, NEW call \in Calls, Flies(call),
           NEW r, r = call.req, Truth(r),
           UNCHANGED <<policy, events, orphaned>>,
           UNCHANGED outside \/ TakesEffect(r, call.op),
           \A c \in Calls : c.req = r /\ Flies(c)' => Flies(c),
           row'[r].status = row[r].status,
           \/ UNCHANGED session
           \/ Answer(call, "no")
           \/ /\ Answer(call, "yes")
              /\ call.op = "execute" => executed'[r] > 0
              /\ call.op = "cancel" => Undone(r)',
           \A d \in Notes(r)' : \/ d \in Notes(r)
                                \/ \E n \in Notes(r) :
                                      /\ d.state = n.state
                                      /\ d.operation = n.operation
                                      /\ d.receipt = call.op
                                      /\ call.op = "execute" =>
                                            executed'[r] > 0
                                      /\ call.op = "cancel" => Undone(r)'
    PROVE  Truth(r)'
<1>1. /\ executed[r] > 0 => executed'[r] > 0
      /\ Settled(r) => Settled(r)'
      /\ Settled(r) /\ Undone(r) => Undone(r)'
      /\ \A op : Flying(r, op)' => Flying(r, op)
      /\ External' <=> External
  BY EffectStays
<1>2. /\ Says(r, row[r].status)'
      /\ call.op = "cancel" => row[r].status # "executing" /\ Settled(r)
  BY ArrivalSays
<1>3. r \in Requests /\ call.op \in {"execute", "cancel"}
  BY DEF Calls
<1>4. \A d : Claims(r, d) => Claims(r, d)'
  BY <1>1, <1>3, ClaimsStay
<1>5. ASSUME NEW d \in Notes(r)'
      PROVE  Claims(r, d)'
  <2>1. CASE d \in Notes(r)
    BY <1>4, <2>1 DEF Truth
  <2>2. CASE d \notin Notes(r)
    <3>1. PICK n \in Notes(r) : /\ d.state = n.state
                                /\ d.operation = n.operation
                                /\ d.receipt = call.op
                                /\ call.op = "execute" => executed'[r] > 0
                                /\ call.op = "cancel" => Undone(r)'
      BY <2>2
    <3>2. Claims(r, n)'
      BY <1>4 DEF Truth
    <3>3. Claims(r, d)'
      BY <1>1, <1>2, <1>3, <3>1, <3>2 DEF Claims, Free
    <3> QED
      BY <3>3
  <2> QED
    BY <2>1, <2>2
<1>6. ASSUME NEW s \in Sessions
      PROVE  /\ session'[s].req = session[s].req
             /\ session'[s].doing = session[s].doing
             /\ Has(s, r) => session'[s].was = session[s].was
             /\ session[s].doing = "call" =>
                   session'[s].call = session[s].call
             /\ session'[s].reply = "yes" =>
                   \/ session[s].reply = "yes" \/ session'[s] = session[s]
                   \/ /\ session[s].call = call
                      /\ call.op = "execute" => executed'[r] > 0
                      /\ call.op = "cancel" => Undone(r)'
  <2>1. CASE UNCHANGED session
    BY <2>1
  <2>2. CASE UNCHANGED session \/ s # call.by
    <3>1. session'[s] = session[s]
      <4>1. ASSUME NEW reply \in {"yes", "no"}, Answer(call, reply),
                   s # call.by
            PROVE  session'[s] = session[s]
        BY <4>1, AnswerIs
      <4> QED
        BY <2>2, <4>1
    <3> QED
      BY <3>1
  <2>3. ASSUME NEW reply \in {"yes", "no"}, Answer(call, reply), s = call.by
        PROVE  /\ session[s] \in Callers /\ session'[s] \in Callers
               /\ session[s].call = call /\ session[s].req = r
               /\ session'[s].reply = reply /\ session'[s].call = call
               /\ session'[s].req = r /\ session'[s].was = session[s].was
    <3>1. s # Nobody
      BY ActionsAssumption
    <3> QED
      BY <2>3, <3>1, AnswerIs
  <2>4. CASE s = call.by /\ ~UNCHANGED session
    BY <2>3, <2>4 DEF Callers
  <2> QED
    BY <2>2, <2>4
<1>7. ASSUME NEW s \in Sessions, Has(s, r)'
      PROVE  Mine(s, r)'
  <2>1. Has(s, r) /\ Mine(s, r)
    BY <1>6, <1>7 DEF Has, Truth
  <2>2. /\ session'[s].doing = "prepare" =>
              session'[s].was.status = "awaiting_confirmation"
        /\ session'[s].doing = "cancel" /\ External' =>
              Free(session'[s].was.details)
    BY <1>1, <1>6, <2>1 DEF Mine
  <2>3. ASSUME session'[s].doing = "call", session'[s].call.op = "execute"
        PROVE  /\ row'[r].status = "executing"
               /\ session'[s].reply = "yes" => executed'[r] > 0
               /\ \A d \in Notes(r)' : ~Free(d) /\ d.receipt # "cancel"
               /\ policy'.route = "integration" =>
                     \A c \in Calls :
                        Flies(c)' /\ c.req = r /\ c.op = "execute" => c.by = s
    <3>1. /\ session[s].doing = "call" /\ session[s].call.op = "execute"
      BY <1>6, <2>3
    <3>2. /\ row[r].status = "executing"
          /\ session[s].reply = "yes" => executed[r] > 0
          /\ \A d \in Notes(r) : ~Free(d) /\ d.receipt # "cancel"
          /\ policy.route = "integration" =>
                \A c \in Calls :
                   Flies(c) /\ c.req = r /\ c.op = "execute" => c.by = s
      BY <2>1, <3>1 DEF Mine
    <3>3. \A d \in Notes(r)' : ~Free(d) /\ d.receipt # "cancel"
      BY <1>2, <1>3, <3>2 DEF Free
    <3>4. session'[s].reply = "yes" => executed'[r] > 0
      BY <1>1, <1>6, <3>1, <3>2
    <3> QED
      BY <3>2, <3>3, <3>4
  <2>4. ASSUME session'[s].doing = "call", session'[s].call.op = "cancel"
        PROVE  /\ row'[r].status = "cancelling" /\ Settled(r)'
               /\ session'[s].reply = "yes" => Undone(r)'
    <3>1. /\ session[s].doing = "call" /\ session[s].call.op = "cancel"
      BY <1>6, <2>4
    <3>2. /\ row[r].status = "cancelling" /\ Settled(r)
          /\ session[s].reply = "yes" => Undone(r)
      BY <2>1, <3>1 DEF Mine
    <3>3. session'[s].reply = "yes" => Undone(r)'
      BY <1>1, <1>6, <3>1, <3>2
    <3> QED
      BY <1>1, <3>2, <3>3
  <2> QED
    BY <2>2, <2>3, <2>4 DEF Mine
<1>8. Flying(r, "cancel")' => Settled(r)'
  BY <1>1 DEF Truth
<1>9. row'[r].status \in {"executing", "cancelling"} =>
         r \in orphaned' \/ \E s \in Sessions : Has(s, r)' /\ Calling(s)'
  <2>1. \A s \in Sessions : Has(s, r) /\ Calling(s) =>
                               Has(s, r)' /\ Calling(s)'
    BY <1>6 DEF Has, Calling
  <2> QED
    BY <2>1 DEF Truth
<1> QED
  BY <1>2, <1>5, <1>7, <1>8, <1>9 DEF Truth


\* An effect is counted.
LEMMA EffectShows ==
    ASSUME Types, NEW call \in Calls, NEW r, r = call.req,
           TakesEffect(r, call.op), UNCHANGED policy
    PROVE  /\ call.op = "execute" => executed'[r] > 0
           /\ call.op = "cancel" => Undone(r)'
<1>1. r \in Requests /\ call.op \in {"execute", "cancel"}
  BY DEF Calls
<1>2. /\ IF call.op = "cancel"
         THEN executed'[r] = executed[r] /\ reversed'[r] = executed[r]
         ELSE executed'[r] = IF policy.idempotent /\ executed[r] > 0
                             THEN executed[r] ELSE executed[r] + 1
  BY <1>1, EffectTypes
<1>3. executed[r] \in Nat
  BY <1>1 DEF Types
<1> QED
  BY <1>1, <1>2, <1>3 DEF Undone

\* The notes of r after a call or a callback, sessions' apart.
LEMMA ArrivalNotes ==
    ASSUME Types, Owned, NEW call \in Calls, Flies(call),
           NEW r, r = call.req,
           \/ UNCHANGED session
           \/ \E reply \in {"yes", "no"} : Answer(call, reply)
    PROVE  \A d \in Notes(r)' :
              \/ d \in Notes(r) \/ d = row'[r].details
              \/ \E h \in hooks' : h.call.req = r /\ d = h.was.details
<1>1. ASSUME NEW s \in Sessions, session'[s].req = r
      PROVE  Has(s, r) /\ session'[s].was = session[s].was
  <2>1. CASE UNCHANGED session
    BY <1>1, <2>1 DEF Has
  <2>2. ASSUME NEW reply \in {"yes", "no"}, Answer(call, reply)
        PROVE  Has(s, r) /\ session'[s].was = session[s].was
    <3>1. CASE s # call.by
      BY <1>1, <2>2, <3>1, AnswerIs DEF Has
    <3>2. CASE s = call.by
      <4>1. s # Nobody
        BY ActionsAssumption
      <4> QED
        BY <2>2, <3>2, <4>1, AnswerIs DEF Has
    <3> QED
      BY <3>1, <3>2
  <2> QED
    BY <2>1, <2>2
<1> QED
  BY <1>1 DEF Notes, Has

\* A call arrives at the other system.
LEMMA ArrivesKeeps ==
    ASSUME Types, Owned, NEW call \in wire, Arrives(call),
           NEW r, r = call.req, Truth(r)
    PROVE  Truth(r)'
<1>. USE DEF outside
<1>1. /\ call \in Calls /\ Flies(call) /\ row' = row
      /\ UNCHANGED <<policy, events, orphaned, hooks>>
      /\ UNCHANGED outside \/ TakesEffect(r, call.op)
      /\ \A c \in Calls : c.req = r /\ Flies(c)' => Flies(c)
  BY DEF Arrives, Flies, Types
<1>2. \/ Answer(call, "no")
      \/ Answer(call, "yes") /\ TakesEffect(r, call.op)
  BY DEF Arrives
<1>3. \A d \in Notes(r)' : d \in Notes(r)
  <2>1. \A h \in hooks' : h.call.req = r => h.was.details \in Notes(r)
    BY <1>1 DEF Notes
  <2>2. row'[r].details \in Notes(r)
    BY <1>1 DEF Notes
  <2> QED
    BY <1>1, <1>2, <2>1, <2>2, ArrivalNotes
<1>4. \/ Answer(call, "no")
      \/ /\ Answer(call, "yes")
         /\ call.op = "execute" => executed'[r] > 0
         /\ call.op = "cancel" => Undone(r)'
  BY <1>1, <1>2, EffectShows
<1>. HIDE DEF outside
<1> QED
  BY <1>1, <1>3, <1>4, ArrivalKeeps

\* A callback begins, or finds the receipt.
LEMMA HookLoadsKeeps ==
    ASSUME Types, Owned, NEW call \in wire, HookLoads(call),
           NEW r, r = call.req, Truth(r)
    PROVE  Truth(r)'
<1>1. /\ call \in Calls /\ Flies(call) /\ r \in Requests
      /\ call.op \in {"execute", "cancel"}
  BY DEF Flies, Types, Calls
<1>2. /\ UNCHANGED <<policy, events, orphaned, outside, row>>
      /\ wire' = wire \ {call}
  BY DEF HookLoads, outside
<1>3. \/ Answer(call, "yes") /\ row[r].details.receipt = call.op
         /\ UNCHANGED hooks
      \/ /\ hooks' = hooks \cup {[call |-> call, was |-> row[r]]}
         /\ UNCHANGED session
  BY DEF HookLoads
<1>4. \A c \in Calls : c.req = r /\ Flies(c)' => Flies(c)
  BY <1>1, <1>2, <1>3 DEF Flies
<1>5. row[r].details \in Notes(r) /\ Claims(r, row[r].details)
  BY DEF Notes, Truth
<1>6. UNCHANGED session \/ \E reply \in {"yes", "no"} : Answer(call, reply)
  BY <1>3
<1>7. \A h \in hooks' : h.call.req = r => h.was.details \in Notes(r)
  <2>1. \A h \in hooks : h.call.req = r => h.was.details \in Notes(r)
    BY DEF Notes
  <2> QED
    BY <1>3, <1>5, <2>1
<1>8. \A d \in Notes(r)' : d \in Notes(r)
  BY <1>1, <1>2, <1>5, <1>6, <1>7, ArrivalNotes
<1>9. Answer(call, "yes") /\ row[r].details.receipt = call.op =>
         /\ call.op = "execute" => executed'[r] > 0
         /\ call.op = "cancel" => Undone(r)'
  BY <1>2, <1>5 DEF Claims, Undone, RepeatsCount, outside
<1>10. \/ UNCHANGED session
       \/ /\ Answer(call, "yes")
          /\ call.op = "execute" => executed'[r] > 0
          /\ call.op = "cancel" => Undone(r)'
  BY <1>3, <1>9
<1> QED
  BY <1>1, <1>2, <1>4, <1>8, <1>10, ArrivalKeeps

\* A callback ends and writes into the details it loaded.
LEMMA HookEndsKeeps ==
    ASSUME Types, Owned, NEW h \in hooks, HookEnds(h),
           NEW r, r = h.call.req, Truth(r)
    PROVE  Truth(r)'
<1>. DEFINE call == h.call
            new  == [h.was EXCEPT !.details.receipt = h.call.op]
<1>1. /\ call \in Calls /\ Flies(call) /\ r \in Requests
      /\ call.op \in {"execute", "cancel"} /\ h.was \in Rows
      /\ call.req = r
  BY DEF Flies, Types, Hooks, Calls
<1>2. /\ UNCHANGED <<policy, events, orphaned, wire>>
      /\ hooks' = hooks \ {h}
  BY DEF HookEnds
<1>3. \/ /\ TakesEffect(r, call.op) /\ Save(r, h.was, new)
         /\ Answer(call, "yes")
      \/ Answer(call, "no") /\ UNCHANGED <<outside, row>>
  BY DEF HookEnds
<1>4. \A c \in Calls : c.req = r /\ Flies(c)' => Flies(c)
  BY <1>2 DEF Flies
<1>5. /\ new \in Rows /\ new.status = h.was.status
      /\ new.details.state = h.was.details.state
      /\ new.details.operation = h.was.details.operation
      /\ new.details.receipt = call.op
  BY <1>1 DEF Rows, Details
<1>6. /\ h.was.details \in Notes(r) /\ row[r].details \in Notes(r)
      /\ \A g \in hooks' : g.call.req = r => g.was.details \in Notes(r)
  BY <1>1, <1>2 DEF Notes
<1>. HIDE DEF new, call
<1>7. /\ row'[r].status = row[r].status
      /\ \/ row'[r].details = row[r].details
         \/ /\ row'[r].details = new.details /\ TakesEffect(r, call.op)
  <2>1. CASE Save(r, h.was, new) /\ TakesEffect(r, call.op)
    BY <1>1, <1>5, <2>1, SaveRow DEF Types
  <2> QED
    BY <1>3, <2>1
<1>8. /\ TakesEffect(r, call.op) =>
            /\ call.op = "execute" => executed'[r] > 0
            /\ call.op = "cancel" => Undone(r)'
  BY <1>1, <1>2, EffectShows
<1>9. UNCHANGED session \/ \E reply \in {"yes", "no"} : Answer(call, reply)
  BY <1>3
<1>10. \A d \in Notes(r)' : d \in Notes(r) \/ d = row'[r].details
  BY <1>1, <1>6, <1>9, ArrivalNotes
<1>12. \A d \in Notes(r)' :
          \/ d \in Notes(r)
          \/ \E n \in Notes(r) :
                /\ d.state = n.state /\ d.operation = n.operation
                /\ d.receipt = call.op
                /\ call.op = "execute" => executed'[r] > 0
                /\ call.op = "cancel" => Undone(r)'
  BY <1>5, <1>6, <1>7, <1>8, <1>10
<1>13. \/ Answer(call, "no")
       \/ /\ Answer(call, "yes")
          /\ call.op = "execute" => executed'[r] > 0
          /\ call.op = "cancel" => Undone(r)'
  BY <1>3, <1>8
<1>14. UNCHANGED outside \/ TakesEffect(r, call.op)
  BY <1>3
<1> QED
  BY <1>1, <1>2, <1>4, <1>7, <1>12, <1>13, <1>14, ArrivalKeeps

\* Whatever arrives keeps the truth of every request.
LEMMA WorldKeepsTruth ==
    ASSUME Types, Owned,
           \/ \E call \in wire : Arrives(call) \/ HookLoads(call)
           \/ \E h \in hooks : HookEnds(h),
           NEW r \in Requests, Truth(r)
    PROVE  Truth(r)'
<1>1. ASSUME NEW call \in wire, Arrives(call) \/ HookLoads(call)
      PROVE  Truth(r)'
  <2>1. call \in Calls /\ Flies(call)
    BY <1>1 DEF Types, Flies
  <2>2. CASE r # call.req
    BY <1>1, <2>1, <2>2, WorldElsewhere, ElsewhereKeeps
  <2>3. CASE r = call.req
    BY <1>1, <2>3, ArrivesKeeps, HookLoadsKeeps
  <2> QED
    BY <2>2, <2>3
<1>2. ASSUME NEW h \in hooks, HookEnds(h)
      PROVE  Truth(r)'
  <2>1. h.call \in Calls /\ Flies(h.call)
    BY <1>2 DEF Types, Hooks, Flies
  <2>2. CASE r # h.call.req
    BY <1>2, <2>1, <2>2, WorldElsewhere, ElsewhereKeeps
  <2>3. CASE r = h.call.req
    BY <1>2, <2>3, HookEndsKeeps
  <2> QED
    BY <2>2, <2>3
<1> QED
  BY <1>1, <1>2

\* A person's step leaves a request irregular, or has to do with others.
LEMMA PeopleKeepTruth ==
    ASSUME ActionsInv, Types, Owned, NEW r \in Requests, Truth(r),
           r \notin overlapped' \cup touched',
           \/ \E q \in Requests : \/ Prepare(q) \/ Reconcile(q)
                                  \/ DeskLoads(q) \/ AdminSets(q)
           \/ \E s \in Sessions, q \in Requests :
                 \E operation \in Operations \cup {"prepare"} :
                    Load(s, q, operation)
           \/ DeskWrites
    PROVE  Truth(r)'
<1>. USE DEF outside
<1>1. CASE \/ DeskWrites
           \/ \E q \in Requests : Reconcile(q) \/ AdminSets(q)
                                  \/ DeskLoads(q)
  <2>1. row'[r] = row[r]
    <3>1. CASE DeskWrites
      <4>1. desk.req # r
        BY <3>1 DEF DeskWrites, Decide
      <4> QED
        BY <3>1, <4>1 DEF DeskWrites, Types
    <3>2. ASSUME NEW q \in Requests, Reconcile(q) \/ AdminSets(q)
          PROVE  row'[r] = row[r]
      <4>1. q # r
        BY <3>2 DEF Reconcile, AdminSets, Decide
      <4> QED
        BY <3>2, <4>1 DEF Reconcile, AdminSets, Types
    <3>3. ASSUME NEW q \in Requests, DeskLoads(q)
          PROVE  row'[r] = row[r]
      BY <3>3 DEF DeskLoads
    <3> QED
      BY <1>1, <3>1, <3>2, <3>3
  <2>2. UNCHANGED <<policy, events, session, wire, hooks, outside, orphaned>>
    BY <1>1 DEF DeskWrites, Reconcile, AdminSets, DeskLoads
  <2>3. Elsewhere(r)
    BY <2>1, <2>2 DEF Elsewhere, Flies
  <2> QED
    BY <2>3, ElsewhereKeeps
<1>2. ASSUME NEW q \in Requests, Prepare(q)
      PROVE  Truth(r)'
  <2>1. UNCHANGED <<policy, events, session, wire, hooks, outside, orphaned>>
    BY <1>2 DEF Prepare
  <2>2. CASE q # r
    <3>1. row'[r] = row[r]
      BY <1>2, <2>2 DEF Prepare, Types
    <3> QED
      BY <2>1, <3>1, ElsewhereKeeps DEF Elsewhere, Flies
  <2>3. CASE q = r
    <3>1. /\ row[r].status = "none"
          /\ row'[r].status = "awaiting_confirmation"
          /\ row'[r].details = row[r].details
      BY <1>2, <2>3 DEF Prepare, Types, Rows
    <3>2. /\ \A op : Flying(r, op)' <=> Flying(r, op)
          /\ \A d : Claims(r, d)' <=> Claims(r, d)
          /\ Notes(r)' = Notes(r) /\ (Settled(r)' <=> Settled(r))
          /\ \A s \in Sessions : Has(s, r)' <=> Has(s, r)
      BY <2>1, <3>1 DEF Flying, Flies, Claims, Settled, Undone, RepeatsCount,
                        Notes, Has
    <3>3. Says(r, row[r].status)'
      BY <2>1, <3>1, <3>2 DEF Truth, Says, Executable
    <3>4. ASSUME NEW s \in Sessions, Has(s, r)'
          PROVE  FALSE
      <4>1. session[s].req = r /\ session[s] # Idle
        BY <2>1, <3>4, ActionsAssumption DEF Has, Idle
      <4> QED
        BY <3>1, <4>1 DEF ActionsInv, Shape
    <3> QED
      BY <3>1, <3>2, <3>3, <3>4 DEF Truth
  <2> QED
    BY <2>2, <2>3
<1>3. ASSUME NEW s \in Sessions, NEW q \in Requests,
             NEW operation \in Operations \cup {"prepare"},
             Load(s, q, operation)
      PROVE  Truth(r)'
  <2>. DEFINE next == [doing |-> operation, req |-> q, was |-> row[q]]
  <2>1. /\ UNCHANGED <<policy, row, events, wire, hooks, outside, orphaned>>
        /\ session' = [session EXCEPT ![s] = next] /\ session[s] = Idle
        /\ Overlap(q)
        /\ CASE operation = "prepare" ->
                  row[q].status = "awaiting_confirmation"
             [] operation = "execute" -> MayExecute(row[q])
             [] operation = "cancel"  -> MayCancel(row[q])
             [] operation = "reschedule" ->
                  policy.route = "integration" /\ row[q].status = "confirmed"
    BY <1>3 DEF Load, Become
  <2>2. next.doing = operation /\ next.req = q /\ next.was = row[q]
    OBVIOUS
  <2>. HIDE DEF next
  <2>3. /\ \A t \in Sessions : session'[t] = IF t = s THEN next ELSE session[t]
        /\ ~Has(s, r)
    BY <2>1, ActionsAssumption DEF Types, Has, Idle
  <2>4. CASE q # r
    <3>1. \A t \in Sessions : Has(t, r) \/ Has(t, r)' =>
                                 session'[t] = session[t]
      BY <2>2, <2>3, <2>4 DEF Has
    <3> QED
      BY <2>1, <3>1, ElsewhereKeeps DEF Elsewhere, Flies
  <2>5. CASE q = r
    <3>1. \A t \in Sessions : ~Has(t, r)
      BY <2>1, <2>5 DEF Overlap, Busy
    <3>2. Steady(r)
      BY <2>1, QuietSteady
    <3>3. \A d \in Notes(r)' : d \in Notes(r)
      <4>1. \A t \in Sessions : Has(t, r)' => session'[t].was = row[r]
        BY <2>2, <2>3, <2>5, <3>1 DEF Has
      <4>2. row'[r].details \in Notes(r)
        BY <2>1 DEF Notes
      <4>3. \A h \in hooks' : h.call.req = r => h.was.details \in Notes(r)
        BY <2>1 DEF Notes
      <4> QED
        BY <2>1, <4>1, <4>2, <4>3 DEF Notes
    <3>4. \A d \in Notes(r)' : Claims(r, d)'
      BY <3>2, <3>3, SteadyStays DEF Truth
    <3>5. Says(r, row[r].status)'
      <4>1. PICK status : status = row[r].status
        OBVIOUS
      <4>2. Says(r, status)'
        BY <2>1, <3>2, <3>3, <4>1, SaysStays DEF Truth
      <4> QED
        BY <2>1, <4>1, <4>2
    <3>6. Flying(r, "cancel")' => Settled(r)'
      BY <3>2, SteadyStays DEF Truth, Steady
    <3>7. operation = "cancel" /\ External => Free(row[r].details)
      <4>1. row[r].status \in Executable => row[r].details = Blank
        BY DEF Truth, Says, Notes
      <4>2. Free(Blank)
        BY DEF Blank, Free
      <4>3. policy.route \in {"integration", "workflow", "native", "internal",
                              "human"}
        BY DEF Types, Policies
      <4> QED
        BY <2>1, <2>5, <4>1, <4>2, <4>3 DEF MayCancel, Free, External
    <3>8. ASSUME NEW t \in Sessions, Has(t, r)'
          PROVE  Mine(t, r)'
      <4>1. t = s /\ session'[t].doing = operation /\ session'[t].was = row[r]
        BY <2>2, <2>3, <2>5, <3>1, <3>8 DEF Has
      <4>2. operation # "call" /\ (External' <=> External)
        BY <2>1 DEF Operations, External
      <4> QED
        BY <2>1, <2>5, <3>7, <4>1, <4>2 DEF Mine
    <3>9. row[r].status \in {"executing", "cancelling"} => r \in orphaned
      BY <3>1 DEF Truth
    <3> QED
      BY <2>1, <3>4, <3>5, <3>6, <3>8, <3>9 DEF Truth
  <2> QED
    BY <2>4, <2>5
<1> QED
  BY <1>1, <1>2, <1>3


\* The truth at the beginning.
LEMMA TruthInit == Init => TruthInv
<1> SUFFICES ASSUME Init
             PROVE  TruthInv
  OBVIOUS
<1>1. ActionsInv /\ Types /\ Owned
  BY ActionsInit, TypesInit
<1>2. ASSUME NEW r \in Requests
      PROVE  Truth(r)
  <2>1. \A s \in Sessions : ~Has(s, r)
    BY ActionsAssumption DEF Init, Has, Idle
  <2>2. \A op : ~Flying(r, op)
    BY DEF Init, Flying, Flies
  <2>3. \A d \in Notes(r) : d = Blank
    BY <2>1 DEF Init, Notes
  <2>4. row[r].status = "none" /\ executed[r] = 0 /\ reversed[r] = 0
    BY DEF Init
  <2>5. \A d \in Notes(r) : Claims(r, d)
    BY <2>2, <2>3 DEF Claims, Settled, Blank
  <2>6. Says(r, row[r].status)
    BY <2>2, <2>3, <2>4 DEF Says
  <2> QED
    BY <2>1, <2>2, <2>4, <2>5, <2>6 DEF Truth
<1> QED
  BY <1>1, <1>2 DEF TruthInv

\* Once irregular, a request stays so.
LEMMA RegularBefore ==
    ASSUME [Next]_vars
    PROVE  overlapped \subseteq overlapped' /\ touched \subseteq touched'
<1>. USE DEF people, outside
<1>1. CASE UNCHANGED vars
  BY <1>1 DEF vars
<1>2. ASSUME NEW r \in Requests, \/ Prepare(r) \/ Reconcile(r)
                                 \/ DeskLoads(r) \/ AdminSets(r)
      PROVE  overlapped \subseteq overlapped' /\ touched \subseteq touched'
  BY <1>2 DEF Prepare, Reconcile, DeskLoads, AdminSets, Overlap, Decide
<1>3. ASSUME NEW s \in Sessions, NEW r \in Requests, NEW operation,
             Load(s, r, operation)
      PROVE  overlapped \subseteq overlapped' /\ touched \subseteq touched'
  BY <1>3 DEF Load, Overlap
<1>4. ASSUME NEW s \in Sessions, SessionStep(s) \/ Crash(s)
      PROVE  overlapped \subseteq overlapped' /\ touched \subseteq touched'
  BY <1>4 DEF SessionStep, PrepareAgain, TakeSlot, PlaceInside,
     PlaceWithHuman, PlaceOutside, CancelPlainly, CancelOutside, Reschedule,
     CallSucceeds, CallRepeated, CallFails, Crash
<1>5. CASE \/ \E call \in wire : Arrives(call) \/ HookLoads(call)
           \/ \E h \in hooks : HookEnds(h)
  BY <1>5 DEF Arrives, HookLoads, HookEnds
<1>6. CASE DeskWrites
  BY <1>6 DEF DeskWrites, Decide
<1> QED
  BY <1>1, <1>2, <1>3, <1>4, <1>5, <1>6 DEF Next

\* Every step keeps the truth of the regular requests.
LEMMA TruthStep == TruthInv /\ [Next]_vars => TruthInv'
<1> SUFFICES ASSUME TruthInv, [Next]_vars
             PROVE  TruthInv'
  OBVIOUS
<1>1. ActionsInv' /\ Types' /\ Owned'
  BY ActionsStep, TypesStep, OwnedStep DEF TruthInv
<1>2. ASSUME NEW r \in Requests, Regular(r)'
      PROVE  Truth(r)'
  <2>1. /\ r \notin overlapped \cup touched
        /\ r \notin overlapped' \cup touched'
    BY <1>2, RegularBefore DEF Regular
  <2>2. Truth(r) /\ ActionsInv /\ Types /\ Owned
    BY <2>1 DEF TruthInv, Regular
  <2>3. CASE UNCHANGED vars
    <3>1. Elsewhere(r)
      BY <2>3 DEF vars, outside, Elsewhere, Flies
    <3> QED
      BY <2>2, <3>1, ElsewhereKeeps
  <2>4. ASSUME NEW s \in Sessions, SessionStep(s) \/ Crash(s)
        PROVE  Truth(r)'
    BY <2>1, <2>2, <2>4, SessionKeepsTruth
  <2> QED
    BY <2>1, <2>2, <2>3, <2>4, WorldKeepsTruth, PeopleKeepTruth DEF Next
<1> QED
  BY <1>1, <1>2 DEF TruthInv

\* The invariant holds.
LEMMA SpecTruth == Spec => []TruthInv
<1> QED
  BY TruthInit, TruthStep, PTL DEF Spec

\* The types of TypeOK hold: every row has one of the statuses and details
\* the code writes, every call belongs to a session or to nobody.
THEOREM RequestsAreTyped == Spec => []TypeOK
<1>1. TruthInv => TypeOK
  <2> SUFFICES ASSUME Types
               PROVE  TypeOK
    BY DEF TruthInv
  <2>1. \A s \in Sessions : session[s].req \in Requests \cup {Nobody}
    <3>1. ASSUME NEW s \in Sessions
          PROVE  session[s].req \in Requests \cup {Nobody}
      BY KindOf DEF Loaded, Callers
    <3> QED
      BY <3>1
  <2>2. \A call \in wire : call.by \in Sessions \cup {Nobody}
    BY DEF Types, Calls
  <2>3. row \in [Requests -> Rows]
    BY DEF Types
  <2> QED
    BY <2>1, <2>2, <2>3 DEF TypeOK, Types, Rows, Details, States
<1> QED
  BY <1>1, SpecTruth, PTL

\* When nobody works on a request, its status says what happened outside,
\* whatever arrived late, twice or never, as long as no two actors worked on
\* it at once and nobody set its status by hand (StatusIsTrue).
THEOREM StatusesAreTrue == Spec => []StatusIsTrue
<1>1. TruthInv => StatusIsTrue
  <2> SUFFICES ASSUME TruthInv, NEW r \in Requests, Regular(r), ~Busy(r)
               PROVE  /\ row[r].status = "confirmed" =>
                           IF External THEN executed[r] > reversed[r]
                           ELSE <<r, "confirmed">> \in events
                      /\ row[r].status = "cancelled" =>
                           executed[r] = reversed[r] \/ RepeatsCount
                      /\ row[r].status \in Executable => executed[r] = 0
                      /\ row[r].status \in {"executing", "cancelling"} =>
                           r \in orphaned
    BY DEF StatusIsTrue
  <2>1. Truth(r)
    BY DEF TruthInv
  <2>2. \A s \in Sessions : ~Has(s, r)
    BY DEF Busy
  <2> QED
    BY <2>1, <2>2 DEF Truth, Says, Undone
<1> QED
  BY <1>1, SpecTruth, PTL

=============================================================================
